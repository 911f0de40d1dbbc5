-------------------------- MODULE TreeStreamProofs --------------------------
(***************************************************************************)
(* The tree indexer end to end: whatever is indexed and however it is read *)
(* back, no unit is repeated or reordered, and when no error was discarded *)
(* and no fetch failed, a stream that ends has returned all of the input.  *)
(* The argument follows the decoded blocks from the top-level one down:    *)
(* each was loaded from the key its parent consumed last, or is used up    *)
(* and about to be reloaded.  Until a read fails, what is delivered is a   *)
(* prefix of the content of the stored tree, also of one that has gaps.    *)
(***************************************************************************)
EXTENDS TreeRoundTrip, HashTreeProofs

-----------------------------------------------------------------------------
(* How far the keys that decoded block b has consumed reach. *)
Reached(b) ==
    IF b.offset = 0 THEN inodes[b.src].lo
    ELSE Hi(inodes[b.src].depth, inodes[b.src].keys[b.offset])

(* b begins where a ends; after an error (e) there may be a gap. *)
Precise(a, b, e) == a <= b /\ (a = b \/ dropped \/ e)

DecodedBlock == [src : Nat, offset : Nat, child : Nat, cleared : BOOLEAN]

StreamTypes ==
    /\ rpc \in {"idle", "open", "descend", "copy", "climb", "closed", "aborted"}
    /\ chain \in Seq(DecodedBlock)
    /\ data \in [block : Nat, offset : Nat, size : Nat]
    /\ garbage \in BOOLEAN /\ sawError \in BOOLEAN /\ at \in Nat
    /\ want \in Nat /\ got \in 0..want
    /\ delivered \in Seq(Nat)

(* Where the control of the stream is. *)
StreamControl ==
    /\ result # "ok" => rpc = "idle" /\ chain = <<>> /\ ~garbage /\ ret = "none"
    /\ rpc \in {"descend", "copy", "climb"} => chain # <<>>
    /\ rpc = "open" => chain = <<>>
    /\ rpc = "descend" \/ (chain = <<>> /\ rpc # "closed") => delivered = <<>> /\ data = NoData
    /\ garbage => rpc \in {"idle", "aborted"} /\ sawError
    /\ rpc = "climb" => at \in 1..Len(chain) /\ data.offset >= data.size
    /\ SuccessMeansProgress

(* The decoded blocks. *)
BlockGood(b, e) ==
    /\ b.src \in 1..Len(inodes)
    /\ b.offset \in 0..KeyCount(b) /\ b.child \in 0..b.offset
    /\ ~dropped => inodes[b.src].hi <= nblocks
    /\ ~e => ~b.cleared /\ b.child = b.offset

(* A decoded block and the one below it. *)
Pair(p, q, e) ==
    /\ inodes[p.src].depth = inodes[q.src].depth + 1
    /\ Precise(inodes[q.src].hi, Reached(p), e)

ChainGood(c, e) ==
    /\ \A l \in 1..Len(c) : BlockGood(c[l], e)
    /\ \A l \in 1..(Len(c) - 1) : Pair(c[l], c[l + 1], e)

(***************************************************************************)
(* The data block was loaded last: for stream state r, decoded blocks c,   *)
(* data block d, working level a, after an error if e; g: the block below  *)
(* the last of c was never loaded.                                         *)
(***************************************************************************)
DataGood(r, c, g, d, a, e) ==
    c # <<>> =>
    /\ c[1].src = root
    /\ Precise(d.block, Reached(c[Len(c)]), e)
    /\ r = "descend" => c[Len(c)] = Decoded(c[Len(c)].src)
    /\ r # "descend" /\ ~g =>
         /\ inodes[c[Len(c)].src].depth = 0
         /\ d.block \in 1..nblocks /\ d.offset \in 0..BlockSize
         /\ d.size \in {0, BlockSize} /\ (~e => d.size = BlockSize)
    /\ r = "climb" =>
         /\ Precise(d.block, Reached(c[a]), e)
         /\ \A l \in (a + 1)..Len(c) : Exhausted(c[l])

(* The units up to the current one. *)
Units(d) == IF d.block = 0 THEN 0 ELSE (d.block - 1) * BlockSize + d.offset

(* What was delivered: all units up to the current one, or fewer after an  *)
(* error.                                                                  *)
DeliveredGood(r, t, d, s, e) ==
    /\ \A i, j \in 1..Len(s) : i < j => s[i] < s[j]
    /\ r # "closed" =>
         /\ \A i \in 1..Len(s) : s[i] <= Units(d)
         /\ ~dropped /\ ~e =>
              /\ Len(s) = Units(d) /\ \A i \in 1..Len(s) : s[i] = i
              /\ t = "STREAM_END" => d.block = nblocks /\ d.offset = BlockSize
    /\ t = "STREAM_END" /\ ~dropped /\ ~e => s = [i \in 1..(nblocks * BlockSize) |-> i]

StreamInv ==
    /\ StreamTypes
    /\ StreamControl
    /\ ChainGood(chain, sawError)
    /\ DataGood(rpc, chain, garbage, data, at, sawError)
    /\ DeliveredGood(rpc, ret, data, delivered, sawError)

ReadInv == TreeInv /\ StreamInv

-----------------------------------------------------------------------------
(***************************************************************************)
(* What a decoded block of a good tree may consume: a key one level below, *)
(* that begins where the keys before it end and does not end behind the    *)
(* last one.                                                               *)
(***************************************************************************)
LEMMA BlockFacts ==
  ASSUME TreeInv, NEW b, b.src \in 1..Len(inodes), b.offset \in 0..KeyCount(b)
  PROVE  /\ KeyCount(b) \in Nat \ {0} /\ inodes[b.src].depth \in Nat
         /\ inodes[b.src].lo \in Nat /\ inodes[b.src].hi \in Nat
         /\ Reached(b) \in Nat /\ Reached(b) <= inodes[b.src].hi
         /\ b.offset = KeyCount(b) => Reached(b) = inodes[b.src].hi
         /\ b.offset # KeyCount(b) =>
              /\ KeyOK(inodes[b.src].depth, NextKey(b))
              /\ Lo(inodes[b.src].depth, NextKey(b)) \in Nat
              /\ Hi(inodes[b.src].depth, NextKey(b)) \in Nat
              /\ Follows(Reached(b), Lo(inodes[b.src].depth, NextKey(b)))
              /\ Lo(inodes[b.src].depth, NextKey(b)) < Hi(inodes[b.src].depth, NextKey(b))
              /\ Hi(inodes[b.src].depth, NextKey(b)) <= inodes[b.src].hi
<1>1. Shape /\ StoredSpans /\ StoredEnds
  BY DEF TreeInv, IInv
<1>2. inodes[b.src] \in Inode
  BY <1>1 DEF Shape, TypeOK
<1>3. PICK d \in Nat, s \in Seq(Nat), k \in Nat :
         d = inodes[b.src].depth /\ s = inodes[b.src].keys /\ k = Len(s)
  <2>1. inodes[b.src].depth \in Nat /\ inodes[b.src].keys \in Seq(Nat)
    BY <1>2 DEF Inode
  <2>2. Len(inodes[b.src].keys) \in Nat
    BY <2>1
  <2> QED
    BY <2>1, <2>2, Zenon
<1>4. inodes[b.src].lo \in Nat /\ inodes[b.src].hi \in Nat
  BY <1>2 DEF Inode
<1>5. k >= 1 /\ KeyCount(b) = k /\ \A j \in 1..k : KeyOK(d, s[j])
  BY <1>1, <1>3 DEF Shape, StoredKeys, KeyCount
<1>6. \A j \in 1..k : Lo(d, s[j]) \in Nat /\ Hi(d, s[j]) \in Nat /\ Lo(d, s[j]) < Hi(d, s[j])
  BY <1>1, <1>5, SpanNonEmpty
<1>7. /\ \A i, j \in 1..k : i < j => Hi(d, s[i]) <= Lo(d, s[j])
      /\ \A j \in 1..(k - 1) : Follows(Hi(d, s[j]), Lo(d, s[j + 1]))
  BY <1>1, <1>3 DEF StoredSpans, Linked
<1>8. inodes[b.src].lo = Lo(d, s[1]) /\ inodes[b.src].hi = Hi(d, s[k])
  BY <1>1, <1>3 DEF StoredEnds
<1>9. PICK o \in Nat : o = b.offset /\ o <= k
  BY <1>3, <1>5
<1>10. ASSUME NEW j \in 1..k PROVE Hi(d, s[j]) <= Hi(d, s[k])
  <2>1. CASE j = k
    BY <1>6, <2>1
  <2>2. CASE j # k
    <3>1. j < k /\ k \in 1..k
      BY <1>5, <2>2
    <3>2. Hi(d, s[j]) <= Lo(d, s[k]) /\ Lo(d, s[k]) < Hi(d, s[k])
      BY <1>6, <1>7, <3>1
    <3> QED
      BY <1>6, <3>1, <3>2
  <2> QED
    BY <2>1, <2>2
<1>11. Reached(b) = IF o = 0 THEN Lo(d, s[1]) ELSE Hi(d, s[o])
  BY <1>3, <1>8, <1>9 DEF Reached
<1>12. NextKey(b) = s[o + 1]
  BY <1>3, <1>9 DEF NextKey
<1>13. Reached(b) \in Nat /\ Reached(b) <= Hi(d, s[k])
  <2>1. CASE o = 0
    <3>1. 1 \in 1..k
      BY <1>5
    <3>2. Lo(d, s[1]) \in Nat /\ Hi(d, s[1]) \in Nat /\ Hi(d, s[k]) \in Nat
          /\ Lo(d, s[1]) < Hi(d, s[1]) /\ Hi(d, s[1]) <= Hi(d, s[k])
      BY <1>5, <1>6, <1>10, <3>1
    <3> QED
      BY <1>11, <2>1, <3>2
  <2>2. CASE o # 0
    <3>1. o \in 1..k
      BY <1>9, <2>2
    <3> QED
      BY <1>6, <1>10, <1>11, <2>2, <3>1
  <2> QED
    BY <2>1, <2>2
<1>14. ASSUME o = k PROVE Reached(b) = Hi(d, s[k])
  BY <1>5, <1>11, <1>14
<1>15. ASSUME o # k
       PROVE  /\ KeyOK(d, s[o + 1]) /\ Lo(d, s[o + 1]) \in Nat /\ Hi(d, s[o + 1]) \in Nat
              /\ Follows(Reached(b), Lo(d, s[o + 1])) /\ Lo(d, s[o + 1]) < Hi(d, s[o + 1])
              /\ Hi(d, s[o + 1]) <= Hi(d, s[k])
  <2>1. o + 1 \in 1..k
    BY <1>9, <1>15
  <2>2. Follows(Reached(b), Lo(d, s[o + 1]))
    <3>1. CASE o = 0
      <4>1. o + 1 = 1 /\ Lo(d, s[1]) \in Nat
        BY <1>6, <2>1, <3>1
      <4> QED
        BY <1>11, <3>1, <4>1 DEF Follows
    <3>2. CASE o # 0
      <4>1. o \in 1..(k - 1)
        BY <1>9, <1>15, <3>2
      <4> QED
        BY <1>7, <1>11, <3>2, <4>1
    <3> QED
      BY <3>1, <3>2
  <2> QED
    BY <1>5, <1>6, <1>10, <2>1, <2>2
<1> QED
  BY <1>3, <1>4, <1>5, <1>8, <1>9, <1>12, <1>13, <1>14, <1>15

(* Block b with one key more consumed and m children fetched. *)
Consumed(b, m) == [b EXCEPT !.offset = @ + 1, !.child = m]

(* A key is consumed; what the block below may be loaded with. *)
LEMMA KeyConsumed ==
  ASSUME TreeInv, NEW e \in BOOLEAN, NEW b \in DecodedBlock, BlockGood(b, e),
         b.offset # KeyCount(b), NEW m \in {b.child, b.child + 1},
         m = b.child + 1 \/ e = TRUE,
         NEW x, x = Consumed(b, m)
  PROVE  /\ x \in DecodedBlock /\ BlockGood(x, e) /\ x.src = b.src
         /\ x.offset = b.offset + 1
         /\ Reached(x) = Hi(inodes[b.src].depth, NextKey(b))
<1>1. /\ x.src = b.src /\ x.offset = b.offset + 1 /\ x.cleared = b.cleared
      /\ x.child = m /\ x \in DecodedBlock
  <2>1. /\ b.src \in Nat /\ b.offset \in Nat /\ b.child \in Nat /\ b.cleared \in BOOLEAN
        /\ b = [src |-> b.src, offset |-> b.offset, child |-> b.child, cleared |-> b.cleared]
    BY DEF DecodedBlock
  <2>2. PICK o \in Nat : o = b.offset + 1
    BY <2>1
  <2>3. m \in Nat
    BY <2>1
  <2>4. x = [src |-> b.src, offset |-> o, child |-> m, cleared |-> b.cleared]
    BY <2>1, <2>2 DEF Consumed
  <2> QED
    BY <2>1, <2>2, <2>3, <2>4 DEF DecodedBlock
<1>2. /\ b.src \in 1..Len(inodes) /\ b.offset \in 0..KeyCount(b) /\ b.child \in 0..b.offset
      /\ ~dropped => inodes[b.src].hi <= nblocks
      /\ ~e => ~b.cleared /\ b.child = b.offset
  BY DEF BlockGood
<1>3. KeyCount(b) \in Nat /\ KeyCount(x) = KeyCount(b)
  BY <1>1, <1>2, BlockFacts DEF KeyCount
<1>4. PICK o \in Nat, k \in Nat, n \in Nat : o = b.offset /\ k = KeyCount(b) /\ n = b.child
  <2>1. b.offset \in Nat /\ b.child \in Nat
    BY DEF DecodedBlock
  <2> QED
    BY <1>3, <2>1, Zenon
<1>5. o + 1 \in 0..k /\ n \in 0..(o + 1) /\ n + 1 \in 0..(o + 1)
  BY <1>2, <1>4
<1>6. ~e => ~x.cleared /\ x.child = x.offset
  BY <1>1, <1>2
<1>7. BlockGood(x, e)
  BY <1>1, <1>2, <1>3, <1>4, <1>5, <1>6 DEF BlockGood
<1>8. Reached(x) = Hi(inodes[b.src].depth, NextKey(b))
  BY <1>1, <1>4, <1>5 DEF Reached, NextKey
<1> QED
  BY <1>1, <1>7, <1>8

(* The key block such a key names. *)
LEMMA FreshBlock ==
  ASSUME TreeInv, NEW e \in BOOLEAN, NEW b, BlockGood(b, e), b.offset # KeyCount(b),
         ChildrenAreKeyBlocks(b), NEW h, h = NextKey(b)
  PROVE  /\ Decoded(h) \in DecodedBlock /\ BlockGood(Decoded(h), e)
         /\ Decoded(h).src = h /\ inodes[b.src].depth = inodes[h].depth + 1
         /\ inodes[h].hi = Hi(inodes[b.src].depth, h)
         /\ Reached(Decoded(h)) = Lo(inodes[b.src].depth, h)
<1>1. /\ b.src \in 1..Len(inodes) /\ b.offset \in 0..KeyCount(b)
      /\ ~dropped => inodes[b.src].hi <= nblocks
  BY DEF BlockGood
<1>2. PICK d \in Nat : d = inodes[b.src].depth /\ d > 0
  BY <1>1, BlockFacts DEF ChildrenAreKeyBlocks
<1>3. /\ KeyOK(d, h) /\ Hi(d, h) \in Nat /\ Hi(d, h) <= inodes[b.src].hi
      /\ inodes[b.src].hi \in Nat
  BY <1>1, <1>2, BlockFacts
<1>4. h \in 1..Len(inodes) /\ inodes[h].depth = d - 1 /\ Hi(d, h) = inodes[h].hi
      /\ Lo(d, h) = inodes[h].lo
  BY <1>2, <1>3 DEF KeyOK, Hi, Lo
<1>5. Decoded(h).src = h /\ Decoded(h).offset = 0 /\ Decoded(h).child = 0
      /\ ~Decoded(h).cleared /\ Decoded(h).cleared = FALSE
  BY DEF Decoded
<1>6. h \in Nat /\ nblocks \in Nat
  BY <1>4 DEF TreeInv, IInv, Shape, TypeOK
<1>7. Decoded(h) \in DecodedBlock
  BY <1>6 DEF Decoded, DecodedBlock
<1>8. KeyCount(Decoded(h)) \in Nat
  <2>1. inodes[h] \in Inode
    BY <1>4 DEF TreeInv, IInv, Shape, TypeOK
  <2>2. inodes[h].keys \in Seq(Nat)
    BY <2>1 DEF Inode
  <2> QED
    BY <1>5, <2>2 DEF KeyCount
<1>9. ~dropped => inodes[h].hi <= nblocks
  BY <1>1, <1>3, <1>4, <1>6
<1>10. BlockGood(Decoded(h), e)
  BY <1>4, <1>5, <1>8, <1>9 DEF BlockGood
<1>11. Reached(Decoded(h)) = inodes[h].lo
  BY <1>5 DEF Reached
<1>12. d = (d - 1) + 1
  OBVIOUS
<1> QED
  BY <1>2, <1>4, <1>5, <1>7, <1>10, <1>11, <1>12

(* An error later, everything is as good. *)
LEMMA ErrorLater ==
  ASSUME NEW e \in BOOLEAN, NEW f, f = TRUE
  PROVE  /\ \A c : ChainGood(c, e) => ChainGood(c, f)
         /\ \A x, y : Precise(x, y, e) => Precise(x, y, f)
<1>1. \A b : BlockGood(b, e) => BlockGood(b, f)
  BY DEF BlockGood
<1>2. \A x, y : Precise(x, y, e) => Precise(x, y, f)
  BY DEF Precise
<1>3. \A p, q : Pair(p, q, e) => Pair(p, q, f)
  BY <1>2 DEF Pair
<1> QED
  BY <1>1, <1>2, <1>3 DEF ChainGood

(* The lowest key block changes. *)
LEMMA ChainBottom ==
  ASSUME NEW e \in BOOLEAN, NEW c \in Seq(DecodedBlock), ChainGood(c, e),
         NEW n \in Nat, n = Len(c), n >= 1,
         NEW d \in Seq(DecodedBlock), Len(d) = n, \A l \in 1..n : l # n => d[l] = c[l],
         d[n].src = c[n].src, BlockGood(d[n], e)
  PROVE  ChainGood(d, e)
<1>3. ASSUME NEW l \in 1..n PROVE BlockGood(d[l], e)
  BY DEF ChainGood
<1>4. ASSUME NEW l \in 1..(n - 1) PROVE Pair(d[l], d[l + 1], e)
  <2>1. l \in 1..n /\ l # n /\ l + 1 \in 1..n
    OBVIOUS
  <2>2. Pair(c[l], c[l + 1], e)
    BY DEF ChainGood
  <2>3. d[l] = c[l] /\ d[l + 1].src = c[l + 1].src
    BY <2>1
  <2> QED
    BY <2>2, <2>3 DEF Pair
<1> QED
  BY <1>3, <1>4 DEF ChainGood

(* A key block in between changes, and the one below it. *)
LEMMA ChainInner ==
  ASSUME NEW e \in BOOLEAN, NEW c \in Seq(DecodedBlock), ChainGood(c, e),
         NEW n \in Nat, n = Len(c), NEW a \in 1..(n - 1),
         NEW d \in Seq(DecodedBlock), Len(d) = n,
         \A l \in 1..n : l # a /\ l # a + 1 => d[l] = c[l],
         d[a].src = c[a].src, BlockGood(d[a], e), BlockGood(d[a + 1], e),
         Pair(d[a], d[a + 1], e), a + 1 # n => Pair(d[a + 1], c[a + 2], e)
  PROVE  ChainGood(d, e)
<1>1. n \in Nat /\ a \in 1..n /\ a + 1 \in 1..n
  OBVIOUS
<1>3. ASSUME NEW l \in 1..n PROVE BlockGood(d[l], e)
  <2>1. CASE l = a \/ l = a + 1
    BY <2>1
  <2>2. CASE l # a /\ l # a + 1
    BY <2>2 DEF ChainGood
  <2> QED
    BY <2>1, <2>2
<1>4. ASSUME NEW l \in 1..(n - 1) PROVE Pair(d[l], d[l + 1], e)
  <2>0. l \in 1..n /\ l + 1 \in 1..n
    BY <1>1
  <2>1. Pair(c[l], c[l + 1], e)
    BY DEF ChainGood
  <2>2. CASE l = a
    BY <2>2
  <2>3. CASE l = a + 1
    <3>1. l + 1 = a + 2 /\ a + 1 # n /\ l + 1 # a /\ l + 1 # a + 1
      BY <2>3
    <3>2. d[l + 1] = c[a + 2]
      BY <2>0, <3>1
    <3> QED
      BY <2>3, <3>1, <3>2
  <2>4. CASE l + 1 = a
    <3>1. l # a /\ l # a + 1
      BY <2>4
    <3>2. d[l] = c[l] /\ d[l + 1].src = c[l + 1].src
      BY <2>0, <2>4, <3>1
    <3> QED
      BY <2>1, <3>2 DEF Pair
  <2>5. CASE l # a /\ l # a + 1 /\ l + 1 # a
    <3>1. l + 1 # a + 1
      BY <2>5
    <3>2. d[l] = c[l] /\ d[l + 1] = c[l + 1]
      BY <2>0, <2>5, <3>1
    <3> QED
      BY <2>1, <3>2
  <2> QED
    BY <2>2, <2>3, <2>4, <2>5
<1> QED
  BY <1>3, <1>4 DEF ChainGood

(* One key block more below. *)
LEMMA ChainLonger ==
  ASSUME NEW e \in BOOLEAN, NEW c \in Seq(DecodedBlock), ChainGood(c, e), NEW n, n = Len(c),
         c # <<>>, NEW y \in DecodedBlock, BlockGood(y, e), Pair(c[n], y, e)
  PROVE  /\ Append(c, y) \in Seq(DecodedBlock) /\ Len(Append(c, y)) = n + 1
         /\ ChainGood(Append(c, y), e)
<1> DEFINE d == Append(c, y)
<1>1. n \in Nat /\ n \in 1..n
  OBVIOUS
<1>2. d \in Seq(DecodedBlock) /\ Len(d) = n + 1 /\ d[n + 1] = y /\ \A l \in 1..n : d[l] = c[l]
  OBVIOUS
<1> HIDE DEF d
<1>3. ASSUME NEW l \in 1..(n + 1) PROVE BlockGood(d[l], e)
  BY <1>1, <1>2 DEF ChainGood
<1>4. ASSUME NEW l \in 1..n PROVE Pair(d[l], d[l + 1], e)
  <2>1. CASE l = n
    BY <1>2, <2>1
  <2>2. CASE l # n
    <3>1. l \in 1..(n - 1) /\ l + 1 \in 1..n
      BY <1>1, <2>2
    <3> QED
      BY <1>2, <3>1 DEF ChainGood
  <2> QED
    BY <2>1, <2>2
<1>5. (n + 1) - 1 = n
  BY <1>1
<1>6. ChainGood(d, e)
  BY <1>2, <1>3, <1>4, <1>5 DEF ChainGood
<1> QED
  BY <1>2, <1>6 DEF d

-----------------------------------------------------------------------------
(* Gaps add up. *)
LEMMA PreciseTrans ==
  ASSUME NEW x \in Nat, NEW y \in Nat, NEW z \in Nat, NEW e \in BOOLEAN,
         Precise(x, y, e), Precise(y, z, e)
  PROVE  Precise(x, z, e)
BY DEF Precise

(***************************************************************************)
(* chop_decoded_block_next_child gives a block up only at its end, unless  *)
(* an error made it give up before.                                        *)
(***************************************************************************)
LEMMA ExhaustedReach ==
  ASSUME TreeInv, NEW e \in BOOLEAN, NEW b \in DecodedBlock, BlockGood(b, e), Exhausted(b)
  PROVE  Precise(Reached(b), inodes[b.src].hi, e)
<1>1. b.src \in 1..Len(inodes) /\ b.offset \in 0..KeyCount(b)
      /\ (~e => ~b.cleared /\ b.child = b.offset)
  BY DEF BlockGood
<1>2. /\ KeyCount(b) \in Nat /\ Reached(b) <= inodes[b.src].hi
      /\ b.offset = KeyCount(b) => Reached(b) = inodes[b.src].hi
  BY <1>1, BlockFacts
<1>3. ~e => b.offset = KeyCount(b)
  <2>1. PICK o \in Nat, k \in Nat : o = b.offset /\ k = KeyCount(b)
    BY <1>1, <1>2
  <2>2. o <= k
    BY <1>1, <2>1
  <2> QED
    BY <1>1, <2>1, <2>2 DEF Exhausted
<1> QED
  BY <1>2, <1>3 DEF Precise

(* What lies before the reach of an exhausted block lies before its        *)
(* parent's.                                                               *)
LEMMA ClimbUp ==
  ASSUME TreeInv, NEW e \in BOOLEAN, NEW p \in DecodedBlock, NEW b \in DecodedBlock,
         BlockGood(p, e), BlockGood(b, e), Pair(p, b, e), Exhausted(b),
         NEW x \in Nat, Precise(x, Reached(b), e)
  PROVE  Precise(x, Reached(p), e)
<1>1. Precise(Reached(b), inodes[b.src].hi, e) /\ Precise(inodes[b.src].hi, Reached(p), e)
  BY ExhaustedReach DEF Pair
<1>2. Reached(b) \in Nat /\ inodes[b.src].hi \in Nat /\ Reached(p) \in Nat
  <2>1. /\ b.src \in 1..Len(inodes) /\ b.offset \in 0..KeyCount(b)
        /\ p.src \in 1..Len(inodes) /\ p.offset \in 0..KeyCount(p)
    BY DEF BlockGood
  <2> QED
    BY <2>1, BlockFacts
<1>3. Precise(x, inodes[b.src].hi, e)
  BY <1>1, <1>2, PreciseTrans
<1> QED
  BY <1>1, <1>2, <1>3, PreciseTrans

(* The next key of a block that is not exhausted. *)
LEMMA NextReach ==
  ASSUME TreeInv, NEW e \in BOOLEAN, NEW b \in DecodedBlock, BlockGood(b, e), ~Exhausted(b),
         NEW x \in Nat, Precise(x, Reached(b), e)
  PROVE  /\ b.offset # KeyCount(b)
         /\ KeyOK(inodes[b.src].depth, NextKey(b)) /\ inodes[b.src].depth \in Nat
         /\ Lo(inodes[b.src].depth, NextKey(b)) \in Nat
         /\ Hi(inodes[b.src].depth, NextKey(b)) \in Nat
         /\ Lo(inodes[b.src].depth, NextKey(b)) < Hi(inodes[b.src].depth, NextKey(b))
         /\ Precise(x, Lo(inodes[b.src].depth, NextKey(b)), e)
<1>1. b.src \in 1..Len(inodes) /\ b.offset \in 0..KeyCount(b)
  BY DEF BlockGood
<1>2. b.offset # KeyCount(b)
  <2>1. KeyCount(b) \in Nat
    BY <1>1, BlockFacts
  <2> QED
    BY <1>1, <2>1 DEF Exhausted
<1>3. /\ KeyOK(inodes[b.src].depth, NextKey(b)) /\ inodes[b.src].depth \in Nat
      /\ Lo(inodes[b.src].depth, NextKey(b)) \in Nat
      /\ Hi(inodes[b.src].depth, NextKey(b)) \in Nat
      /\ Lo(inodes[b.src].depth, NextKey(b)) < Hi(inodes[b.src].depth, NextKey(b))
      /\ Follows(Reached(b), Lo(inodes[b.src].depth, NextKey(b)))
      /\ Reached(b) \in Nat
  BY <1>1, <1>2, BlockFacts
<1>4. Precise(Reached(b), Lo(inodes[b.src].depth, NextKey(b)), e)
  BY <1>3 DEF Follows, Precise
<1> QED
  BY <1>2, <1>3, <1>4, PreciseTrans

(***************************************************************************)
(* A step of the stream leaves the tree alone, so its parts may be judged  *)
(* by the tree before the step.                                            *)
(***************************************************************************)
LEMMA Transfer ==
  ASSUME UNCHANGED vars, StreamTypes', StreamControl',
         ChainGood(chain', sawError'),
         DataGood(rpc', chain', garbage', data', at', sawError'),
         DeliveredGood(rpc', ret', data', delivered', sawError')
  PROVE  StreamInv'
<1>1. inodes' = inodes /\ root' = root /\ nblocks' = nblocks /\ dropped' = dropped
  BY DEF vars
<1>2. ChainGood(chain, sawError)'
  BY <1>1 DEF ChainGood, BlockGood, Pair, Precise, Reached, Hi, KeyCount
<1>3. DataGood(rpc, chain, garbage, data, at, sawError)'
  BY <1>1 DEF DataGood, Precise, Reached, Hi, Exhausted, KeyCount, Decoded
<1>4. DeliveredGood(rpc, ret, data, delivered, sawError)'
  BY <1>1 DEF DeliveredGood, Units
<1> QED
  BY <1>2, <1>3, <1>4 DEF StreamInv

-----------------------------------------------------------------------------
(* A call begins. *)
LEMMA ReadKeeps ==
  ASSUME ReadInv, result = "ok", UNCHANGED vars, NEW size \in Sizes, Read(size)
  PROVE  StreamInv'
<1>1. /\ StreamTypes /\ StreamControl /\ ChainGood(chain, sawError)
      /\ DataGood(rpc, chain, garbage, data, at, sawError)
      /\ DeliveredGood(rpc, ret, data, delivered, sawError)
  BY DEF ReadInv, StreamInv
<1>2. /\ chain' = chain /\ garbage' = garbage /\ data' = data /\ at' = at /\ ret' = ret
      /\ delivered' = delivered /\ sawError' = sawError /\ want' = size /\ got' = 0
      /\ rpc = "idle" /\ ~garbage /\ rpc' = IF chain = <<>> THEN "open" ELSE "copy"
      /\ size \in Nat /\ result' = "ok"
  BY SizesAssumption DEF Read, vars
<1>3. StreamTypes'
  BY <1>1, <1>2 DEF StreamTypes
<1>4. StreamControl'
  BY <1>1, <1>2 DEF StreamControl, SuccessMeansProgress
<1>5. ChainGood(chain', sawError')
  BY <1>1, <1>2
<1>6. DataGood(rpc', chain', garbage', data', at', sawError')
  BY <1>1, <1>2 DEF DataGood
<1>7. DeliveredGood(rpc', ret', data', delivered', sawError')
  BY <1>1, <1>2 DEF DeliveredGood
<1> QED
  BY <1>3, <1>4, <1>5, <1>6, <1>7, Transfer

(* A call finds a block that was never loaded. *)
LEMMA ReadGarbageKeeps ==
  ASSUME ReadInv, result = "ok", UNCHANGED vars, NEW size \in Sizes, ReadGarbage(size)
  PROVE  StreamInv'
<1>1. /\ StreamTypes /\ StreamControl /\ ChainGood(chain, sawError)
      /\ DataGood(rpc, chain, garbage, data, at, sawError)
      /\ DeliveredGood(rpc, ret, data, delivered, sawError)
  BY DEF ReadInv, StreamInv
<1>2. /\ chain' = chain /\ garbage' = garbage /\ data' = data
      /\ delivered' = delivered /\ want' = size /\ got' = 0
      /\ rpc = "idle" /\ garbage /\ size \in Nat /\ result' = "ok"
      /\ rpc' \in {"idle", "aborted"} /\ (ret' = ret \/ ret' = "STREAM_END")
      /\ ret' = ret => rpc' = "aborted" \/ ret' = "STREAM_END"
      /\ at' = 0 \/ at' = at
      /\ sawError' = sawError \/ sawError' = (sawError \/ "STREAM_END" = "error")
  BY SizesAssumption DEF ReadGarbage, ReadReturns, vars
<1>3. sawError /\ sawError'
  <2>1. sawError
    BY <1>1, <1>2, Zenon DEF StreamControl
  <2>2. sawError' = sawError \/ sawError' = (sawError \/ "STREAM_END" = "error")
    BY <1>2
  <2> QED
    BY <2>1, <2>2, Zenon
<1>4. StreamTypes'
  BY <1>1, <1>2, <1>3 DEF StreamTypes
<1>5. StreamControl'
  BY <1>1, <1>2, <1>3 DEF StreamControl, SuccessMeansProgress
<1>6. sawError = TRUE /\ sawError' = TRUE
  BY <1>1, <1>3, <1>4 DEF StreamTypes
<1>7. ChainGood(chain', sawError')
  BY <1>1, <1>2, <1>6
<1>8. DataGood(rpc', chain', garbage', data', at', sawError')
  BY <1>1, <1>2, <1>6 DEF DataGood
<1>9. DeliveredGood(rpc', ret', data', delivered', sawError')
  BY <1>1, <1>2, <1>6 DEF DeliveredGood
<1> QED
  BY <1>4, <1>5, <1>7, <1>8, <1>9, Transfer

(* The top-level block cannot be fetched. *)
LEMMA FetchRootFailsKeeps ==
  ASSUME ReadInv, result = "ok", UNCHANGED vars, FetchRootFails
  PROVE  StreamInv'
<1>1. /\ StreamTypes /\ StreamControl /\ ChainGood(chain, sawError)
      /\ DeliveredGood(rpc, ret, data, delivered, sawError)
  BY DEF ReadInv, StreamInv
<1>2. /\ chain' = chain /\ garbage' = TRUE /\ data' = data /\ at' = 0
      /\ delivered' = delivered /\ want' = want /\ got' = got
      /\ rpc = "open" /\ rpc' = "idle" /\ ret' = "error" /\ sawError' = TRUE /\ result' = "ok"
  BY DEF FetchRootFails, ReadReturns, vars
<1>3. chain = <<>> /\ delivered = <<>> /\ data = NoData
  BY <1>1, <1>2 DEF StreamControl
<1>4. StreamTypes'
  BY <1>1, <1>2 DEF StreamTypes
<1>5. StreamControl'
  BY <1>1, <1>2, <1>3 DEF StreamControl, SuccessMeansProgress
<1>6. ChainGood(chain', sawError')
  BY <1>2, <1>3 DEF ChainGood
<1>7. DataGood(rpc', chain', garbage', data', at', sawError')
  BY <1>2, <1>3 DEF DataGood
<1>8. DeliveredGood(rpc', ret', data', delivered', sawError')
  BY <1>1, <1>2 DEF DeliveredGood
<1> QED
  BY <1>4, <1>5, <1>6, <1>7, <1>8, Transfer

(* A call has returned all it was asked for. *)
LEMMA CopyDoneKeeps ==
  ASSUME ReadInv, result = "ok", UNCHANGED vars, CopyDone
  PROVE  StreamInv'
<1>1. /\ StreamTypes /\ StreamControl /\ ChainGood(chain, sawError)
      /\ DataGood(rpc, chain, garbage, data, at, sawError)
      /\ DeliveredGood(rpc, ret, data, delivered, sawError)
  BY DEF ReadInv, StreamInv
<1>2. /\ chain' = chain /\ garbage' = garbage /\ data' = data /\ at' = 0 /\ ret' = "ok"
      /\ delivered' = delivered /\ sawError' = sawError /\ want' = want /\ got' = got
      /\ rpc = "copy" /\ rpc' = "idle" /\ got = want /\ result' = "ok"
  BY <1>1 DEF CopyDone, ReadReturns, vars, StreamTypes
<1>3. StreamTypes'
  BY <1>1, <1>2 DEF StreamTypes
<1>4. StreamControl'
  BY <1>1, <1>2 DEF StreamControl, SuccessMeansProgress
<1>5. ChainGood(chain', sawError')
  BY <1>1, <1>2
<1>6. DataGood(rpc', chain', garbage', data', at', sawError')
  BY <1>1, <1>2 DEF DataGood
<1>7. DeliveredGood(rpc', ret', data', delivered', sawError')
  BY <1>1, <1>2 DEF DeliveredGood
<1> QED
  BY <1>3, <1>4, <1>5, <1>6, <1>7, Transfer

(* The data block is used up. *)
LEMMA NextBlockKeeps ==
  ASSUME ReadInv, result = "ok", UNCHANGED vars, NextBlock
  PROVE  StreamInv'
<1>1. /\ StreamTypes /\ StreamControl /\ ChainGood(chain, sawError)
      /\ DataGood(rpc, chain, garbage, data, at, sawError)
      /\ DeliveredGood(rpc, ret, data, delivered, sawError)
  BY DEF ReadInv, StreamInv
<1>2. /\ chain' = chain /\ garbage' = garbage /\ data' = data /\ at' = Len(chain) /\ ret' = ret
      /\ delivered' = delivered /\ sawError' = sawError /\ want' = want /\ got' = got
      /\ rpc = "copy" /\ rpc' = "climb" /\ data.offset >= data.size /\ result' = "ok"
  BY DEF NextBlock, Bottom, vars
<1>3. chain # <<>> /\ Len(chain) \in Nat /\ Len(chain) \in 1..Len(chain)
  BY <1>1, <1>2 DEF StreamControl, StreamTypes
<1>4. StreamTypes'
  BY <1>1, <1>2, <1>3 DEF StreamTypes
<1>5. StreamControl'
  BY <1>1, <1>2, <1>3 DEF StreamControl, SuccessMeansProgress
<1>6. ChainGood(chain', sawError')
  BY <1>1, <1>2
<1>7. DataGood(rpc', chain', garbage', data', at', sawError')
  BY <1>1, <1>2, <1>3 DEF DataGood
<1>8. DeliveredGood(rpc', ret', data', delivered', sawError')
  BY <1>1, <1>2 DEF DeliveredGood
<1> QED
  BY <1>4, <1>5, <1>6, <1>7, <1>8, Transfer

(* The stream is closed. *)
LEMMA CloseKeeps ==
  ASSUME ReadInv, result = "ok", UNCHANGED vars, Close
  PROVE  StreamInv'
<1>1. /\ StreamTypes /\ StreamControl /\ ChainGood(chain, sawError)
      /\ DeliveredGood(rpc, ret, data, delivered, sawError)
  BY DEF ReadInv, StreamInv
<1>2. /\ chain' = <<>> /\ garbage' = FALSE /\ data' = NoData /\ at' = at /\ ret' = ret
      /\ delivered' = delivered /\ sawError' = sawError /\ want' = want /\ got' = got
      /\ rpc = "idle" /\ rpc' = "closed" /\ result' = "ok"
  BY DEF Close, vars
<1>3. StreamTypes'
  <2>1. NoData \in [block : Nat, offset : Nat, size : Nat] /\ <<>> \in Seq(DecodedBlock)
    BY DEF NoData
  <2> QED
    BY <1>1, <1>2, <2>1 DEF StreamTypes
<1>4. StreamControl'
  BY <1>1, <1>2 DEF StreamControl, SuccessMeansProgress
<1>5. ChainGood(chain', sawError')
  BY <1>2 DEF ChainGood
<1>6. DataGood(rpc', chain', garbage', data', at', sawError')
  BY <1>2 DEF DataGood
<1>7. DeliveredGood(rpc', ret', data', delivered', sawError')
  BY <1>1, <1>2 DEF DeliveredGood
<1> QED
  BY <1>3, <1>4, <1>5, <1>6, <1>7, Transfer

(* The first key of the lowest block cannot be fetched. *)
LEMMA FetchFirstChildFailsKeeps ==
  ASSUME ReadInv, result = "ok", UNCHANGED vars, FetchFirstChildFails
  PROVE  StreamInv'
<1>1. /\ StreamTypes /\ StreamControl /\ ChainGood(chain, sawError) /\ TreeInv
      /\ DataGood(rpc, chain, garbage, data, at, sawError)
      /\ DeliveredGood(rpc, ret, data, delivered, sawError)
  BY DEF ReadInv, StreamInv
<1>2. /\ chain' = Consume(Bottom, FALSE) /\ garbage' = TRUE /\ data' = data /\ at' = 0
      /\ delivered' = delivered /\ want' = want /\ got' = got
      /\ rpc = "descend" /\ rpc' = "idle" /\ ret' = "error" /\ sawError' = TRUE /\ result' = "ok"
  BY DEF FetchFirstChildFails, ReadReturns, vars
<1>3. chain # <<>> /\ delivered = <<>> /\ data = NoData /\ sawError \in BOOLEAN
  BY <1>1, <1>2 DEF StreamControl, StreamTypes
<1>4. PICK c \in Seq(DecodedBlock) : c = chain
  BY <1>1 DEF StreamTypes
<1>5. PICK n \in Nat : n = Len(c) /\ n \in 1..n
  BY <1>3, <1>4
<1>f. PICK f \in BOOLEAN : f = TRUE
  OBVIOUS
<1>e. ChainGood(c, f)
  BY <1>1, <1>3, <1>4, <1>f, ErrorLater
<1>6. PICK x : x = Consumed(c[n], c[n].child)
  OBVIOUS
<1>7. /\ c[n] \in DecodedBlock /\ BlockGood(c[n], f)
      /\ c[n] = Decoded(c[n].src)
  BY <1>1, <1>2, <1>3, <1>4, <1>5, <1>e DEF ChainGood, DataGood
<1>8. c[n].offset # KeyCount(c[n])
  <2>1. c[n].src \in 1..Len(inodes) /\ c[n].offset \in 0..KeyCount(c[n])
    BY <1>7 DEF BlockGood
  <2>2. KeyCount(c[n]) \in Nat \ {0}
    BY <1>1, <2>1, BlockFacts
  <2>3. Decoded(c[n].src).offset = 0
    BY DEF Decoded
  <2> QED
    BY <1>7, <2>2, <2>3
<1>9. x \in DecodedBlock /\ BlockGood(x, f) /\ x.src = c[n].src
  <2>1. TreeInv /\ c[n].child \in {c[n].child, c[n].child + 1}
    BY <1>1
  <2> QED
    BY <1>6, <1>7, <1>8, <1>f, <2>1, KeyConsumed
<1>10. chain' = [c EXCEPT ![n] = x]
  BY <1>2, <1>4, <1>5, <1>6, <1>f DEF Consume, Consumed, Bottom
<1>11. PICK d \in Seq(DecodedBlock) :
          d = chain' /\ Len(d) = n /\ d[n] = x /\ \A l \in 1..n : l # n => d[l] = c[l]
  BY <1>5, <1>9, <1>10
<1>12. ChainGood(d, f)
  BY <1>5, <1>9, <1>11, <1>e, ChainBottom
<1>13. StreamTypes'
  BY <1>1, <1>2, <1>11 DEF StreamTypes
<1>14. StreamControl'
  <2>1. chain' # <<>>
    BY <1>5, <1>11
  <2> QED
    BY <1>1, <1>2, <1>3, <2>1 DEF StreamControl, SuccessMeansProgress
<1>15. DataGood(rpc', chain', garbage', data', at', sawError')
  <2>1. Reached(x) \in Nat /\ data.block = 0
    <3>1. x.src \in 1..Len(inodes) /\ x.offset \in 0..KeyCount(x)
      BY <1>9 DEF BlockGood
    <3> QED
      BY <1>1, <1>3, <3>1, BlockFacts DEF NoData
  <2>2. Precise(data.block, Reached(x), f)
    BY <1>f, <2>1 DEF Precise
  <2>3. c[1].src = root
    BY <1>1, <1>3, <1>4 DEF DataGood
  <2>4. d[1].src = root
    BY <1>5, <1>9, <1>11, <2>3
  <2> QED
    BY <1>2, <1>11, <1>f, <2>2, <2>4 DEF DataGood
<1>16. DeliveredGood(rpc', ret', data', delivered', sawError')
  BY <1>1, <1>2 DEF DeliveredGood
<1> QED
  BY <1>2, <1>11, <1>12, <1>13, <1>14, <1>15, <1>16, <1>f, Transfer

(* The search for the next child moves to the parent. *)
LEMMA ClimbKeeps ==
  ASSUME ReadInv, result = "ok", UNCHANGED vars, Climb
  PROVE  StreamInv'
<1>1. /\ StreamTypes /\ StreamControl /\ ChainGood(chain, sawError) /\ TreeInv
      /\ DataGood(rpc, chain, garbage, data, at, sawError)
      /\ DeliveredGood(rpc, ret, data, delivered, sawError)
  BY DEF ReadInv, StreamInv
<1>2. /\ chain' = chain /\ garbage' = garbage /\ data' = data /\ at' = at - 1 /\ ret' = ret
      /\ delivered' = delivered /\ sawError' = sawError /\ want' = want /\ got' = got
      /\ rpc = "climb" /\ rpc' = "climb" /\ result' = "ok" /\ at > 1 /\ Exhausted(chain[at])
  BY DEF Climb, vars
<1>3. PICK c \in Seq(DecodedBlock), a \in Nat, n \in Nat :
         c = chain /\ a = at /\ n = Len(c) /\ a \in 1..n /\ a > 1
  <2>1. chain \in Seq(DecodedBlock) /\ at \in Nat /\ Len(chain) \in Nat
    BY <1>1 DEF StreamTypes
  <2>2. at \in 1..Len(chain) /\ at > 1
    BY <1>1, <1>2 DEF StreamControl
  <2> QED
    BY <2>1, <2>2, Zenon
<1>4. a - 1 \in 1..n /\ a - 1 \in 1..(n - 1) /\ (a - 1) + 1 = a /\ a - 1 \in Nat
  BY <1>3
<1>5. StreamTypes'
  BY <1>1, <1>2, <1>3, <1>4 DEF StreamTypes
<1>6. StreamControl'
  BY <1>1, <1>2, <1>3, <1>4 DEF StreamControl, SuccessMeansProgress
<1>7. ChainGood(chain', sawError')
  BY <1>1, <1>2
<1>8. Precise(data.block, Reached(c[a - 1]), sawError)
  <2>1. /\ c[a] \in DecodedBlock /\ c[a - 1] \in DecodedBlock
        /\ data.block \in Nat /\ sawError \in BOOLEAN
    BY <1>1, <1>3, <1>4 DEF StreamTypes
  <2>2. BlockGood(c[a - 1], sawError) /\ BlockGood(c[a], sawError)
    BY <1>1, <1>3, <1>4 DEF ChainGood
  <2>3. Pair(c[a - 1], c[a], sawError)
    BY <1>1, <1>3, <1>4 DEF ChainGood
  <2>4. Precise(data.block, Reached(c[a]), sawError) /\ Exhausted(c[a])
    BY <1>1, <1>2, <1>3 DEF DataGood
  <2> QED
    BY <1>1, <2>1, <2>2, <2>3, <2>4, ClimbUp
<1>9. \A l \in a..n : Exhausted(c[l])
  <2>1. \A l \in a..n : l = a \/ l \in (a + 1)..n
    BY <1>3
  <2>2. c # <<>> /\ \A l \in (a + 1)..n : Exhausted(c[l])
    BY <1>1, <1>2, <1>3 DEF DataGood
  <2> QED
    BY <1>2, <1>3, <2>1, <2>2
<1>10. DataGood(rpc', chain', garbage', data', at', sawError')
  BY <1>1, <1>2, <1>3, <1>4, <1>8, <1>9 DEF DataGood
<1>11. DeliveredGood(rpc', ret', data', delivered', sawError')
  BY <1>1, <1>2 DEF DeliveredGood
<1> QED
  BY <1>5, <1>6, <1>7, <1>10, <1>11, Transfer

(* The top-level block is used up: everything was delivered. *)
LEMMA StreamEndKeeps ==
  ASSUME ReadInv, result = "ok", UNCHANGED vars, StreamEnd
  PROVE  StreamInv'
<1>1. /\ StreamTypes /\ StreamControl /\ ChainGood(chain, sawError) /\ TreeInv
      /\ DataGood(rpc, chain, garbage, data, at, sawError)
      /\ DeliveredGood(rpc, ret, data, delivered, sawError)
  BY DEF ReadInv, StreamInv
<1>2. /\ chain' = chain /\ garbage' = garbage /\ data' = data /\ at' = 0
      /\ delivered' = delivered /\ sawError' = sawError /\ want' = want /\ got' = got
      /\ rpc = "climb" /\ rpc' = "idle" /\ result' = "ok" /\ at = 1 /\ Exhausted(chain[1])
      /\ ret' = IF got = 0 THEN "STREAM_END" ELSE "ok"
  BY <1>1 DEF StreamEnd, ReadReturns, vars, StreamTypes
<1>3. chain # <<>> /\ sawError \in BOOLEAN /\ 1 \in 1..Len(chain)
      /\ data.offset >= data.size /\ ~garbage
  BY <1>1, <1>2 DEF StreamTypes, StreamControl
<1>4. StreamTypes'
  BY <1>1, <1>2 DEF StreamTypes
<1>5. StreamControl'
  BY <1>1, <1>2, <1>3 DEF StreamControl, StreamTypes, SuccessMeansProgress
<1>6. ChainGood(chain', sawError')
  BY <1>1, <1>2
<1>7. DataGood(rpc', chain', garbage', data', at', sawError')
  BY <1>1, <1>2 DEF DataGood
<1>8. ASSUME ~dropped, ~sawError PROVE data.block = nblocks /\ data.offset = BlockSize
  <2>1. chain[1] \in DecodedBlock /\ BlockGood(chain[1], sawError)
    BY <1>1, <1>3 DEF StreamTypes, ChainGood
  <2>2. Precise(Reached(chain[1]), inodes[root].hi, sawError)
    BY <1>1, <1>2, <1>3, <2>1, ExhaustedReach DEF DataGood
  <2>3. Precise(data.block, Reached(chain[1]), sawError)
    BY <1>1, <1>2, <1>3 DEF DataGood
  <2>4. Follows(inodes[root].hi, nblocks)
    BY <1>1 DEF TreeInv, IInv, ResultInv
  <2>5. data.block = nblocks
    BY <1>8, <2>2, <2>3, <2>4 DEF Precise, Follows
  <2>6. data.offset \in 0..BlockSize /\ data.size = BlockSize
    BY <1>1, <1>2, <1>3, <1>8 DEF DataGood
  <2> QED
    BY <1>3, <2>5, <2>6, BlockSizeAssumption
<1>9. ASSUME ~dropped, ~sawError PROVE delivered = [i \in 1..(nblocks * BlockSize) |-> i]
  <2>1. data.block \in Nat \ {0} /\ nblocks \in Nat
    BY <1>1, <1>2, <1>3 DEF DataGood, TreeInv, IInv, Shape, TypeOK
  <2>2. Units(data) = (nblocks - 1) * BlockSize + BlockSize
    BY <1>8, <1>9, <2>1 DEF Units
  <2>3. (nblocks - 1) * BlockSize + BlockSize = nblocks * BlockSize
    BY <2>1, BlockSizeAssumption
  <2>4. /\ Len(delivered) = nblocks * BlockSize /\ \A i \in 1..Len(delivered) : delivered[i] = i
        /\ delivered \in Seq(Nat)
    BY <1>1, <1>2, <1>9, <2>2, <2>3 DEF DeliveredGood, StreamTypes
  <2>5. delivered = [i \in 1..Len(delivered) |-> delivered[i]]
    BY <2>4
  <2> QED
    BY <2>4, <2>5
<1>10. DeliveredGood(rpc', ret', data', delivered', sawError')
  BY <1>1, <1>2, <1>8, <1>9 DEF DeliveredGood
<1> QED
  BY <1>4, <1>5, <1>6, <1>7, <1>10, Transfer

(* The top-level block is fetched. *)
LEMMA FetchRootKeeps ==
  ASSUME ReadInv, result = "ok", UNCHANGED vars, FetchRoot
  PROVE  StreamInv'
<1>1. /\ StreamTypes /\ StreamControl /\ TreeInv
      /\ DeliveredGood(rpc, ret, data, delivered, sawError)
  BY DEF ReadInv, StreamInv
<1>2. /\ chain' = <<Decoded(root)>> /\ garbage' = garbage /\ data' = data /\ at' = at
      /\ ret' = ret /\ delivered' = delivered /\ sawError' = sawError
      /\ want' = want /\ got' = got /\ rpc = "open" /\ rpc' = "descend" /\ result' = "ok"
  BY DEF FetchRoot, vars
<1>3. chain = <<>> /\ delivered = <<>> /\ data = NoData /\ sawError \in BOOLEAN /\ ~garbage
  BY <1>1, <1>2 DEF StreamControl, StreamTypes
<1>4. /\ root \in 1..Len(inodes) /\ root \in Nat /\ Follows(0, inodes[root].lo)
      /\ Follows(inodes[root].hi, nblocks) /\ inodes[root] \in Inode
  BY <1>1 DEF TreeInv, IInv, ResultInv, Shape, TypeOK
<1>5. PICK y : y = Decoded(root)
  OBVIOUS
<1>6. /\ y.src = root /\ y.offset = 0 /\ y.child = 0 /\ y.cleared = FALSE
      /\ y \in DecodedBlock
  BY <1>4, <1>5 DEF Decoded, DecodedBlock
<1>7. KeyCount(y) \in Nat /\ inodes[root].hi \in Nat /\ inodes[root].lo \in Nat
  <2>1. inodes[root].keys \in Seq(Nat) /\ inodes[root].hi \in Nat /\ inodes[root].lo \in Nat
    BY <1>4 DEF Inode
  <2> QED
    BY <1>6, <2>1 DEF KeyCount
<1>8. BlockGood(y, sawError)
  BY <1>4, <1>6, <1>7 DEF BlockGood, Follows
<1>9. Precise(0, Reached(y), sawError)
  BY <1>4, <1>6 DEF Precise, Follows, Reached
<1>10. /\ chain' = <<y>> /\ chain' \in Seq(DecodedBlock) /\ Len(chain') = 1
       /\ chain'[1] = y /\ chain' # <<>>
  BY <1>2, <1>5, <1>6
<1>11. StreamTypes'
  BY <1>1, <1>2, <1>10 DEF StreamTypes
<1>12. StreamControl'
  BY <1>1, <1>2, <1>3, <1>10 DEF StreamControl, SuccessMeansProgress
<1>13. ChainGood(chain', sawError')
  BY <1>2, <1>8, <1>10 DEF ChainGood
<1>14. DataGood(rpc', chain', garbage', data', at', sawError')
  <2>1. data'.block = 0
    BY <1>2, <1>3 DEF NoData
  <2> QED
    BY <1>2, <1>5, <1>6, <1>9, <1>10, <2>1 DEF DataGood
<1>15. DeliveredGood(rpc', ret', data', delivered', sawError')
  BY <1>1, <1>2 DEF DeliveredGood
<1> QED
  BY <1>11, <1>12, <1>13, <1>14, <1>15, Transfer

(* A data block further on in the input. *)
LEMMA UnitsGrow ==
  ASSUME NEW d, NEW h \in Nat, d.block \in Nat, d.offset \in 0..BlockSize,
         h > d.block
  PROVE  /\ Units(DecodedData(h)) = (h - 1) * BlockSize
         /\ Units(d) \in Nat /\ Units(DecodedData(h)) \in Nat
         /\ Units(d) <= Units(DecodedData(h))
         /\ d.block # 0 /\ h = d.block + 1 /\ d.offset = BlockSize
              => Units(d) = Units(DecodedData(h))
         /\ d.block = 0 /\ h = 1 => Units(d) = Units(DecodedData(h))
<1>1. PICK b \in Nat, o \in Nat, z \in Nat : b = d.block /\ o = d.offset /\ z = BlockSize
                                              /\ o <= z /\ z # 0
  BY BlockSizeAssumption
<1>2. Units(DecodedData(h)) = (h - 1) * z
  BY <1>1 DEF Units, DecodedData
<1>3. Units(d) = IF b = 0 THEN 0 ELSE (b - 1) * z + o
  BY <1>1 DEF Units
<1>4. CASE b = 0
  <2>1. (h - 1) * z \in Nat
    BY <1>1, <1>4
  <2>2. h = 1 => (h - 1) * z = 0
    OBVIOUS
  <2> QED
    BY <1>1, <1>2, <1>3, <1>4, <2>1, <2>2
<1>5. CASE b # 0
  <2>1. PICK a \in Nat, k \in Nat : b = a + 1 /\ h - 1 = a + 1 + k
    <3>1. b - 1 \in Nat /\ h - 1 - b \in Nat /\ b = (b - 1) + 1 /\ h - 1 = (b - 1) + 1 + (h - 1 - b)
      BY <1>1, <1>5
    <3> QED
      BY <3>1
  <2>2. (a + 1 + k) * z = a * z + z + k * z /\ a * z \in Nat /\ k * z \in Nat
    BY <1>1
  <2>3. Units(d) = a * z + o /\ Units(DecodedData(h)) = a * z + z + k * z
    BY <1>1, <1>2, <1>3, <1>5, <2>1, <2>2
  <2>4. h = b + 1 => k * z = 0
    <3>1. h = b + 1 => k = 0
      BY <1>1, <2>1
    <3> QED
      BY <1>1, <3>1
  <2>5. PICK m \in Nat, q \in Nat : m = a * z /\ q = k * z
    BY <2>2
  <2> QED
    BY <1>1, <1>2, <1>5, <2>3, <2>4, <2>5
<1> QED
  BY <1>4, <1>5

-----------------------------------------------------------------------------
(* A sequence and m units behind unit u. *)
LEMMA UnitsBehind ==
  ASSUME NEW s \in Seq(Nat), NEW u \in Nat, NEW m \in Nat,
         NEW t, t = s \o [i \in 1..m |-> u + i]
  PROVE  /\ t \in Seq(Nat) /\ Len(t) = Len(s) + m
         /\ \A i \in 1..Len(s) : t[i] = s[i]
         /\ \A i \in 1..(Len(s) + m) : ~(i <= Len(s)) => t[i] = u + (i - Len(s))
<1>1. PICK n \in Nat : n = Len(s)
  OBVIOUS
<1>2. PICK g \in Seq(Nat) : g = [i \in 1..m |-> u + i] /\ Len(g) = m
  <2>1. [i \in 1..m |-> u + i] \in [1..m -> Nat]
    OBVIOUS
  <2>2. [i \in 1..m |-> u + i] \in Seq(Nat) /\ Len([i \in 1..m |-> u + i]) = m
    BY <2>1
  <2> QED
    BY <2>2
<1>3. t = s \o g /\ t \in Seq(Nat) /\ Len(t) = n + m
  BY <1>1, <1>2
<1>4. \A i \in 1..n : t[i] = s[i]
  BY <1>1, <1>2, <1>3
<1>5. ASSUME NEW i \in 1..(n + m), ~(i <= n) PROVE t[i] = u + (i - n)
  <2>1. i - n \in 1..m
    BY <1>5
  <2>2. t[i] = g[i - n]
    BY <1>1, <1>2, <1>3, <1>5, <2>1
  <2> QED
    BY <1>2, <2>1, <2>2
<1> QED
  BY <1>1, <1>3, <1>4, <1>5

(* Units are appended that come after those delivered before. *)
LEMMA AppendUnits ==
  ASSUME NEW s \in Seq(Nat), NEW u \in Nat, NEW m \in Nat, NEW n \in Nat, n = Len(s),
         \A i, j \in 1..n : i < j => s[i] < s[j],
         \A i \in 1..n : s[i] <= u,
         NEW t, \A i \in 1..n : t[i] = s[i],
         \A i \in 1..(n + m) : ~(i <= n) => t[i] = u + (i - n)
  PROVE  /\ \A i, j \in 1..(n + m) : i < j => t[i] < t[j]
         /\ \A i \in 1..(n + m) : t[i] <= u + m
         /\ n = u /\ (\A i \in 1..n : s[i] = i) => \A i \in 1..(n + m) : t[i] = i
<1>1. \A i \in 1..n : s[i] \in Nat
  OBVIOUS
<1>6. ASSUME NEW i \in 1..(n + m) PROVE t[i] <= u + m
  <2>1. CASE i <= n
    <3>1. i \in 1..n /\ s[i] \in Nat /\ s[i] <= u /\ t[i] = s[i]
      BY <1>1, <2>1
    <3>2. PICK v \in Nat : v = s[i]
      BY <3>1
    <3> QED
      BY <3>1, <3>2
  <2>2. CASE ~(i <= n)
    <3>1. t[i] = u + (i - n)
      BY <2>2
    <3> QED
      BY <3>1
  <2> QED
    BY <2>1, <2>2
<1>7. ASSUME NEW i \in 1..(n + m), NEW j \in 1..(n + m), i < j PROVE t[i] < t[j]
  <2>1. CASE j <= n
    <3>1. i \in 1..n /\ j \in 1..n
      BY <1>7, <2>1
    <3> QED
      BY <1>7, <3>1
  <2>2. CASE ~(j <= n) /\ i <= n
    <3>1. i \in 1..n /\ s[i] \in Nat /\ s[i] <= u /\ t[i] = s[i]
      BY <1>1, <2>2
    <3>2. PICK v \in Nat : v = s[i] /\ v = t[i] /\ v <= u
      BY <3>1
    <3>3. t[j] = u + (j - n) /\ j - n >= 1
      BY <2>2
    <3>4. v < u + (j - n)
      BY <3>2, <3>3
    <3> QED
      BY <3>2, <3>3, <3>4
  <2>3. CASE ~(i <= n)
    <3>1. ~(j <= n)
      BY <1>7, <2>3
    <3>2. t[i] = u + (i - n) /\ t[j] = u + (j - n)
      BY <2>3, <3>1
    <3>3. u + (i - n) < u + (j - n)
      BY <1>7
    <3> QED
      BY <3>2, <3>3
  <2> QED
    BY <2>1, <2>2, <2>3
<1>8. ASSUME n = u, \A i \in 1..n : s[i] = i, NEW i \in 1..(n + m) PROVE t[i] = i
  <2>1. CASE i <= n
    <3>1. i \in 1..n
      BY <2>1
    <3> QED
      BY <1>8, <3>1
  <2>2. CASE ~(i <= n)
    <3>1. t[i] = u + (i - n) /\ u + (i - n) = i
      BY <1>8, <2>2
    <3> QED
      BY <3>1
  <2> QED
    BY <2>1, <2>2
<1> QED
  BY <1>6, <1>7, <1>8

(* Part of the data block is copied to the caller. *)
LEMMA CopyKeeps ==
  ASSUME ReadInv, result = "ok", UNCHANGED vars, Copy
  PROVE  StreamInv'
<1>1. /\ StreamTypes /\ StreamControl /\ ChainGood(chain, sawError) /\ TreeInv
      /\ DataGood(rpc, chain, garbage, data, at, sawError)
      /\ DeliveredGood(rpc, ret, data, delivered, sawError)
  BY DEF ReadInv, StreamInv
<1>2. /\ chain' = chain /\ garbage' = garbage /\ at' = at /\ ret' = ret
      /\ sawError' = sawError /\ want' = want
      /\ rpc = "copy" /\ rpc' = "copy" /\ result' = "ok"
      /\ got < want /\ data.offset < data.size
  BY DEF Copy, vars
<1>3. PICK m : /\ m = IF data.size - data.offset > want - got
                        THEN want - got ELSE data.size - data.offset
               /\ delivered' = delivered \o
                    [i \in 1..m |-> ((data.block - 1) * BlockSize + data.offset) + i]
               /\ data' = [data EXCEPT !.offset = @ + m]
               /\ got' = got + m
  BY DEF Copy
<1>4. chain # <<>> /\ ~garbage
  BY <1>1, <1>2 DEF StreamControl
<1>5. /\ data.block \in 1..nblocks /\ data.size \in {0, BlockSize}
      /\ ~sawError => data.size = BlockSize
  BY <1>1, <1>2, <1>4 DEF DataGood
<1>6. PICK b \in Nat, o \in Nat, z \in Nat, w \in Nat, g \in Nat :
         /\ b = data.block /\ o = data.offset /\ z = data.size /\ w = want /\ g = got
         /\ data = [block |-> b, offset |-> o, size |-> z]
  BY <1>1 DEF StreamTypes
<1>7. nblocks \in Nat
  BY <1>1 DEF TreeInv, IInv, Shape, TypeOK
<1>8. z = BlockSize /\ BlockSize \in Nat /\ b >= 1 /\ o < z /\ g < w
  BY <1>2, <1>5, <1>6, <1>7, BlockSizeAssumption
<1>9. m \in Nat /\ m >= 1 /\ g + m <= w /\ o + m <= z
  BY <1>3, <1>6, <1>8, SMTT(30)
<1>10. data' = [block |-> b, offset |-> o + m, size |-> z]
  BY <1>3, <1>6, <1>9
<1>11. PICK u \in Nat : u = (b - 1) * BlockSize + o
  <2>1. (b - 1) * BlockSize \in Nat
    BY <1>8
  <2> QED
    BY <2>1
<1>12. Units(data) = u /\ Units(data') = u + m
  <2>1. (b - 1) * BlockSize \in Nat
    BY <1>8
  <2>2. PICK q \in Nat : q = (b - 1) * BlockSize
    BY <2>1
  <2>3. Units(data) = q + o /\ Units(data') = q + (o + m)
    BY <1>6, <1>8, <1>10, <2>2 DEF Units
  <2> QED
    BY <1>9, <1>11, <2>2, <2>3
<1>13. PICK s \in Seq(Nat) : s = delivered
  BY <1>1 DEF StreamTypes
<1>14. /\ \A i, j \in 1..Len(s) : i < j => s[i] < s[j]
       /\ \A i \in 1..Len(s) : s[i] <= u
       /\ ~dropped /\ ~sawError => Len(s) = u /\ \A i \in 1..Len(s) : s[i] = i
       /\ ~dropped /\ ~sawError => ret # "STREAM_END"
  <2>1. rpc # "closed" /\ o # BlockSize
    BY <1>2, <1>8
  <2> QED
    BY <1>1, <1>6, <1>12, <1>13, <2>1 DEF DeliveredGood
<1>15. PICK t : t = delivered' /\ t = s \o [i \in 1..m |-> u + i]
  BY <1>3, <1>6, <1>11, <1>13
<1>16. /\ t \in Seq(Nat) /\ Len(t) = Len(s) + m
       /\ \A i, j \in 1..Len(t) : i < j => t[i] < t[j]
       /\ \A i \in 1..Len(t) : t[i] <= u + m
       /\ Len(s) = u /\ (\A i \in 1..Len(s) : s[i] = i) => \A i \in 1..Len(t) : t[i] = i
  <2>1. PICK n \in Nat : n = Len(s)
    OBVIOUS
  <2>2. /\ t \in Seq(Nat) /\ Len(t) = n + m /\ \A i \in 1..n : t[i] = s[i]
        /\ \A i \in 1..(n + m) : ~(i <= n) => t[i] = u + (i - n)
    BY <1>9, <1>15, <2>1, UnitsBehind
  <2>3. /\ \A i, j \in 1..(n + m) : i < j => t[i] < t[j]
        /\ \A i \in 1..(n + m) : t[i] <= u + m
        /\ n = u /\ (\A i \in 1..n : s[i] = i) => \A i \in 1..(n + m) : t[i] = i
    <3>1. /\ m \in Nat /\ \A i, j \in 1..n : i < j => s[i] < s[j]
          /\ \A i \in 1..n : s[i] <= u
      BY <1>9, <1>14, <2>1
    <3>2. /\ \A i \in 1..n : t[i] = s[i]
          /\ \A i \in 1..(n + m) : ~(i <= n) => t[i] = u + (i - n)
      BY <2>2
    <3> QED
      BY <2>1, <3>1, <3>2, AppendUnits, SMTT(30)
  <2> QED
    BY <2>1, <2>2, <2>3
<1>17. StreamTypes'
  <2>1. got' \in 0..want'
    BY <1>2, <1>3, <1>6, <1>9
  <2>2. data' \in [block : Nat, offset : Nat, size : Nat]
    BY <1>9, <1>10
  <2> QED
    BY <1>1, <1>2, <1>15, <1>16, <2>1, <2>2 DEF StreamTypes
<1>18. StreamControl'
  BY <1>1, <1>2, <1>4 DEF StreamControl, SuccessMeansProgress
<1>19. ChainGood(chain', sawError')
  BY <1>1, <1>2
<1>20. DataGood(rpc', chain', garbage', data', at', sawError')
  <2>1. data'.block = b /\ data'.offset = o + m /\ data'.size = z
    BY <1>10
  <2>2. data'.offset \in 0..BlockSize
    BY <1>8, <1>9, <2>1
  <2> QED
    BY <1>1, <1>2, <1>4, <1>6, <2>1, <2>2 DEF DataGood
<1>21. DeliveredGood(rpc', ret', data', delivered', sawError')
  BY <1>2, <1>12, <1>14, <1>15, <1>16 DEF DeliveredGood
<1> QED
  BY <1>17, <1>18, <1>19, <1>20, <1>21, Transfer

(* The next data block is loaded: what was delivered comes before it. *)
LEMMA DataLoaded ==
  ASSUME TreeInv, NEW e \in BOOLEAN, NEW b \in DecodedBlock, BlockGood(b, e), ~Exhausted(b),
         inodes[b.src].depth = 0,
         NEW d, d.block \in Nat, d.offset \in 0..BlockSize, Precise(d.block, Reached(b), e),
         d.block = 0 \/ d.offset = BlockSize \/ e = TRUE,
         NEW r, r # "closed", NEW t, NEW s \in Seq(Nat), DeliveredGood(r, t, d, s, e),
         NEW h, h = NextKey(b)
  PROVE  /\ h \in 1..nblocks /\ h \in Nat /\ Hi(inodes[b.src].depth, h) = h
         /\ DeliveredGood("copy", t, DecodedData(h), s, e)
<1>1. KeyOK(0, h) /\ Precise(d.block, Lo(0, h), e)
  BY NextReach
<1>2. nblocks \in Nat
  BY DEF TreeInv, IInv, Shape, TypeOK
<1>3. h \in 1..nblocks /\ h \in Nat /\ Hi(0, h) = h /\ Lo(0, h) = h - 1
  BY <1>1, <1>2 DEF KeyOK, Hi, Lo
<1>4. h > d.block /\ (h = d.block + 1 \/ dropped \/ e)
  BY <1>1, <1>3 DEF Precise
<1>5. /\ Units(d) \in Nat /\ Units(DecodedData(h)) \in Nat
      /\ Units(d) <= Units(DecodedData(h))
      /\ d.block # 0 /\ h = d.block + 1 /\ d.offset = BlockSize
              => Units(d) = Units(DecodedData(h))
      /\ d.block = 0 /\ h = 1 => Units(d) = Units(DecodedData(h))
  BY <1>3, <1>4, UnitsGrow
<1>6. ~dropped /\ ~e => Units(d) = Units(DecodedData(h)) /\ d.block < nblocks
  <2>1. d.block = 0 => d.block + 1 = 1
    OBVIOUS
  <2> QED
    BY <1>2, <1>3, <1>4, <1>5, <2>1
<1>7. \A i \in 1..Len(s) : s[i] <= Units(DecodedData(h))
  <2> SUFFICES ASSUME NEW i \in 1..Len(s) PROVE s[i] <= Units(DecodedData(h))
    OBVIOUS
  <2>1. s[i] \in Nat /\ s[i] <= Units(d)
    BY DEF DeliveredGood
  <2> QED
    BY <1>5, <2>1
<1>8. ~dropped /\ ~e => t # "STREAM_END"
  BY <1>2, <1>6 DEF DeliveredGood
<1> QED
  BY <1>3, <1>6, <1>7, <1>8 DEF DeliveredGood

(* The first key of the lowest block is fetched. *)
LEMMA FetchFirstChildKeeps ==
  ASSUME ReadInv, result = "ok", UNCHANGED vars, FetchFirstChild
  PROVE  StreamInv'
<1>1. /\ StreamTypes /\ StreamControl /\ ChainGood(chain, sawError) /\ TreeInv
      /\ DataGood(rpc, chain, garbage, data, at, sawError)
      /\ DeliveredGood(rpc, ret, data, delivered, sawError)
  BY DEF ReadInv, StreamInv
<1>2. /\ garbage' = garbage /\ at' = at /\ ret' = ret
      /\ delivered' = delivered /\ want' = want /\ got' = got
      /\ rpc = "descend" /\ sawError' = sawError /\ result' = "ok"
  BY DEF FetchFirstChild, vars
<1>3. chain # <<>> /\ delivered = <<>> /\ data = NoData /\ sawError \in BOOLEAN /\ ~garbage
  BY <1>1, <1>2 DEF StreamControl, StreamTypes
<1>4. PICK e \in BOOLEAN : e = sawError
  BY <1>3
<1>5. PICK c \in Seq(DecodedBlock), n \in Nat : c = chain /\ n = Len(c) /\ n \in 1..n
  <2>1. chain \in Seq(DecodedBlock) /\ Len(chain) \in Nat /\ Len(chain) \in 1..Len(chain)
    BY <1>1, <1>3 DEF StreamTypes
  <2> QED
    BY <2>1, Zenon
<1>6. PICK h, x : h = NextKey(c[n]) /\ x = Consumed(c[n], c[n].child + 1)
  OBVIOUS
<1>7. /\ c[n] \in DecodedBlock /\ BlockGood(c[n], e) /\ c[n] = Decoded(c[n].src)
      /\ Precise(0, Reached(c[n]), e) /\ c[1].src = root
  BY <1>1, <1>2, <1>3, <1>4, <1>5 DEF ChainGood, DataGood, NoData
<1>8. ~Exhausted(c[n])
  <2>1. c[n].src \in 1..Len(inodes) /\ c[n].offset \in 0..KeyCount(c[n])
    BY <1>7 DEF BlockGood
  <2>2. KeyCount(c[n]) \in Nat \ {0}
    BY <1>1, <2>1, BlockFacts
  <2>3. c[n].offset = 0 /\ c[n].child = 0 /\ c[n].cleared = FALSE
    <3>1. PICK i : i = c[n].src
      OBVIOUS
    <3>2. Decoded(i).offset = 0 /\ Decoded(i).child = 0 /\ Decoded(i).cleared = FALSE
      BY DEF Decoded
    <3> QED
      BY <1>7, <3>1, <3>2
  <2> QED
    BY <2>2, <2>3 DEF Exhausted
<1>9. /\ c[n].offset # KeyCount(c[n]) /\ inodes[c[n].src].depth \in Nat
      /\ Precise(0, Lo(inodes[c[n].src].depth, h), e)
  BY <1>1, <1>6, <1>7, <1>8, NextReach
<1>10. /\ x \in DecodedBlock /\ BlockGood(x, e) /\ x.src = c[n].src
       /\ Reached(x) = Hi(inodes[c[n].src].depth, h)
  BY <1>1, <1>6, <1>7, <1>9, KeyConsumed
<1>d. PICK d : d = Consume(Bottom, TRUE) /\ d = [c EXCEPT ![n] = x]
  BY <1>5, <1>6 DEF Consume, Consumed, Bottom
<1>11. /\ d \in Seq(DecodedBlock) /\ Len(d) = n /\ d[n] = x
       /\ \A l \in 1..n : l # n => d[l] = c[l]
  <2>1. d = [c EXCEPT ![n] = x]
    BY <1>d
  <2> QED
    BY <1>5, <1>10, <2>1
<1>12. ChainGood(d, e) /\ d # <<>> /\ d[1].src = root
  <2>1. ChainGood(c, e)
    BY <1>1, <1>4, <1>5
  <2>2. ChainGood(d, e)
    BY <1>5, <1>10, <1>11, <2>1, ChainBottom
  <2> QED
    BY <1>5, <1>7, <1>10, <1>11, <2>2
<1>13. CASE ChildrenAreKeyBlocks(c[n])
  <2>1. PICK y : y = Decoded(h)
    OBVIOUS
  <2>2. /\ y \in DecodedBlock /\ BlockGood(y, e) /\ y.src = h
        /\ inodes[c[n].src].depth = inodes[h].depth + 1
        /\ inodes[h].hi = Hi(inodes[c[n].src].depth, h)
        /\ Reached(y) = Lo(inodes[c[n].src].depth, h)
    BY <1>1, <1>6, <1>7, <1>9, <1>13, <2>1, FreshBlock
  <2>3. chain' = Append(d, y) /\ rpc' = "descend" /\ data' = NoData
    BY <1>2, <1>3, <1>5, <1>6, <1>d, <1>13, <2>1 DEF FetchFirstChild, Bottom
  <2>4. Pair(d[n], y, e)
    <3>1. inodes[h].hi \in Nat
      <4>1. y.src \in 1..Len(inodes) /\ y.offset \in 0..KeyCount(y)
        BY <2>2 DEF BlockGood
      <4> QED
        BY <1>1, <2>2, <4>1, BlockFacts
    <3> QED
      BY <1>10, <1>11, <2>2, <3>1 DEF Pair, Precise
  <2>5. PICK g \in Seq(DecodedBlock) :
           g = chain' /\ Len(g) = n + 1 /\ ChainGood(g, e) /\ g[n + 1] = y /\ g[1] = d[1]
    <3>1. Append(d, y) \in Seq(DecodedBlock) /\ Len(Append(d, y)) = n + 1
          /\ ChainGood(Append(d, y), e)
      BY <1>11, <1>12, <2>2, <2>4, ChainLonger
    <3>2. Append(d, y)[n + 1] = y /\ Append(d, y)[1] = d[1]
      BY <1>5, <1>11, <2>2
    <3> QED
      BY <2>3, <3>1, <3>2
  <2>6. chain' # <<>>
    BY <1>5, <2>5
  <2>7. StreamTypes'
    BY <1>1, <1>2, <1>3, <2>3, <2>5 DEF StreamTypes
  <2>8. StreamControl'
    BY <1>1, <1>2, <1>3, <2>3, <2>6 DEF StreamControl, SuccessMeansProgress
  <2>9. ChainGood(chain', sawError')
    BY <1>2, <1>4, <2>5
  <2>10. DataGood(rpc', chain', garbage', data', at', sawError')
    <3>1. data'.block = 0
      BY <2>3 DEF NoData
    <3>2. y = Decoded(y.src)
      BY <2>1, <2>2
    <3> QED
      BY <1>2, <1>4, <1>9, <1>12, <2>2, <2>3, <2>5, <3>1, <3>2 DEF DataGood
  <2>11. DeliveredGood(rpc', ret', data', delivered', sawError')
    BY <1>1, <1>2, <1>3, <2>3 DEF DeliveredGood
  <2> QED
    BY <2>7, <2>8, <2>9, <2>10, <2>11, Transfer
<1>14. CASE ~ChildrenAreKeyBlocks(c[n])
  <2>1. inodes[c[n].src].depth = 0
    BY <1>9, <1>14 DEF ChildrenAreKeyBlocks
  <2>2. chain' = d /\ rpc' = "copy" /\ data' = DecodedData(h)
    BY <1>5, <1>6, <1>d, <1>14 DEF FetchFirstChild, Bottom
  <2>3. /\ data.block = 0 /\ data.offset \in 0..BlockSize
    BY <1>3, BlockSizeAssumption DEF NoData
  <2>4. /\ h \in 1..nblocks /\ h \in Nat /\ Hi(inodes[c[n].src].depth, h) = h
        /\ DeliveredGood("copy", ret, DecodedData(h), delivered, e)
    <3>1. rpc # "closed" /\ delivered \in Seq(Nat) /\ DeliveredGood(rpc, ret, data, delivered, e)
      BY <1>1, <1>2, <1>4 DEF StreamTypes
    <3>2. PICK b \in DecodedBlock : b = c[n]
      BY <1>7
    <3>3. /\ TreeInv /\ BlockGood(b, e) /\ ~Exhausted(b) /\ inodes[b.src].depth = 0
          /\ data.block \in Nat /\ Precise(data.block, Reached(b), e) /\ h = NextKey(b)
      BY <1>1, <1>6, <1>7, <1>8, <2>1, <2>3, <3>2
    <3>4. /\ h \in 1..nblocks /\ h \in Nat /\ Hi(inodes[b.src].depth, h) = h
          /\ DeliveredGood("copy", ret, DecodedData(h), delivered, e)
      BY <2>3, <3>1, <3>3, DataLoaded, ZenonT(30)
    <3> QED
      BY <3>2, <3>4
  <2>5. data'.block = h /\ data'.offset = 0 /\ data'.size = BlockSize
    BY <2>2 DEF DecodedData
  <2>6. StreamTypes'
    <3>1. data' \in [block : Nat, offset : Nat, size : Nat]
      BY <2>2, <2>4, BlockSizeAssumption DEF DecodedData
    <3> QED
      BY <1>1, <1>2, <1>11, <2>2, <3>1 DEF StreamTypes
  <2>7. StreamControl'
    BY <1>1, <1>2, <1>3, <1>12, <2>2 DEF StreamControl, SuccessMeansProgress
  <2>8. ChainGood(chain', sawError')
    BY <1>2, <1>4, <1>12, <2>2
  <2>9. DataGood(rpc', chain', garbage', data', at', sawError')
    <3>1. Precise(h, Reached(x), e)
      BY <1>10, <2>4 DEF Precise
    <3>2. d[Len(d)] = x /\ inodes[x.src].depth = 0
      BY <1>10, <1>11, <2>1
    <3>3. 0 \in 0..BlockSize
      BY BlockSizeAssumption
    <3> QED
      BY <1>2, <1>4, <1>12, <2>2, <2>4, <2>5, <3>1, <3>2, <3>3 DEF DataGood
  <2>10. DeliveredGood(rpc', ret', data', delivered', sawError')
    BY <1>2, <1>4, <2>2, <2>4
  <2> QED
    BY <2>6, <2>7, <2>8, <2>9, <2>10, Transfer
<1> QED
  BY <1>13, <1>14

(* The next child is loaded, into a key block or as the data block. *)
LEMMA FetchChildKeeps ==
  ASSUME ReadInv, result = "ok", UNCHANGED vars, FetchChild
  PROVE  StreamInv'
<1>1. /\ StreamTypes /\ StreamControl /\ ChainGood(chain, sawError) /\ TreeInv
      /\ DataGood(rpc, chain, garbage, data, at, sawError)
      /\ DeliveredGood(rpc, ret, data, delivered, sawError)
  BY DEF ReadInv, StreamInv
<1>2. /\ garbage' = garbage /\ ret' = ret
      /\ delivered' = delivered /\ want' = want /\ got' = got
      /\ rpc = "climb" /\ sawError' = sawError /\ result' = "ok" /\ ~Exhausted(chain[at])
  BY DEF FetchChild, vars
<1>3. chain # <<>> /\ sawError \in BOOLEAN /\ ~garbage /\ data.offset >= data.size
  BY <1>1, <1>2 DEF StreamControl, StreamTypes
<1>4. PICK e \in BOOLEAN : e = sawError
  BY <1>3
<1>5. PICK c \in Seq(DecodedBlock), n \in Nat, a \in Nat :
         c = chain /\ n = Len(c) /\ a = at /\ a \in 1..n
  <2>1. chain \in Seq(DecodedBlock) /\ Len(chain) \in Nat /\ at \in Nat /\ at \in 1..Len(chain)
    BY <1>1, <1>2 DEF StreamTypes, StreamControl
  <2> QED
    BY <2>1, Zenon
<1>6. PICK h, x : h = NextKey(c[a]) /\ x = Consumed(c[a], c[a].child + 1)
  OBVIOUS
<1>7. ChainGood(c, e) /\ \A l \in 1..n : c[l] \in DecodedBlock /\ BlockGood(c[l], e)
  BY <1>1, <1>4, <1>5 DEF ChainGood
<1>8. /\ c[a] \in DecodedBlock /\ BlockGood(c[a], e) /\ ~Exhausted(c[a])
      /\ Precise(data.block, Reached(c[a]), e) /\ c[1].src = root
      /\ Precise(data.block, Reached(c[n]), e)
      /\ data.block \in Nat /\ \A l \in (a + 1)..n : Exhausted(c[l])
      /\ inodes[c[n].src].depth = 0
      /\ data.block \in 1..nblocks /\ data.offset \in 0..BlockSize
      /\ data.size \in {0, BlockSize} /\ (~e => data.size = BlockSize)
  <2>1. data.block \in Nat
    BY <1>1 DEF StreamTypes
  <2> QED
    BY <1>1, <1>2, <1>3, <1>4, <1>5, <1>7, <2>1 DEF DataGood
<1>9. /\ c[a].offset # KeyCount(c[a]) /\ inodes[c[a].src].depth \in Nat
      /\ Precise(data.block, Lo(inodes[c[a].src].depth, h), e)
  BY <1>1, <1>6, <1>8, NextReach
<1>10. /\ x \in DecodedBlock /\ BlockGood(x, e) /\ x.src = c[a].src
       /\ Reached(x) = Hi(inodes[c[a].src].depth, h)
  <2>1. /\ TreeInv /\ BlockGood(c[a], e) /\ c[a].offset # KeyCount(c[a])
        /\ c[a] \in DecodedBlock
    BY <1>1, <1>8, <1>9
  <2> QED
    BY <1>6, <2>1, KeyConsumed
<1>d. PICK d : d = Consume(at, TRUE) /\ d = [c EXCEPT ![a] = x]
  BY <1>5, <1>6 DEF Consume, Consumed
<1>13. CASE a < n
  <2>0. a \in 1..(n - 1) /\ a + 1 \in 1..n /\ a + 1 \in (a + 1)..n /\ a + 1 \in Nat /\ a # a + 1
    BY <1>5, <1>13
  <2>1. PICK y : y = Decoded(h)
    OBVIOUS
  <2>2. Pair(c[a], c[a + 1], e) /\ Exhausted(c[a + 1])
    BY <1>5, <1>7, <1>8, <2>0 DEF ChainGood
  <2>3. inodes[c[a].src].depth = inodes[c[a + 1].src].depth + 1
        /\ inodes[c[a + 1].src].depth \in Nat
    <3>1. BlockGood(c[a + 1], e)
      BY <1>7, <2>0
    <3>2. c[a + 1].src \in 1..Len(inodes) /\ c[a + 1].offset \in 0..KeyCount(c[a + 1])
      BY <3>1 DEF BlockGood
    <3> QED
      BY <1>1, <2>2, <3>2, BlockFacts DEF Pair
  <2>4. ChildrenAreKeyBlocks(c[a])
    BY <2>3 DEF ChildrenAreKeyBlocks
  <2>5. /\ y \in DecodedBlock /\ BlockGood(y, e) /\ y.src = h
        /\ inodes[c[a].src].depth = inodes[h].depth + 1
        /\ inodes[h].hi = Hi(inodes[c[a].src].depth, h)
        /\ Reached(y) = Lo(inodes[c[a].src].depth, h)
    BY <1>1, <1>6, <1>8, <1>9, <2>1, <2>4, FreshBlock
  <2>6. chain' = [d EXCEPT ![a + 1] = y] /\ at' = a + 1 /\ rpc' = "climb" /\ data' = data
    BY <1>2, <1>5, <1>6, <1>d, <1>13, <2>1 DEF FetchChild, Bottom
  <2>7. PICK g : g = chain' /\ g = [[c EXCEPT ![a] = x] EXCEPT ![a + 1] = y]
    BY <1>d, <2>6
  <2>8. /\ g \in Seq(DecodedBlock) /\ Len(g) = n /\ g[a] = x /\ g[a + 1] = y
        /\ \A l \in 1..n : l # a /\ l # a + 1 => g[l] = c[l]
    <3>1. g = [[c EXCEPT ![a] = x] EXCEPT ![a + 1] = y]
      BY <2>7
    <3> QED
      BY <1>5, <1>10, <2>0, <2>5, <3>1
  <2>9. Pair(x, y, e)
    <3>1. inodes[h].hi \in Nat
      <4>1. y.src \in 1..Len(inodes) /\ y.offset \in 0..KeyCount(y)
        BY <2>5 DEF BlockGood
      <4> QED
        BY <1>1, <2>5, <4>1, BlockFacts
    <3> QED
      BY <1>10, <2>5, <3>1 DEF Pair, Precise
  <2>10. ASSUME a + 1 # n PROVE Pair(y, c[a + 2], e)
    <3>1. a + 1 \in 1..(n - 1) /\ (a + 1) + 1 = a + 2 /\ a + 2 \in 1..n
      BY <2>0, <2>10
    <3>2. Pair(c[a + 1], c[a + 2], e)
      BY <1>5, <1>7, <3>1 DEF ChainGood
    <3>3. inodes[c[a + 2].src].hi \in Nat
      <4>1. BlockGood(c[a + 2], e)
        BY <1>7, <3>1
      <4>2. c[a + 2].src \in 1..Len(inodes) /\ c[a + 2].offset \in 0..KeyCount(c[a + 2])
        BY <4>1 DEF BlockGood
      <4> QED
        BY <1>1, <4>2, BlockFacts
    <3>4. PICK v \in Nat : v = inodes[c[a + 2].src].hi
      BY <3>3
    <3>5. Precise(v, Reached(c[a + 1]), e)
      BY <3>2, <3>4 DEF Pair
    <3>6. Precise(v, Reached(c[a]), e)
      <4>1. /\ c[a + 1] \in DecodedBlock /\ BlockGood(c[a + 1], e)
        BY <1>7, <2>0
      <4> QED
        BY <1>1, <1>8, <2>2, <3>5, <4>1, ClimbUp
    <3>7. Precise(v, Lo(inodes[c[a].src].depth, h), e)
      BY <1>1, <1>6, <1>8, <3>6, NextReach
    <3>8. inodes[h].depth = inodes[c[a + 2].src].depth + 1
      <4>1. PICK p \in Nat, q \in Nat :
               p = inodes[c[a + 1].src].depth /\ q = inodes[h].depth
        <5>1. y.src \in 1..Len(inodes) /\ y.offset \in 0..KeyCount(y)
          BY <2>5 DEF BlockGood
        <5>2. inodes[h].depth \in Nat
          BY <1>1, <2>5, <5>1, BlockFacts
        <5> QED
          BY <2>3, <5>2
      <4>2. p = q
        BY <2>3, <2>5, <4>1, SMTT(30)
      <4> QED
        BY <3>2, <4>1, <4>2 DEF Pair
    <3> QED
      BY <2>5, <3>4, <3>7, <3>8 DEF Pair
  <2>11. ChainGood(g, e)
    <3>1. /\ n = Len(c) /\ ChainGood(c, e) /\ g \in Seq(DecodedBlock) /\ Len(g) = n
          /\ \A l \in 1..n : l # a /\ l # a + 1 => g[l] = c[l]
      BY <1>5, <1>7, <2>8
    <3>2. /\ g[a].src = c[a].src /\ BlockGood(g[a], e) /\ BlockGood(g[a + 1], e)
          /\ Pair(g[a], g[a + 1], e) /\ (a + 1 # n => Pair(g[a + 1], c[a + 2], e))
      BY <1>10, <2>5, <2>8, <2>9, <2>10
    <3> QED
      BY <2>0, <3>1, <3>2, ChainInner
  <2>12. g # <<>> /\ g[1].src = root
    <3>1. 1 \in 1..n /\ (1 = a \/ (1 # a /\ 1 # a + 1))
      BY <1>5, <2>0
    <3> QED
      BY <1>8, <1>10, <2>8, <3>1
  <2>13. StreamTypes'
    BY <1>1, <1>2, <2>0, <2>6, <2>7, <2>8 DEF StreamTypes
  <2>14. StreamControl'
    <3>1. at' \in 1..Len(chain') /\ chain' # <<>>
      BY <2>0, <2>6, <2>7, <2>8, <2>12
    <3> QED
      BY <1>1, <1>2, <1>3, <2>6, <3>1 DEF StreamControl, SuccessMeansProgress
  <2>15. DataGood(rpc', chain', garbage', data', at', sawError')
    <3>1. /\ Precise(data.block, Reached(g[n]), e) /\ inodes[g[n].src].depth = 0
      <4>1. CASE a + 1 = n
        <5>1. inodes[h].depth = 0
          <6>1. inodes[h].depth \in Nat
            <7>1. y.src \in 1..Len(inodes) /\ y.offset \in 0..KeyCount(y)
              BY <2>5 DEF BlockGood
            <7> QED
              BY <1>1, <2>5, <7>1, BlockFacts
          <6> QED
            BY <1>8, <2>3, <2>5, <4>1, <6>1
        <5> QED
          BY <1>9, <2>5, <2>8, <4>1, <5>1
      <4>2. CASE a + 1 # n
        <5>1. n \in 1..n /\ n # a /\ n # a + 1
          BY <1>5, <1>13, <4>2
        <5> QED
          BY <1>8, <2>8, <5>1
      <4> QED
        BY <4>1, <4>2
    <3>2. Precise(data.block, Reached(g[a + 1]), e)
      BY <1>9, <2>5, <2>8
    <3>3. ASSUME NEW l \in ((a + 1) + 1)..n PROVE Exhausted(g[l])
      <4>1. l \in (a + 1)..n /\ l \in 1..n /\ l # a /\ l # a + 1
        BY <2>0
      <4> QED
        BY <1>8, <2>8, <4>1
    <3> QED
      BY <1>2, <1>4, <1>8, <2>6, <2>7, <2>8, <2>12, <3>1, <3>2, <3>3 DEF DataGood
  <2>16. ChainGood(chain', sawError')
    BY <1>2, <1>4, <2>7, <2>11
  <2>17. DeliveredGood(rpc', ret', data', delivered', sawError')
    BY <1>1, <1>2, <2>6 DEF DeliveredGood
  <2> QED
    BY <2>13, <2>14, <2>15, <2>16, <2>17, Transfer
<1>14. CASE ~(a < n)
  <2>0. a = n /\ n >= 1
    BY <1>5, <1>14
  <2>1. chain' = d /\ rpc' = "copy" /\ data' = DecodedData(h) /\ at' = 0
    BY <1>5, <1>6, <1>d, <1>14 DEF FetchChild, Bottom
  <2>2. /\ d \in Seq(DecodedBlock) /\ Len(d) = n /\ d[n] = x
        /\ \A l \in 1..n : l # n => d[l] = c[l]
    <3>1. d = [c EXCEPT ![a] = x]
      BY <1>d
    <3>2. d = [c EXCEPT ![n] = x] /\ n \in 1..n
      BY <2>0, <3>1
    <3> QED
      BY <1>5, <1>10, <3>2
  <2>3. ChainGood(d, e)
    <3>1. x.src = c[n].src
      BY <1>10, <2>0
    <3> QED
      BY <1>5, <1>7, <1>10, <2>0, <2>2, <3>1, ChainBottom
  <2>4. d # <<>> /\ d[1].src = root
    <3>1. 1 \in 1..n /\ x.src = c[n].src
      BY <1>10, <2>0
    <3> QED
      BY <1>8, <2>0, <2>2, <3>1
  <2>5. /\ h \in 1..nblocks /\ h \in Nat /\ Hi(inodes[c[n].src].depth, h) = h
        /\ DeliveredGood("copy", ret, DecodedData(h), delivered, e)
    <3>1. rpc # "closed" /\ delivered \in Seq(Nat) /\ DeliveredGood(rpc, ret, data, delivered, e)
      BY <1>1, <1>2, <1>4 DEF StreamTypes
    <3>2. PICK b \in DecodedBlock : b = c[n]
      BY <1>8, <2>0
    <3>3. /\ TreeInv /\ BlockGood(b, e) /\ ~Exhausted(b) /\ inodes[b.src].depth = 0
          /\ data.block \in Nat /\ Precise(data.block, Reached(b), e) /\ h = NextKey(b)
          /\ data.offset \in 0..BlockSize
      BY <1>1, <1>6, <1>8, <2>0, <3>2
    <3>4. data.block = 0 \/ data.offset = BlockSize \/ e = TRUE
      BY <1>3, <1>8, BlockSizeAssumption
    <3>5. /\ h \in 1..nblocks /\ h \in Nat /\ Hi(inodes[b.src].depth, h) = h
          /\ DeliveredGood("copy", ret, DecodedData(h), delivered, e)
      BY <3>1, <3>3, <3>4, DataLoaded, ZenonT(30)
    <3> QED
      BY <3>2, <3>5
  <2>6. data'.block = h /\ data'.offset = 0 /\ data'.size = BlockSize
    BY <2>1 DEF DecodedData
  <2>7. StreamTypes'
    <3>1. data' \in [block : Nat, offset : Nat, size : Nat]
      BY <2>1, <2>5, BlockSizeAssumption DEF DecodedData
    <3> QED
      BY <1>1, <1>2, <2>1, <2>2, <3>1 DEF StreamTypes
  <2>8. StreamControl'
    BY <1>1, <1>2, <1>3, <2>1, <2>4 DEF StreamControl, SuccessMeansProgress
  <2>9. ChainGood(chain', sawError')
    BY <1>2, <1>4, <2>1, <2>3
  <2>10. DataGood(rpc', chain', garbage', data', at', sawError')
    <3>1. Precise(h, Reached(x), e)
      BY <1>10, <2>0, <2>5 DEF Precise
    <3>2. d[Len(d)] = x /\ inodes[x.src].depth = 0
      BY <1>8, <1>10, <2>0, <2>2
    <3>3. 0 \in 0..BlockSize
      BY BlockSizeAssumption
    <3> QED
      BY <1>2, <1>4, <2>1, <2>4, <2>5, <2>6, <3>1, <3>2, <3>3 DEF DataGood
  <2>11. DeliveredGood(rpc', ret', data', delivered', sawError')
    BY <1>2, <1>4, <2>1, <2>5
  <2> QED
    BY <2>7, <2>8, <2>9, <2>10, <2>11, Transfer
<1> QED
  BY <1>13, <1>14

(* The next child cannot be fetched: what is below is emptied. *)
LEMMA FetchChildFailsKeeps ==
  ASSUME ReadInv, result = "ok", UNCHANGED vars, FetchChildFails
  PROVE  StreamInv'
<1>1. /\ StreamTypes /\ StreamControl /\ ChainGood(chain, sawError) /\ TreeInv
      /\ DataGood(rpc, chain, garbage, data, at, sawError)
      /\ DeliveredGood(rpc, ret, data, delivered, sawError)
  BY DEF ReadInv, StreamInv
<1>2. /\ garbage' = garbage /\ ret' = "error" /\ at' = 0 /\ rpc' = "idle"
      /\ delivered' = delivered /\ want' = want /\ got' = got
      /\ rpc = "climb" /\ sawError' = TRUE /\ result' = "ok" /\ ~Exhausted(chain[at])
  BY DEF FetchChildFails, ReadReturns, vars
<1>3. chain # <<>> /\ sawError \in BOOLEAN /\ ~garbage
  BY <1>1, <1>2 DEF StreamControl, StreamTypes
<1>4. PICK e \in BOOLEAN, f \in BOOLEAN : e = sawError /\ f = TRUE
  BY <1>3
<1>5. PICK c \in Seq(DecodedBlock), n \in Nat, a \in Nat :
         c = chain /\ n = Len(c) /\ a = at /\ a \in 1..n
  <2>1. chain \in Seq(DecodedBlock) /\ Len(chain) \in Nat /\ at \in Nat /\ at \in 1..Len(chain)
    BY <1>1, <1>2 DEF StreamTypes, StreamControl
  <2> QED
    BY <2>1, Zenon
<1>6. PICK h, x : h = NextKey(c[a]) /\ x = Consumed(c[a], c[a].child)
  OBVIOUS
<1>7. ChainGood(c, f) /\ \A l \in 1..n : c[l] \in DecodedBlock /\ BlockGood(c[l], f)
  <2>1. ChainGood(c, e)
    BY <1>1, <1>4, <1>5
  <2>2. ChainGood(c, f)
    BY <1>4, <2>1, ErrorLater
  <2> QED
    BY <1>5, <2>2 DEF ChainGood
<1>8. /\ c[a] \in DecodedBlock /\ BlockGood(c[a], f) /\ ~Exhausted(c[a])
      /\ Precise(data.block, Reached(c[a]), f) /\ c[1].src = root
      /\ Precise(data.block, Reached(c[n]), f)
      /\ data.block \in Nat
      /\ inodes[c[n].src].depth = 0
      /\ data.block \in 1..nblocks /\ data.offset \in 0..BlockSize
      /\ data.size \in {0, BlockSize}
  <2>1. data.block \in Nat
    BY <1>1 DEF StreamTypes
  <2>2. Precise(data.block, Reached(c[a]), e) /\ Precise(data.block, Reached(c[n]), e)
    BY <1>1, <1>2, <1>3, <1>4, <1>5 DEF DataGood
  <2>3. Precise(data.block, Reached(c[a]), f) /\ Precise(data.block, Reached(c[n]), f)
    BY <1>4, <2>2, ErrorLater
  <2> QED
    BY <1>1, <1>2, <1>3, <1>4, <1>5, <1>7, <2>1, <2>3 DEF DataGood
<1>9. /\ c[a].offset # KeyCount(c[a]) /\ inodes[c[a].src].depth \in Nat
      /\ Precise(data.block, Lo(inodes[c[a].src].depth, h), f)
      /\ Lo(inodes[c[a].src].depth, h) \in Nat /\ Hi(inodes[c[a].src].depth, h) \in Nat
      /\ Lo(inodes[c[a].src].depth, h) < Hi(inodes[c[a].src].depth, h)
  BY <1>1, <1>6, <1>8, NextReach
<1>10. /\ x \in DecodedBlock /\ BlockGood(x, f) /\ x.src = c[a].src
       /\ Reached(x) = Hi(inodes[c[a].src].depth, h)
  <2>1. /\ TreeInv /\ BlockGood(c[a], f) /\ c[a].offset # KeyCount(c[a])
        /\ c[a] \in DecodedBlock
    BY <1>1, <1>8, <1>9
  <2> QED
    BY <1>4, <1>6, <2>1, KeyConsumed
<1>d. PICK d : d = Consume(at, FALSE) /\ d = [c EXCEPT ![a] = x]
  BY <1>5, <1>6 DEF Consume, Consumed
<1>11. \A v \in Nat : Precise(v, Reached(c[a]), f) => Precise(v, Reached(x), f)
  <2> SUFFICES ASSUME NEW v \in Nat, Precise(v, Reached(c[a]), f) PROVE Precise(v, Reached(x), f)
    OBVIOUS
  <2>1. Precise(v, Lo(inodes[c[a].src].depth, h), f)
    BY <1>1, <1>6, <1>8, NextReach
  <2> QED
    BY <1>4, <1>9, <1>10, <2>1 DEF Precise
<1>12. data' \in [block : Nat, offset : Nat, size : Nat] /\ data'.block = data.block
       /\ data'.offset = data.offset /\ data'.size \in {0, BlockSize}
  <2>1. data \in [block : Nat, offset : Nat, size : Nat]
    BY <1>1 DEF StreamTypes
  <2>2. data' = data \/ data' = [data EXCEPT !.size = 0]
    BY DEF FetchChildFails
  <2> QED
    BY <1>8, <2>1, <2>2
<1>13. DeliveredGood(rpc', ret', data', delivered', sawError')
  <2>1. Units(data') = Units(data)
    BY <1>12 DEF Units
  <2> QED
    BY <1>1, <1>2, <2>1 DEF DeliveredGood
<1>14. PICK g \in Seq(DecodedBlock) :
          /\ g = chain' /\ Len(g) = n /\ ChainGood(g, f) /\ g[1].src = root
          /\ Precise(data.block, Reached(g[n]), f) /\ inodes[g[n].src].depth = 0
  <2>1. CASE a < n
    <3>0. a \in 1..(n - 1) /\ a + 1 \in 1..n /\ a + 1 \in Nat /\ a # a + 1
      BY <1>5, <2>1
    <3>1. PICK q \in DecodedBlock : q = c[a + 1] /\ BlockGood(q, f) /\ Pair(c[a], q, f)
      BY <1>5, <1>7, <3>0 DEF ChainGood
    <3>2. PICK y : y = [q EXCEPT !.cleared = TRUE]
      OBVIOUS
    <3>3. /\ y \in DecodedBlock /\ y.src = q.src /\ y.offset = q.offset /\ y.child = q.child
      BY <3>2 DEF DecodedBlock
    <3>4. BlockGood(y, f) /\ Reached(y) = Reached(q)
      <4>1. Reached(y) = Reached(q)
        BY <3>3 DEF Reached
      <4> QED
        BY <1>4, <3>1, <3>3, <4>1 DEF BlockGood, KeyCount
    <3>5. Pair(x, y, f)
      <4>1. inodes[q.src].hi \in Nat
        <5>1. q.src \in 1..Len(inodes) /\ q.offset \in 0..KeyCount(q)
          BY <3>1 DEF BlockGood
        <5> QED
          BY <1>1, <5>1, BlockFacts
      <4>2. Precise(inodes[q.src].hi, Reached(x), f)
        BY <1>11, <3>1, <4>1 DEF Pair
      <4> QED
        BY <1>10, <3>1, <3>3, <4>2 DEF Pair
    <3>6. ASSUME a + 1 # n PROVE Pair(y, c[a + 2], f)
      <4>1. a + 1 \in 1..(n - 1) /\ (a + 1) + 1 = a + 2
        BY <3>0, <3>6
      <4>2. Pair(q, c[a + 2], f)
        BY <1>5, <1>7, <3>1, <4>1 DEF ChainGood
      <4> QED
        BY <3>3, <3>4, <4>2 DEF Pair
    <3>7. PICK g : g = chain' /\ g = [[c EXCEPT ![a] = x] EXCEPT ![a + 1] = y]
      <4>1. chain' = [d EXCEPT ![a + 1].cleared = TRUE]
        BY <1>5, <1>d, <2>1 DEF FetchChildFails, Bottom
      <4>2. d[a + 1] = q
        <5>1. d = [c EXCEPT ![a] = x]
          BY <1>d
        <5> QED
          BY <1>5, <3>0, <3>1, <5>1
      <4>3. chain' = [d EXCEPT ![a + 1] = [d[a + 1] EXCEPT !.cleared = TRUE]]
        BY <4>1
      <4> QED
        BY <1>d, <3>2, <4>2, <4>3
    <3>8. /\ g \in Seq(DecodedBlock) /\ Len(g) = n /\ g[a] = x /\ g[a + 1] = y
          /\ \A l \in 1..n : l # a /\ l # a + 1 => g[l] = c[l]
      <4>1. g = [[c EXCEPT ![a] = x] EXCEPT ![a + 1] = y]
        BY <3>7
      <4> QED
        BY <1>5, <1>10, <3>0, <3>3, <4>1
    <3>9. ChainGood(g, f)
      <4>1. /\ n = Len(c) /\ ChainGood(c, f) /\ g \in Seq(DecodedBlock) /\ Len(g) = n
            /\ \A l \in 1..n : l # a /\ l # a + 1 => g[l] = c[l]
        BY <1>5, <1>7, <3>8
      <4>2. /\ g[a].src = c[a].src /\ BlockGood(g[a], f) /\ BlockGood(g[a + 1], f)
            /\ Pair(g[a], g[a + 1], f) /\ (a + 1 # n => Pair(g[a + 1], c[a + 2], f))
        BY <1>10, <3>4, <3>5, <3>6, <3>8
      <4> QED
        BY <3>0, <4>1, <4>2, ChainInner
    <3>10. \A l \in 1..n : g[l].src = c[l].src
      <4> SUFFICES ASSUME NEW l \in 1..n PROVE g[l].src = c[l].src
        OBVIOUS
      <4>1. l = a \/ l = a + 1 \/ (l # a /\ l # a + 1)
        OBVIOUS
      <4> QED
        BY <1>10, <3>1, <3>3, <3>8, <4>1
    <3>11. Reached(g[n]) = Reached(c[n])
      <4>1. CASE a + 1 = n
        BY <3>1, <3>4, <3>8, <4>1
      <4>2. CASE a + 1 # n
        <5>1. n \in 1..n /\ n # a /\ n # a + 1
          BY <1>5, <2>1, <4>2
        <5> QED
          BY <3>8, <5>1
      <4> QED
        BY <4>1, <4>2
    <3>12. 1 \in 1..n /\ n \in 1..n
      BY <1>5
    <3> QED
      BY <1>8, <3>7, <3>8, <3>9, <3>10, <3>11, <3>12
  <2>2. CASE ~(a < n)
    <3>0. a = n /\ n >= 1
      BY <1>5, <2>2
    <3>1. chain' = d
      BY <1>5, <1>d, <2>2 DEF FetchChildFails, Bottom
    <3>2. /\ d \in Seq(DecodedBlock) /\ Len(d) = n /\ d[n] = x
          /\ \A l \in 1..n : l # n => d[l] = c[l]
      <4>1. d = [c EXCEPT ![a] = x]
        BY <1>d
      <4>2. d = [c EXCEPT ![n] = x] /\ n \in 1..n
        BY <3>0, <4>1
      <4> QED
        BY <1>5, <1>10, <4>2
    <3>3. x.src = c[n].src
      BY <1>10, <3>0
    <3>4. ChainGood(d, f)
      BY <1>5, <1>7, <1>10, <3>0, <3>2, <3>3, ChainBottom
    <3>5. d[1].src = root
      <4>1. 1 \in 1..n
        BY <3>0
      <4> QED
        BY <1>8, <3>0, <3>2, <3>3, <4>1
    <3>6. Precise(data.block, Reached(x), f)
      BY <1>8, <1>11
    <3> QED
      BY <1>8, <3>1, <3>2, <3>3, <3>4, <3>5, <3>6
  <2> QED
    BY <2>1, <2>2
<1>15. chain' # <<>>
  BY <1>5, <1>14
<1>16. StreamTypes'
  BY <1>1, <1>2, <1>12, <1>14 DEF StreamTypes
<1>17. StreamControl'
  BY <1>1, <1>2, <1>3, <1>15 DEF StreamControl, SuccessMeansProgress
<1>18. ChainGood(chain', sawError')
  BY <1>2, <1>4, <1>14
<1>19. DataGood(rpc', chain', garbage', data', at', sawError')
  BY <1>2, <1>4, <1>8, <1>12, <1>14 DEF DataGood
<1> QED
  BY <1>13, <1>16, <1>17, <1>18, <1>19, Transfer

-----------------------------------------------------------------------------
(* Nothing is decoded before the call of chop_tree_fetch_stream. *)
LEMMA NothingDecoded ==
  ASSUME rpc = "idle", chain = <<>>, garbage = FALSE, data = NoData, at \in Nat,
         want \in Nat, got \in 0..want, ret = "none", delivered = <<>>, sawError \in BOOLEAN
  PROVE  StreamInv
<1>1. NoData \in [block : Nat, offset : Nat, size : Nat] /\ NoData.block = 0
  BY DEF NoData
<1>2. /\ Len(chain) = 0 /\ chain \in Seq(DecodedBlock)
      /\ Len(delivered) = 0 /\ delivered \in Seq(Nat)
  OBVIOUS
<1>3. StreamTypes
  BY <1>1, <1>2 DEF StreamTypes
<1>4. StreamControl
  BY DEF StreamControl, SuccessMeansProgress
<1>5. ChainGood(chain, sawError) /\ DataGood(rpc, chain, garbage, data, at, sawError)
  BY <1>2 DEF ChainGood, DataGood
<1>6. DeliveredGood(rpc, ret, data, delivered, sawError)
  BY <1>1, <1>2 DEF DeliveredGood, Units
<1> QED
  BY <1>3, <1>4, <1>5, <1>6 DEF StreamInv

(* While the input is indexed there is no stream to read. *)
LEMMA IndexKeeps ==
  ASSUME ReadInv, Next, UNCHANGED readVars
  PROVE  StreamInv'
<1>1. TreeInv /\ StreamTypes /\ StreamControl
  BY DEF ReadInv, StreamInv
<1>2. pc # "done"
  BY DEF Next, ReadBlock, StoreBlockFails, ReadFails, EndOfEmptyStream, EndOfStream,
     FlushFullBlock, FlushFullBlockFails, AppendIndex, FlushLevel, FlushLevelFails,
     AssertionFails
<1>3. result # "ok"
  BY <1>1, <1>2 DEF TreeInv, IInv, ResultInv
<1>4. /\ rpc = "idle" /\ chain = <<>> /\ ~garbage /\ ret = "none"
      /\ data = NoData /\ delivered = <<>>
  BY <1>1, <1>3 DEF StreamControl
<1>5. /\ at \in Nat /\ want \in Nat /\ got \in 0..want /\ sawError \in BOOLEAN
      /\ garbage \in BOOLEAN
  BY <1>1 DEF StreamTypes
<1>6. /\ rpc' = "idle" /\ chain' = <<>> /\ garbage' = FALSE /\ ret' = "none"
      /\ data' = NoData /\ delivered' = <<>> /\ at' \in Nat /\ want' \in Nat
      /\ got' \in 0..want' /\ sawError' \in BOOLEAN
  BY <1>4, <1>5 DEF readVars
<1>7. NoData \in [block : Nat, offset : Nat, size : Nat] /\ NoData.block = 0
  BY DEF NoData
<1>8. /\ Len(chain') = 0 /\ chain' \in Seq(DecodedBlock)
      /\ Len(delivered') = 0 /\ delivered' \in Seq(Nat)
  BY <1>6
<1>9. StreamTypes'
  BY <1>6, <1>7, <1>8 DEF StreamTypes
<1>10. StreamControl'
  BY <1>6 DEF StreamControl, SuccessMeansProgress, NoData
<1>11. ChainGood(chain, sawError)' /\ DataGood(rpc, chain, garbage, data, at, sawError)'
  BY <1>6, <1>8 DEF ChainGood, DataGood
<1>12. DeliveredGood(rpc, ret, data, delivered, sawError)'
  <2>1. data'.block = 0
    BY <1>6, <1>7
  <2> QED
    BY <1>6, <1>8, <2>1 DEF DeliveredGood, Units
<1> QED
  BY <1>9, <1>10, <1>11, <1>12 DEF StreamInv

(* Every step of the indexer and of its reader preserves the invariant. *)
LEMMA RoundTripKeeps == ReadInv /\ [RoundTripNext]_allVars => ReadInv'
<1> SUFFICES ASSUME ReadInv, [RoundTripNext]_allVars PROVE ReadInv'
  OBVIOUS
<1>1. [Next]_vars
  BY DEF RoundTripNext, Index, Fetch, allVars
<1>2. TreeInv'
  BY <1>1, TreeStays DEF ReadInv
<1>3. CASE Index
  BY <1>2, <1>3, IndexKeeps DEF Index, ReadInv
<1>4. CASE Fetch
  <2>1. result = "ok" /\ UNCHANGED vars /\ ReadNext
    BY <1>4 DEF Fetch
  <2> SUFFICES StreamInv'
    BY <1>2 DEF ReadInv
  <2>2. CASE \E size \in Sizes : Read(size)
    BY <2>1, <2>2, ReadKeeps
  <2>3. CASE \E size \in Sizes : ReadGarbage(size)
    BY <2>1, <2>3, ReadGarbageKeeps
  <2>4. CASE Close
    BY <2>1, <2>4, CloseKeeps
  <2>5. CASE FetchRoot
    BY <2>1, <2>5, FetchRootKeeps
  <2>6. CASE FetchRootFails
    BY <2>1, <2>6, FetchRootFailsKeeps
  <2>7. CASE FetchFirstChild
    BY <2>1, <2>7, FetchFirstChildKeeps
  <2>8. CASE FetchFirstChildFails
    BY <2>1, <2>8, FetchFirstChildFailsKeeps
  <2>9. CASE Copy
    BY <2>1, <2>9, CopyKeeps
  <2>10. CASE CopyDone
    BY <2>1, <2>10, CopyDoneKeeps
  <2>11. CASE NextBlock
    BY <2>1, <2>11, NextBlockKeeps
  <2>12. CASE Climb
    BY <2>1, <2>12, ClimbKeeps
  <2>13. CASE StreamEnd
    BY <2>1, <2>13, StreamEndKeeps
  <2>14. CASE FetchChild
    BY <2>1, <2>14, FetchChildKeeps
  <2>15. CASE FetchChildFails
    BY <2>1, <2>15, FetchChildFailsKeeps
  <2> QED
    BY <2>1, <2>2, <2>3, <2>4, <2>5, <2>6, <2>7, <2>8, <2>9, <2>10, <2>11, <2>12,
       <2>13, <2>14, <2>15 DEF ReadNext, ReadStep
<1>5. CASE UNCHANGED allVars
  <2>1. UNCHANGED vars /\ UNCHANGED readVars
    BY <1>5 DEF allVars
  <2>2. /\ StreamTypes /\ StreamControl /\ ChainGood(chain, sawError)
        /\ DataGood(rpc, chain, garbage, data, at, sawError)
        /\ DeliveredGood(rpc, ret, data, delivered, sawError)
    BY DEF ReadInv, StreamInv
  <2>3. StreamTypes' /\ StreamControl'
    BY <2>1, <2>2 DEF vars, readVars, StreamTypes, StreamControl, SuccessMeansProgress
  <2>4. /\ ChainGood(chain', sawError')
        /\ DataGood(rpc', chain', garbage', data', at', sawError')
        /\ DeliveredGood(rpc', ret', data', delivered', sawError')
    BY <2>1, <2>2 DEF readVars
  <2> QED
    BY <1>2, <2>1, <2>3, <2>4, Transfer DEF ReadInv
<1> QED
  BY <1>3, <1>4, <1>5 DEF RoundTripNext

LEMMA InitReads == RoundTripInit => ReadInv
<1> SUFFICES ASSUME RoundTripInit PROVE ReadInv
  OBVIOUS
<1>1. IInv
  BY InitSpans DEF RoundTripInit
<1>2. StoredEnds
  BY DEF RoundTripInit, Init, StoredEnds
<1>3. StreamInv
  <2>1. /\ rpc = "idle" /\ chain = <<>> /\ garbage = FALSE /\ data = NoData /\ at = 0
        /\ want = 0 /\ got = 0 /\ ret = "none" /\ delivered = <<>> /\ sawError = FALSE
    BY DEF RoundTripInit, ReadInit
  <2>2. at \in Nat /\ want \in Nat /\ got \in 0..want
    BY <2>1
  <2>3. sawError \in BOOLEAN
    BY <2>1, Zenon
  <2> QED
    BY <2>1, <2>2, <2>3, NothingDecoded, Zenon
<1> QED
  BY <1>1, <1>2, <1>3 DEF ReadInv, TreeInv

(***************************************************************************)
(* At every step of the indexer and of the stream that reads its tree      *)
(* back, each decoded block follows in the input what was delivered.       *)
(***************************************************************************)
THEOREM ReadInvariant == RoundTripSpec => []ReadInv
<1>1. RoundTripInit => ReadInv
  BY InitReads
<1>2. ReadInv /\ [RoundTripNext]_allVars => ReadInv'
  BY RoundTripKeeps
<1> QED
  BY <1>1, <1>2, PTL DEF RoundTripSpec

(***************************************************************************)
(* Whatever writes failed while indexing and whatever fetches fail while   *)
(* reading, chop_stream_read on the tree stream never repeats or reorders  *)
(* a unit of the input.                                                    *)
(***************************************************************************)
THEOREM ReadsNeverRepeat == RoundTripSpec => []NeverRepeats
<1>1. ReadInv => NeverRepeats
  <2> SUFFICES ASSUME ReadInv, NEW i \in 1..(Len(delivered) - 1)
               PROVE  delivered[i] < delivered[i + 1]
    BY DEF NeverRepeats
  <2>1. /\ delivered \in Seq(Nat)
        /\ \A k, j \in 1..Len(delivered) : k < j => delivered[k] < delivered[j]
    BY DEF ReadInv, StreamInv, StreamTypes, DeliveredGood
  <2>2. i \in 1..Len(delivered) /\ i + 1 \in 1..Len(delivered) /\ i < i + 1
    BY <2>1
  <2> QED
    BY <2>1, <2>2
<1> QED
  BY <1>1, ReadInvariant, PTL

(***************************************************************************)
(* A chop_stream_read that asks for something and succeeds returns         *)
(* something, at whatever level of the tree the read had to continue.      *)
(***************************************************************************)
THEOREM ReadsProgress == RoundTripSpec => []SuccessMeansProgress
<1>1. ReadInv => SuccessMeansProgress
  BY DEF ReadInv, StreamInv, StreamControl
<1> QED
  BY <1>1, ReadInvariant, PTL

(***************************************************************************)
(* What chop_tree_index_blocks was given, chop_tree_fetch_stream gives     *)
(* back: unless the indexer discarded an error or a fetch failed, the      *)
(* stream ends after every unit of the input, in order.                    *)
(***************************************************************************)
THEOREM RoundTripCorrect == RoundTripSpec => []RoundTrip
<1>1. ReadInv => RoundTrip
  BY DEF ReadInv, StreamInv, DeliveredGood, RoundTrip
<1> QED
  BY <1>1, ReadInvariant, PTL

-----------------------------------------------------------------------------
(***************************************************************************)
(* The content of the tree, read in order.  After a discarded error the    *)
(* tree has gaps, so that spans no longer say which block comes next; the  *)
(* leaves do.  A decoded block holds all leaves of the tree within its     *)
(* span, and there is none between the data block and the place the search *)
(* for the next one has come to.                                           *)
(***************************************************************************)
IsIn(q, x) == \E i \in 1..Len(q) : q[i] = x

IsLeaf(r, x) == IsIn(Leaves(inodes, r), x)

(* x is key h of a block of depth d, or a leaf below it. *)
KeyLeaf(d, h, x) == IF d = 0 THEN x = h ELSE IsLeaf(h, x)

(* No leaf lies behind a and up to b. *)
Gap(a, b) == \A x \in Nat : a < x /\ x <= b => ~IsLeaf(root, x)

(* Key block r has the leaves of the tree that lie in its span. *)
Inside(r) ==
    \A x \in Nat : IsLeaf(r, x) <=> IsLeaf(root, x) /\ inodes[r].lo < x /\ x <= inodes[r].hi

(* The decoded blocks c and the data block d, for stream state r, level a. *)
Searched(r, c, d, a) ==
    c # <<>> =>
    /\ \A l \in 1..Len(c) : Inside(c[l].src)
    /\ \A l \in 1..(Len(c) - 1) : Gap(inodes[c[l + 1].src].hi, Reached(c[l]))
    /\ Gap(d.block, Reached(c[Len(c)]))
    /\ r = "climb" => Gap(d.block, Reached(c[a]))

(* s ends in data block d, the k-th of the leaves q. *)
Located(q, s, d) ==
    \/ d.block = 0 /\ s = <<>>
    \/ \E k \in 1..Len(q) : d.block = q[k] /\ Len(s) = (k - 1) * BlockSize + d.offset

(* s is the beginning of the content; t is what the last call returned. *)
Begins(s, t) ==
    /\ Len(s) <= Len(Content)
    /\ \A i \in 1..Len(s) : s[i] = Content[i]
    /\ t = "STREAM_END" => Len(s) = Len(Content)

LeafInv ==
    result = "ok" /\ ~sawError =>
    /\ Searched(rpc, chain, data, at)
    /\ Begins(delivered, ret)
    /\ rpc # "closed" => Located(Leaves(inodes, root), delivered, data)

-----------------------------------------------------------------------------
(* Two sequences, one behind the other. *)
LEMMA ConcatFacts ==
  ASSUME NEW s \in Seq(Nat), NEW t \in Seq(Nat), NEW m \in Nat, NEW n \in Nat,
         m = Len(s), n = Len(t), NEW q, q = s \o t
  PROVE  /\ q \in Seq(Nat) /\ Len(q) = m + n /\ \A i \in 1..m : q[i] = s[i]
         /\ \A i \in 1..n : q[m + i] = t[i]
OBVIOUS

LEMMA InConcat ==
  ASSUME NEW s \in Seq(Nat), NEW t \in Seq(Nat), NEW x
  PROVE  s \o t \in Seq(Nat) /\ (IsIn(s \o t, x) <=> IsIn(s, x) \/ IsIn(t, x))
<1>1. PICK m \in Nat, n \in Nat : m = Len(s) /\ n = Len(t)
  OBVIOUS
<1>2. PICK q : q = s \o t
  OBVIOUS
<1>3. /\ q \in Seq(Nat) /\ Len(q) = m + n /\ \A i \in 1..m : q[i] = s[i]
      /\ \A i \in 1..n : q[m + i] = t[i]
  BY <1>1, <1>2, ConcatFacts
<1>4. ASSUME IsIn(q, x) PROVE IsIn(s, x) \/ IsIn(t, x)
  <2>1. PICK i \in 1..(m + n) : q[i] = x
    BY <1>3, <1>4 DEF IsIn
  <2>2. CASE i <= m
    <3>1. i \in 1..m
      BY <2>2
    <3> QED
      BY <1>1, <1>3, <2>1, <3>1 DEF IsIn
  <2>3. CASE ~(i <= m)
    <3>1. i - m \in 1..n /\ m + (i - m) = i
      BY <2>3
    <3> QED
      BY <1>1, <1>3, <2>1, <3>1 DEF IsIn
  <2> QED
    BY <2>2, <2>3
<1>5. ASSUME IsIn(s, x) PROVE IsIn(q, x)
  <2>1. PICK i \in 1..m : s[i] = x
    BY <1>1, <1>5 DEF IsIn
  <2>2. i \in 1..(m + n)
    OBVIOUS
  <2> QED
    BY <1>3, <2>1, <2>2 DEF IsIn
<1>6. ASSUME IsIn(t, x) PROVE IsIn(q, x)
  <2>1. PICK i \in 1..n : t[i] = x
    BY <1>1, <1>6 DEF IsIn
  <2>2. m + i \in 1..(m + n)
    OBVIOUS
  <2> QED
    BY <1>3, <2>1, <2>2 DEF IsIn
<1> QED
  BY <1>2, <1>3, <1>4, <1>5, <1>6

(* The members of a flattened sequence are those of its pieces. *)
LEMMA InFlatten ==
  ASSUME NEW ss, NEW n \in Nat, n = Len(ss), n >= 1, \A i \in 1..n : ss[i] \in Seq(Nat)
  PROVE  \A x : IsIn(FlattenSeq(ss), x) <=> \E j \in 1..n : IsIn(ss[j], x)
<1>1. PICK f : /\ FlattenSeq(ss) = f[n] /\ f[1] = ss[1]
               /\ \A i \in 1..(n - 1) : f[i + 1] = f[i] \o ss[i + 1]
  BY FlattenIsLast
<1> DEFINE Has(i, x) == \E j \in 1..i : IsIn(ss[j], x)
           S == {i \in Nat : i \in 1..n => /\ f[i] \in Seq(Nat)
                                           /\ \A x : IsIn(f[i], x) <=> Has(i, x)}
<1>2. 0 \in S
  OBVIOUS
<1>3. ASSUME NEW i \in Nat, i \in S PROVE i + 1 \in S
  <2> SUFFICES ASSUME i + 1 \in 1..n
               PROVE  f[i + 1] \in Seq(Nat) /\ \A x : IsIn(f[i + 1], x) <=> Has(i + 1, x)
    OBVIOUS
  <2>1. CASE i = 0
    <3>1. i + 1 = 1 /\ 1 \in 1..n /\ 1..1 = {1}
      BY <2>1
    <3>2. \A x : Has(1, x) <=> IsIn(ss[1], x)
      BY <3>1
    <3> HIDE DEF Has
    <3> QED
      BY <1>1, <3>1, <3>2
  <2>2. CASE i # 0
    <3>1. i \in 1..n /\ i \in 1..(n - 1)
      BY <2>2
    <3>2. f[i] \in Seq(Nat) /\ \A x : IsIn(f[i], x) <=> Has(i, x)
      BY <1>3, <3>1
    <3>3. PICK s \in Seq(Nat), t \in Seq(Nat) : s = f[i] /\ t = ss[i + 1] /\ f[i + 1] = s \o t
      BY <1>1, <3>1, <3>2
    <3>4. f[i + 1] \in Seq(Nat) /\ \A x : IsIn(f[i + 1], x) <=> IsIn(s, x) \/ IsIn(t, x)
      BY <3>3, InConcat
    <3>5. \A j : j \in 1..(i + 1) <=> j \in 1..i \/ j = i + 1
      BY <3>1
    <3>6. \A x : Has(i + 1, x) <=> Has(i, x) \/ IsIn(t, x)
      BY <3>3, <3>5, Zenon
    <3> HIDE DEF Has
    <3> QED
      BY <3>2, <3>3, <3>4, <3>6
  <2> QED
    BY <2>1, <2>2
<1> HIDE DEF S
<1>4. n \in S
  BY <1>2, <1>3, NatSetInduction
<1> QED
  BY <1>1, <1>4 DEF S

(* Pieces of the same length, flattened. *)
LEMMA EqualPieces ==
  ASSUME NEW ss, NEW n \in Nat, n = Len(ss), n >= 1, NEW z \in Nat,
         \A i \in 1..n : ss[i] \in Seq(Nat) /\ Len(ss[i]) = z
  PROVE  /\ FlattenSeq(ss) \in Seq(Nat) /\ Len(FlattenSeq(ss)) = n * z
         /\ \A j \in 1..n : \A u \in 1..z : FlattenSeq(ss)[(j - 1) * z + u] = ss[j][u]
<1>1. PICK f : /\ FlattenSeq(ss) = f[n] /\ f[1] = ss[1]
               /\ \A i \in 1..(n - 1) : f[i + 1] = f[i] \o ss[i + 1]
  BY FlattenIsLast
<1> DEFINE P(i) == /\ f[i] \in Seq(Nat) /\ Len(f[i]) = i * z
                   /\ \A j \in 1..i : \A u \in 1..z : f[i][(j - 1) * z + u] = ss[j][u]
           S == {i \in Nat : i \in 1..n => P(i)}
<1>2. 0 \in S
  OBVIOUS
<1>3. ASSUME NEW i \in Nat, i \in S PROVE i + 1 \in S
  <2> SUFFICES ASSUME i + 1 \in 1..n PROVE P(i + 1)
    OBVIOUS
  <2>1. CASE i = 0
    <3>1. i + 1 = 1 /\ 1 \in 1..n /\ 1 * z = z /\ (1 - 1) * z = 0
      BY <2>1
    <3>2. \A u \in 1..z : 0 + u = u
      OBVIOUS
    <3>3. \A j \in 1..1 : j = 1
      OBVIOUS
    <3>4. \A j \in 1..1 : \A u \in 1..z : ss[1][(j - 1) * z + u] = ss[j][u]
      BY <3>1, <3>2, <3>3
    <3>5. f[1] \in Seq(Nat) /\ Len(f[1]) = 1 * z
      BY <1>1, <3>1
    <3>6. P(1)
      BY <1>1, <3>4, <3>5
    <3> HIDE DEF P
    <3> QED
      BY <3>1, <3>6
  <2>2. CASE i # 0
    <3>1. i \in 1..n /\ i \in 1..(n - 1)
      BY <2>2
    <3>2. P(i)
      BY <1>3, <3>1
    <3>3. PICK s \in Seq(Nat), t \in Seq(Nat) : s = f[i] /\ t = ss[i + 1]
      BY <1>1, <3>1, <3>2
    <3>g. PICK g : g = f[i + 1] /\ g = s \o t
      BY <1>1, <3>1, <3>3
    <3>4. PICK m \in Nat : m = i * z /\ Len(s) = m /\ Len(t) = z
      BY <3>2, <3>3
    <3>5. /\ g \in Seq(Nat) /\ Len(g) = m + z /\ \A p \in 1..m : g[p] = s[p]
          /\ \A u \in 1..z : g[m + u] = t[u]
      <4>1. m = Len(s) /\ z = Len(t) /\ g = s \o t
        BY <3>g, <3>4
      <4> HIDE DEF P, S
      <4> QED
        BY <4>1, ConcatFacts
    <3>6. (i + 1) * z = m + z
      BY <3>4
    <3>7. ASSUME NEW j \in 1..(i + 1), NEW u \in 1..z PROVE g[(j - 1) * z + u] = ss[j][u]
      <4>1. CASE j = i + 1
        <5>1. (j - 1) * z = m
          BY <3>4, <4>1
        <5> QED
          BY <3>3, <3>5, <4>1, <5>1
      <4>2. CASE j # i + 1
        <5>1. j \in 1..i
          BY <4>2
        <5>2. PICK a \in Nat, b \in Nat : j = a + 1 /\ i = a + 1 + b
          <6>1. j - 1 \in Nat /\ i - j \in Nat /\ j = (j - 1) + 1 /\ i = (j - 1) + 1 + (i - j)
            BY <5>1
          <6> QED
            BY <6>1
        <5>3. m = a * z + z + b * z /\ a * z \in Nat /\ b * z \in Nat
          BY <3>4, <5>2
        <5>4. (j - 1) * z = a * z
          BY <5>2
        <5>5. (j - 1) * z + u \in 1..m
          <6>1. PICK v \in Nat, w \in Nat : v = a * z /\ w = b * z
            BY <5>3
          <6>2. m = v + z + w /\ (j - 1) * z = v
            BY <5>3, <5>4, <6>1
          <6> QED
            BY <6>2
        <5>6. g[(j - 1) * z + u] = s[(j - 1) * z + u]
          BY <3>5, <5>5
        <5>7. s[(j - 1) * z + u] = ss[j][u]
          BY <3>2, <3>3, <5>1
        <5> QED
          BY <5>6, <5>7
      <4> QED
        BY <4>1, <4>2
    <3> QED
      BY <3>g, <3>5, <3>6, <3>7
  <2> QED
    BY <2>1, <2>2
<1> HIDE DEF S
<1>4. n \in S
  BY <1>2, <1>3, NatSetInduction
<1>5. P(n)
  BY <1>4 DEF S
<1> QED
  BY <1>1, <1>5

(* The units of the content, block by block. *)
LEMMA ContentFacts ==
  ASSUME NEW q \in Seq(Nat), q = Leaves(inodes, root), NEW k \in Nat, k = Len(q),
         \A i \in 1..k : q[i] >= 1
  PROVE  /\ Content \in Seq(Nat) /\ Len(Content) = k * BlockSize
         /\ \A j \in 1..k : \A u \in 1..BlockSize :
              Content[(j - 1) * BlockSize + u] = (q[j] - 1) * BlockSize + u
<1>0. PICK z \in Nat : z = BlockSize
  BY BlockSizeAssumption
<1> DEFINE ss == [i \in 1..k |-> [u \in 1..z |-> (q[i] - 1) * z + u]]
<1>1. Content = FlattenSeq(ss)
  BY <1>0 DEF Content
<1>2. Len(ss) = k
  OBVIOUS
<1>3. ASSUME NEW i \in 1..k
      PROVE  /\ ss[i] \in Seq(Nat) /\ Len(ss[i]) = z
             /\ \A u \in 1..z : ss[i][u] = (q[i] - 1) * z + u
  <2>1. PICK b \in Nat : b = (q[i] - 1) * z
    <3>1. PICK a \in Nat : a = q[i] - 1
      OBVIOUS
    <3>2. a * z \in Nat
      OBVIOUS
    <3> QED
      BY <3>1, <3>2
  <2>2. ss[i] = [u \in 1..z |-> b + u]
    BY <2>1
  <2>3. [u \in 1..z |-> b + u] \in [1..z -> Nat]
    OBVIOUS
  <2>4. ss[i] \in Seq(Nat) /\ Len(ss[i]) = z /\ \A u \in 1..z : ss[i][u] = b + u
    BY <2>2, <2>3
  <2> QED
    BY <2>1, <2>4
<1>4. CASE k = 0
  <2>1. ss = <<>> /\ 0 * z = 0
    BY <1>2, <1>4
  <2>2. FlattenSeq(ss) = <<>>
    BY <1>2, <1>4, <2>1 DEF FlattenSeq
  <2>3. Content = <<>> /\ k * BlockSize = 0
    BY <1>0, <1>1, <1>4, <2>1, <2>2
  <2>4. \A j \in 1..k : FALSE
    BY <1>4
  <2> QED
    BY <2>3, <2>4
<1>5. CASE k # 0
  <2>1. k >= 1
    BY <1>5
  <2> HIDE DEF ss
  <2>2. /\ FlattenSeq(ss) \in Seq(Nat) /\ Len(FlattenSeq(ss)) = k * z
        /\ \A j \in 1..k : \A u \in 1..z : FlattenSeq(ss)[(j - 1) * z + u] = ss[j][u]
    <3>1. \A i \in 1..k : ss[i] \in Seq(Nat) /\ Len(ss[i]) = z
      BY <1>3
    <3> QED
      BY <1>2, <2>1, <3>1, EqualPieces
  <2> QED
    BY <1>0, <1>1, <1>3, <2>2
<1> QED
  BY <1>4, <1>5

-----------------------------------------------------------------------------
(* The leaves of the tree and their number. *)
LEMMA RootLeaves ==
  ASSUME TreeInv, result = "ok"
  PROVE  /\ root \in 1..Len(inodes) /\ inodes[root].lo \in Nat /\ inodes[root].hi \in Nat
         /\ Ordered(Leaves(inodes, root), inodes[root].lo, inodes[root].hi)
<1>1. root \in 1..Len(inodes)
  BY DEF TreeInv, IInv, ResultInv
<1>2. Shape
  BY DEF TreeInv, IInv
<1> QED
  BY <1>1, <1>2, StoredTypes, LeavesOrdered

(* A leaf of a stored block lies in its span. *)
LEMMA LeafSpan ==
  ASSUME TreeInv, NEW r \in 1..Len(inodes), NEW x, IsLeaf(r, x)
  PROVE  x \in Nat /\ inodes[r].lo < x /\ x <= inodes[r].hi
<1>1. PICK q : q = Leaves(inodes, r)
  OBVIOUS
<1>2. q \in Seq(Nat) /\ \A m \in 1..Len(q) : inodes[r].lo < q[m] /\ q[m] <= inodes[r].hi
  BY <1>1, LeavesOrdered DEF Ordered
<1>3. PICK i \in 1..Len(q) : q[i] = x
  BY <1>1 DEF IsLeaf, IsIn
<1>4. q[i] \in Nat
  BY <1>2
<1> QED
  BY <1>2, <1>3, <1>4

(* A leaf below a key lies in the span of the key. *)
LEMMA KeyLeafSpan ==
  ASSUME TreeInv, NEW d \in Nat, NEW h, KeyOK(d, h), NEW x, KeyLeaf(d, h, x)
  PROVE  x \in Nat /\ Lo(d, h) < x /\ x <= Hi(d, h)
<1>1. CASE d = 0
  <2>1. x = h /\ h \in 1..nblocks /\ nblocks \in Nat
    BY <1>1 DEF KeyLeaf, KeyOK, TreeInv, IInv, Shape, TypeOK
  <2> QED
    BY <1>1, <2>1 DEF Lo, Hi
<1>2. CASE d # 0
  <2>1. IsLeaf(h, x) /\ h \in 1..Len(inodes)
    BY <1>2 DEF KeyLeaf, KeyOK
  <2> QED
    BY <1>2, <2>1, LeafSpan DEF Lo, Hi
<1> QED
  BY <1>1, <1>2

(* The leaves of a stored block are those of its keys. *)
LEMMA LeafKeys ==
  ASSUME TreeInv, NEW i \in 1..Len(inodes), NEW d \in Nat, NEW s \in Seq(Nat), NEW n \in Nat,
         d = inodes[i].depth, s = inodes[i].keys, n = Len(s), n >= 1,
         \A j \in 1..n : KeyOK(d, s[j])
  PROVE  \A x : IsLeaf(i, x) <=> \E j \in 1..n : KeyLeaf(d, s[j], x)
<1>1. PICK L : /\ \A k \in 1..Len(inodes) : L[k] = Visit(L, inodes, k)
               /\ \A k \in 1..Len(inodes) : Leaves(inodes, k) = L[k]
  BY LeavesWalk DEF TreeInv, IInv
<1>2. CASE d = 0
  <2>1. Leaves(inodes, i) = s
    BY <1>1, <1>2 DEF Visit
  <2> QED
    BY <1>2, <2>1 DEF IsLeaf, IsIn, KeyLeaf
<1>3. CASE d # 0
  <2> DEFINE ss == [j \in 1..n |-> L[s[j]]]
  <2>1. Leaves(inodes, i) = FlattenSeq(ss)
    BY <1>1, <1>3 DEF Visit
  <2>2. Len(ss) = n
    OBVIOUS
  <2>3. ASSUME NEW j \in 1..n PROVE ss[j] \in Seq(Nat) /\ ss[j] = Leaves(inodes, s[j])
    <3>1. s[j] \in 1..Len(inodes)
      BY <1>3 DEF KeyOK
    <3>2. ss[j] = Leaves(inodes, s[j])
      BY <1>1, <3>1
    <3>3. Leaves(inodes, s[j]) \in Seq(Nat)
      BY <3>1, LeavesOrdered DEF Ordered
    <3> QED
      BY <3>2, <3>3
  <2> HIDE DEF ss
  <2>4. \A x : IsIn(FlattenSeq(ss), x) <=> \E j \in 1..n : IsIn(ss[j], x)
    BY <2>2, <2>3, InFlatten
  <2>5. \A x : \A j \in 1..n : IsIn(ss[j], x) <=> KeyLeaf(d, s[j], x)
    BY <1>3, <2>3 DEF KeyLeaf, IsLeaf
  <2>6. \A x : IsLeaf(i, x) <=> IsIn(FlattenSeq(ss), x)
    BY <2>1 DEF IsLeaf
  <2> QED
    BY <2>4, <2>5, <2>6
<1> QED
  BY <1>2, <1>3

(* The top-level block. *)
LEMMA InsideRoot ==
  ASSUME TreeInv, result = "ok"
  PROVE  Inside(root) /\ Gap(0, inodes[root].lo) /\ Gap(inodes[root].hi, inodes[root].hi)
<1>1. \A x : IsLeaf(root, x) => x \in Nat /\ inodes[root].lo < x /\ x <= inodes[root].hi
  BY RootLeaves, LeafSpan
<1>2. inodes[root].lo \in Nat /\ inodes[root].hi \in Nat
  BY RootLeaves
<1> QED
  BY <1>1, <1>2 DEF Inside, Gap

(* The child a key names holds what the tree has in its span, and there    *)
(* is no leaf between what a block has consumed and its next key.          *)
LEMMA NextInside ==
  ASSUME TreeInv, result = "ok", NEW b, b.src \in 1..Len(inodes), b.offset \in 0..KeyCount(b),
         b.offset # KeyCount(b), Inside(b.src), NEW h, h = NextKey(b),
         NEW d \in Nat, d = inodes[b.src].depth
  PROVE  /\ Gap(Reached(b), Lo(d, h))
         /\ d # 0 => Inside(h)
         /\ d = 0 => IsLeaf(root, h)
<1>0. PICK i \in 1..Len(inodes) : i = b.src
  OBVIOUS
<1>1. PICK s \in Seq(Nat), n \in Nat :
           /\ s = inodes[i].keys /\ n = Len(s) /\ n >= 1
           /\ \A j \in 1..n : /\ KeyOK(d, s[j])
                              /\ Lo(d, s[j]) \in Nat /\ Hi(d, s[j]) \in Nat
                              /\ Lo(d, s[j]) < Hi(d, s[j])
           /\ \A j, k \in 1..n : j < k => Hi(d, s[j]) <= Lo(d, s[k])
           /\ inodes[i].lo = Lo(d, s[1]) /\ inodes[i].hi = Hi(d, s[n])
  <2>1. PICK c \in Nat, s \in Seq(Nat), n \in Nat :
           /\ c = inodes[i].depth /\ s = inodes[i].keys /\ n = Len(s) /\ n >= 1
           /\ \A j \in 1..n : /\ KeyOK(c, s[j]) /\ (c > 0 => s[j] < i)
                              /\ Lo(c, s[j]) \in Nat /\ Hi(c, s[j]) \in Nat
                              /\ Lo(c, s[j]) < Hi(c, s[j])
           /\ \A j, k \in 1..n : j < k => Hi(c, s[j]) <= Lo(c, s[k])
           /\ \A j \in 1..(n - 1) : Follows(Hi(c, s[j]), Lo(c, s[j + 1]))
           /\ inodes[i].lo = Lo(c, s[1]) /\ inodes[i].hi = Hi(c, s[n])
    BY KeySpans, Zenon
  <2>2. d = c
    BY <1>0, <2>1, Zenon
  <2>3. \A j \in 1..n : /\ KeyOK(d, s[j]) /\ Lo(d, s[j]) \in Nat /\ Hi(d, s[j]) \in Nat
                       /\ Lo(d, s[j]) < Hi(d, s[j])
    BY <2>1, <2>2, Zenon
  <2>4. \A j, k \in 1..n : j < k => Hi(d, s[j]) <= Lo(d, s[k])
    BY <2>1, <2>2, Zenon
  <2>5. /\ s = inodes[i].keys /\ n = Len(s) /\ n >= 1
        /\ inodes[i].lo = Lo(d, s[1]) /\ inodes[i].hi = Hi(d, s[n])
    BY <2>1, <2>2, Zenon
  <2> QED
    BY <2>3, <2>4, <2>5, Zenon
<1>2. \A x : IsLeaf(i, x) <=> \E j \in 1..n : KeyLeaf(d, s[j], x)
  BY <1>0, <1>1, LeafKeys
<1>3. \A x : \A j \in 1..n : KeyLeaf(d, s[j], x) => x \in Nat /\ Lo(d, s[j]) < x /\ x <= Hi(d, s[j])
  BY <1>1, KeyLeafSpan
<1>4. PICK o \in Nat : o = b.offset /\ o + 1 \in 1..n /\ h = s[o + 1]
  <2>1. KeyCount(b) = n /\ NextKey(b) = s[b.offset + 1]
    BY <1>0, <1>1 DEF KeyCount, NextKey
  <2>2. b.offset \in Nat /\ b.offset + 1 \in 1..n
    BY <2>1, SMTT(30)
  <2> QED
    BY <2>1, <2>2
<1>5. Reached(b) = IF o = 0 THEN Lo(d, s[1]) ELSE Hi(d, s[o])
  BY <1>0, <1>1, <1>4 DEF Reached
<1>6. \A x \in Nat : IsLeaf(i, x) <=> IsLeaf(root, x) /\ inodes[i].lo < x /\ x <= inodes[i].hi
  BY <1>0 DEF Inside
<1>7. ASSUME NEW j \in 1..n, NEW k \in 1..n, j <= k
      PROVE  Lo(d, s[j]) <= Lo(d, s[k]) /\ Hi(d, s[j]) <= Hi(d, s[k])
  <2>1. CASE j = k
    BY <1>1, <2>1, SMTT(30)
  <2>2. CASE j # k
    <3>1. j < k
      BY <1>7, <2>2
    <3>2. Hi(d, s[j]) <= Lo(d, s[k])
      BY <1>1, <3>1
    <3>3. PICK p \in Nat, q \in Nat, u \in Nat, v \in Nat :
             p = Lo(d, s[j]) /\ q = Hi(d, s[j]) /\ u = Lo(d, s[k]) /\ v = Hi(d, s[k])
      BY <1>1
    <3>4. p < q /\ u < v /\ q <= u
      BY <1>1, <3>2, <3>3
    <3> QED
      BY <3>3, <3>4, SMTT(30)
  <2> QED
    BY <2>1, <2>2
<1>8. 1 \in 1..n /\ n \in 1..n /\ 1 <= o + 1 /\ o + 1 <= n
  BY <1>1, <1>4
<1>9. PICK x1 \in Nat, x2 \in Nat, y1 \in Nat, y2 \in Nat :
         /\ x1 = inodes[i].lo /\ x2 = inodes[i].hi /\ y1 = Lo(d, h) /\ y2 = Hi(d, h)
         /\ x1 <= y1 /\ y1 < y2 /\ y2 <= x2
  <2>1. /\ Lo(d, s[1]) \in Nat /\ Hi(d, s[n]) \in Nat /\ Lo(d, s[o + 1]) \in Nat
        /\ Hi(d, s[o + 1]) \in Nat /\ Lo(d, s[o + 1]) < Hi(d, s[o + 1])
    BY <1>1, <1>4, <1>8
  <2>2. Lo(d, s[1]) <= Lo(d, s[o + 1]) /\ Hi(d, s[o + 1]) <= Hi(d, s[n])
    BY <1>4, <1>7, <1>8
  <2> QED
    BY <1>1, <1>4, <2>1, <2>2
<1>10. Gap(Reached(b), Lo(d, h))
  <2> SUFFICES ASSUME NEW x \in Nat, Reached(b) < x, x <= Lo(d, h), IsLeaf(root, x)
               PROVE  FALSE
    BY DEF Gap
  <2>1. PICK g \in Nat : g = Reached(b) /\ x1 <= g
    <3>1. CASE o = 0
      BY <1>1, <1>5, <1>9, <3>1
    <3>2. CASE o # 0
      <4>1. o \in 1..n /\ 1 <= o
        BY <1>4, <3>2
      <4>2. Lo(d, s[1]) <= Lo(d, s[o]) /\ Lo(d, s[o]) < Hi(d, s[o])
            /\ Lo(d, s[o]) \in Nat /\ Hi(d, s[o]) \in Nat
        BY <1>1, <1>7, <1>8, <4>1
      <4>3. Reached(b) = Hi(d, s[o])
        BY <1>5, <3>2
      <4>4. x1 = Lo(d, s[1])
        BY <1>1, <1>9
      <4> QED
        BY <4>2, <4>3, <4>4
    <3> QED
      BY <3>1, <3>2
  <2>2. x1 < x /\ x <= x2
    BY <1>9, <2>1, SMTT(30)
  <2>3. PICK j \in 1..n : KeyLeaf(d, s[j], x)
    BY <1>2, <1>6, <1>9, <2>2
  <2>4. Lo(d, s[j]) < x /\ x <= Hi(d, s[j])
    BY <1>3, <2>3
  <2>5. PICK p \in Nat, q \in Nat : p = Lo(d, s[j]) /\ q = Hi(d, s[j])
    BY <1>1
  <2>6. CASE j <= o
    <3>1. o \in 1..n /\ o # 0
      <4>1. o + 1 \in 1..n
        BY <1>4
      <4> QED
        BY <2>6, <4>1
    <3>2. q <= g
      BY <1>5, <1>7, <2>1, <2>5, <2>6, <3>1
    <3> QED
      BY <2>1, <2>4, <2>5, <3>2
  <2>7. CASE ~(j <= o)
    <3>1. o + 1 <= j
      BY <2>7
    <3>2. y1 <= p
      BY <1>4, <1>7, <1>9, <2>5, <3>1
    <3> QED
      BY <1>9, <2>4, <2>5, <3>2
  <2> QED
    BY <2>6, <2>7
<1>11. ASSUME NEW x, KeyLeaf(d, h, x) PROVE x \in Nat /\ IsLeaf(root, x)
  <2>1. IsLeaf(i, x) /\ x \in Nat
    BY <1>2, <1>3, <1>4, <1>11
  <2> QED
    BY <1>6, <2>1
<1>12. ASSUME d = 0 PROVE IsLeaf(root, h)
  BY <1>11, <1>12 DEF KeyLeaf
<1>13. ASSUME d # 0 PROVE Inside(h)
  <2>1. inodes[h].lo = y1 /\ inodes[h].hi = y2 /\ \A x : KeyLeaf(d, h, x) <=> IsLeaf(h, x)
    BY <1>9, <1>13 DEF Lo, Hi, KeyLeaf
  <2>2. ASSUME NEW x \in Nat, IsLeaf(h, x)
        PROVE  IsLeaf(root, x) /\ y1 < x /\ x <= y2
    BY <1>3, <1>4, <1>9, <1>11, <2>1, <2>2
  <2>3. ASSUME NEW x \in Nat, IsLeaf(root, x), y1 < x, x <= y2
        PROVE  IsLeaf(h, x)
    <3>1. x1 < x /\ x <= x2
      BY <1>9, <2>3
    <3>2. PICK j \in 1..n : KeyLeaf(d, s[j], x)
      BY <1>2, <1>6, <1>9, <2>3, <3>1
    <3>3. Lo(d, s[j]) < x /\ x <= Hi(d, s[j])
      BY <1>3, <3>2
    <3>4. PICK p \in Nat, q \in Nat : p = Lo(d, s[j]) /\ q = Hi(d, s[j])
      BY <1>1
    <3>5. ~(j < o + 1)
      <4> SUFFICES ASSUME j < o + 1 PROVE FALSE
        OBVIOUS
      <4>1. q <= y1
        BY <1>1, <1>4, <1>9, <3>4
      <4> QED
        BY <2>3, <3>3, <3>4, <4>1
    <3>6. ~(o + 1 < j)
      <4> SUFFICES ASSUME o + 1 < j PROVE FALSE
        OBVIOUS
      <4>1. y2 <= p
        BY <1>1, <1>4, <1>9, <3>4
      <4> QED
        BY <2>3, <3>3, <3>4, <4>1
    <3>7. j = o + 1
      BY <3>5, <3>6
    <3> QED
      BY <1>4, <2>1, <3>2, <3>7
  <2> QED
    BY <2>1, <2>2, <2>3 DEF Inside
<1> QED
  BY <1>10, <1>12, <1>13

(* Gaps that adjoin make a gap. *)
LEMMA GapTrans ==
  ASSUME NEW x \in Nat, NEW y \in Nat, NEW z \in Nat, Gap(x, y), Gap(y, z)
  PROVE  Gap(x, z)
<1> SUFFICES ASSUME NEW v \in Nat, x < v, v <= z, IsLeaf(root, v) PROVE FALSE
  BY DEF Gap
<1>1. v <= y \/ y < v
  OBVIOUS
<1> QED
  BY <1>1 DEF Gap

(* Without an error a block is exhausted only at its end. *)
LEMMA ExhaustedEnd ==
  ASSUME TreeInv, NEW b \in DecodedBlock, BlockGood(b, FALSE), Exhausted(b)
  PROVE  Reached(b) = inodes[b.src].hi /\ Reached(b) \in Nat
<1>1. b.src \in 1..Len(inodes) /\ b.offset \in 0..KeyCount(b)
      /\ ~b.cleared /\ b.child = b.offset
  BY DEF BlockGood
<1>2. /\ KeyCount(b) \in Nat /\ Reached(b) \in Nat
      /\ b.offset = KeyCount(b) => Reached(b) = inodes[b.src].hi
  BY <1>1, BlockFacts
<1>3. b.offset = KeyCount(b)
  <2>1. PICK o \in Nat, k \in Nat : o = b.offset /\ k = KeyCount(b)
    BY <1>1, <1>2
  <2>2. o <= k
    BY <1>1, <2>1
  <2> QED
    BY <1>1, <2>1, <2>2 DEF Exhausted
<1> QED
  BY <1>2, <1>3

(* In an increasing sequence, the next element is the one before which     *)
(* there is none.                                                          *)
LEMMA NextIndex ==
  ASSUME NEW q \in Seq(Nat), NEW n \in Nat, n = Len(q),
         \A i \in 1..n : 0 < q[i],
         \A i, j \in 1..n : i < j => q[i] < q[j],
         NEW p \in 0..n, NEW x \in Nat, p = 0 => x = 0, p # 0 => x = q[p],
         NEW j \in 1..n, x < q[j],
         \A y \in Nat : x < y /\ y <= q[j] - 1 => ~IsIn(q, y)
  PROVE  j = p + 1
<1>1. \A i \in 1..n : q[i] \in Nat
  OBVIOUS
<1>2. ~(j <= p)
  <2> SUFFICES ASSUME j <= p PROVE FALSE
    OBVIOUS
  <2>1. p \in 1..n /\ p # 0
    OBVIOUS
  <2>2. CASE j = p
    BY <1>1, <2>1, <2>2
  <2>3. CASE j # p
    <3>1. j < p
      BY <2>1, <2>3
    <3>2. q[j] < q[p] /\ x = q[p]
      BY <2>1, <3>1
    <3>3. PICK u \in Nat : u = q[j]
      BY <1>1
    <3> QED
      BY <3>2, <3>3
  <2> QED
    BY <2>2, <2>3
<1>3. ~(p + 1 < j)
  <2> SUFFICES ASSUME p + 1 < j PROVE FALSE
    OBVIOUS
  <2>1. p + 1 \in 1..n
    OBVIOUS
  <2>2. PICK u \in Nat, v \in Nat : u = q[p + 1] /\ v = q[j] /\ u < v
    BY <1>1, <2>1
  <2>3. x < u
    <3>1. CASE p = 0
      BY <2>1, <2>2, <3>1
    <3>2. CASE p # 0
      <4>1. p \in 1..n /\ p < p + 1
        BY <3>2
      <4> QED
        BY <2>1, <2>2, <3>2, <4>1
    <3> QED
      BY <3>1, <3>2
  <2>4. IsIn(q, u)
    BY <2>1, <2>2 DEF IsIn
  <2>5. u <= v - 1
    BY <2>2
  <2> QED
    BY <2>2, <2>3, <2>4, <2>5
<1> QED
  BY <1>2, <1>3

(* The leaves of the tree. *)
LEMMA RootSequence ==
  ASSUME TreeInv, result = "ok", NEW q, q = Leaves(inodes, root)
  PROVE  /\ q \in Seq(Nat) /\ Len(q) \in Nat
         /\ \A i \in 1..Len(q) : 0 < q[i] /\ q[i] <= inodes[root].hi
         /\ \A i, j \in 1..Len(q) : i < j => q[i] < q[j]
         /\ \A x : IsLeaf(root, x) <=> IsIn(q, x)
<1>1. PICK a \in Nat : a = inodes[root].lo
  BY RootLeaves
<1>2. Ordered(q, a, inodes[root].hi)
  BY <1>1, RootLeaves
<1>3. /\ q \in Seq(Nat) /\ \A i \in 1..Len(q) : a < q[i] /\ q[i] <= inodes[root].hi
      /\ \A i, j \in 1..Len(q) : i < j => q[i] < q[j]
  BY <1>2 DEF Ordered
<1>4. ASSUME NEW i \in 1..Len(q) PROVE 0 < q[i]
  <2>1. q[i] \in Nat /\ a < q[i]
    BY <1>3
  <2> QED
    BY <2>1
<1>5. \A x : IsLeaf(root, x) <=> IsIn(q, x)
  BY DEF IsLeaf
<1>6. Len(q) \in Nat
  BY <1>3
<1> QED
  BY <1>3, <1>4, <1>5, <1>6

(* The data block that follows in the tree is loaded. *)
LEMMA NextLocated ==
  ASSUME TreeInv, result = "ok", NEW q, q = Leaves(inodes, root),
         NEW d, d.block \in Nat, d.block = 0 \/ d.offset = BlockSize,
         NEW h \in Nat, d.block < h, IsLeaf(root, h), Gap(d.block, h - 1),
         NEW s \in Seq(Nat), Located(q, s, d)
  PROVE  Located(q, s, DecodedData(h))
<1>1. PICK n \in Nat : n = Len(q)
  BY RootSequence
<1>2. /\ q \in Seq(Nat) /\ \A i \in 1..n : 0 < q[i]
      /\ \A i, j \in 1..n : i < j => q[i] < q[j]
      /\ \A x : IsLeaf(root, x) <=> IsIn(q, x)
  BY <1>1, RootSequence
<1>3. PICK j \in 1..n : q[j] = h
  BY <1>1, <1>2 DEF IsIn
<1>4. PICK x \in Nat : x = d.block
  OBVIOUS
<1>5. x < q[j] /\ \A y \in Nat : x < y /\ y <= q[j] - 1 => ~IsIn(q, y)
  BY <1>2, <1>3, <1>4 DEF Gap
<1>6. DecodedData(h).block = h /\ DecodedData(h).offset = 0
  BY DEF DecodedData
<1>7. PICK z \in Nat : z = BlockSize
  BY BlockSizeAssumption
<1>8. CASE d.block = 0 /\ s = <<>>
  <2>1. 0 \in 0..n /\ x = 0
    BY <1>4, <1>8
  <2>2. j = 0 + 1
    BY <1>1, <1>2, <1>5, <2>1, NextIndex
  <2>3. Len(s) = (1 - 1) * z + 0 /\ j = 1
    BY <1>8, <2>2
  <2> QED
    BY <1>1, <1>3, <1>6, <1>7, <2>3 DEF Located
<1>9. CASE \E k \in 1..Len(q) : d.block = q[k] /\ Len(s) = (k - 1) * BlockSize + d.offset
  <2>1. PICK k \in 1..n : d.block = q[k] /\ Len(s) = (k - 1) * BlockSize + d.offset
    BY <1>1, <1>9
  <2>2. k \in 0..n /\ k # 0 /\ x = q[k] /\ 0 < q[k]
    BY <1>2, <1>4, <2>1
  <2>3. j = k + 1
    BY <1>1, <1>2, <1>5, <2>2, NextIndex
  <2>4. d.offset = z
    BY <1>4, <1>7, <2>2
  <2>5. (k - 1) * z + z = (j - 1) * z + 0
    <3>1. PICK m \in Nat : k = m + 1
      <4>1. k - 1 \in Nat /\ k = (k - 1) + 1
        OBVIOUS
      <4> QED
        BY <4>1
    <3>2. (m + 1) * z = m * z + z /\ m * z \in Nat
      OBVIOUS
    <3>3. k - 1 = m /\ j - 1 = m + 1
      BY <2>3, <3>1
    <3> QED
      BY <3>2, <3>3
  <2>6. Len(s) = (j - 1) * BlockSize + 0
    BY <1>7, <2>1, <2>4, <2>5
  <2> QED
    BY <1>1, <1>3, <1>6, <2>6 DEF Located
<1> QED
  BY <1>8, <1>9 DEF Located

(* At the end of the tree all of it was delivered. *)
LEMMA EndLocated ==
  ASSUME TreeInv, result = "ok", NEW q, q = Leaves(inodes, root),
         NEW d, d.block \in Nat, d.block # 0, d.offset = BlockSize,
         Gap(d.block, inodes[root].hi), NEW s \in Seq(Nat), Located(q, s, d)
  PROVE  Len(s) = Len(q) * BlockSize
<1>1. PICK n \in Nat : n = Len(q)
  BY RootSequence
<1>2. /\ q \in Seq(Nat) /\ \A i \in 1..n : 0 < q[i] /\ q[i] <= inodes[root].hi
      /\ \A i, j \in 1..n : i < j => q[i] < q[j]
      /\ \A x : IsLeaf(root, x) <=> IsIn(q, x)
  BY <1>1, RootSequence
<1>3. PICK k \in 1..n : d.block = q[k] /\ Len(s) = (k - 1) * BlockSize + d.offset
  BY <1>1 DEF Located
<1>4. k = n
  <2> SUFFICES ASSUME k # n PROVE FALSE
    OBVIOUS
  <2>1. n \in 1..n /\ k < n
    OBVIOUS
  <2>5. q[n] \in Nat
    BY <1>1, <1>2, <2>1
  <2>6. q[n] <= inodes[root].hi
    BY <1>2, <2>1, Zenon
  <2>7. q[k] < q[n]
    BY <1>2, <2>1, Zenon
  <2>2. q[k] < q[n] /\ q[n] <= inodes[root].hi /\ q[n] \in Nat
    BY <2>5, <2>6, <2>7
  <2>3. IsIn(q, q[n])
    BY <1>1, <2>1 DEF IsIn
  <2>4. IsLeaf(root, q[n])
    BY <1>2, <2>3
  <2> QED
    BY <1>3, <2>2, <2>4 DEF Gap
<1>5. PICK z \in Nat : z = BlockSize
  BY BlockSizeAssumption
<1>6. (n - 1) * z + z = n * z
  <2>1. PICK m \in Nat : n = m + 1
    <3>1. n - 1 \in Nat /\ n = (n - 1) + 1
      BY <1>3
    <3> QED
      BY <3>1
  <2>2. (m + 1) * z = m * z + z /\ n - 1 = m
    BY <2>1
  <2> QED
    BY <2>1, <2>2
<1> QED
  BY <1>1, <1>3, <1>4, <1>5, <1>6

-----------------------------------------------------------------------------
(* The steps of the stream, judged by the tree before the step. *)
LEMMA LeafTransfer ==
  ASSUME UNCHANGED vars,
         result = "ok" /\ ~sawError' =>
           /\ Searched(rpc', chain', data', at') /\ Begins(delivered', ret')
           /\ rpc' # "closed" => Located(Leaves(inodes, root), delivered', data')
  PROVE  LeafInv'
<1>1. inodes' = inodes /\ root' = root /\ result' = result
  BY DEF vars
<1>2. Content' = Content
  BY <1>1 DEF Content
<1>3. \A r, x : IsLeaf(r, x)' <=> IsLeaf(r, x)
  BY <1>1 DEF IsLeaf, IsIn
<1>4. \A x, y : Gap(x, y)' <=> Gap(x, y)
  BY <1>1, <1>3 DEF Gap
<1>5. \A r : Inside(r)' <=> Inside(r)
  BY <1>1, <1>3 DEF Inside
<1>6. \A b : Reached(b)' = Reached(b)
  BY <1>1 DEF Reached, Hi
<1> QED
  BY <1>1, <1>2, <1>4, <1>5, <1>6 DEF LeafInv, Searched, Begins, Located

(* Steps that fetch and copy nothing. *)
LEMMA QuietLeaves ==
  ASSUME ReadInv, LeafInv, result = "ok", UNCHANGED vars,
         \/ \E size \in Sizes : Read(size) \/ ReadGarbage(size)
         \/ CopyDone \/ NextBlock \/ Close \/ FetchRootFails
         \/ FetchFirstChildFails \/ FetchChildFails
  PROVE  LeafInv'
<1> SUFFICES ASSUME ~sawError'
             PROVE  /\ Searched(rpc', chain', data', at') /\ Begins(delivered', ret')
                    /\ rpc' # "closed" => Located(Leaves(inodes, root), delivered', data')
  BY LeafTransfer
<1>1. StreamTypes /\ StreamControl
  BY DEF ReadInv, StreamInv
<1>2. ~sawError => /\ Searched(rpc, chain, data, at) /\ Begins(delivered, ret)
                   /\ rpc # "closed" => Located(Leaves(inodes, root), delivered, data)
  BY DEF LeafInv
<1>3. ASSUME NEW size \in Sizes, Read(size)
      PROVE  /\ Searched(rpc', chain', data', at') /\ Begins(delivered', ret')
             /\ rpc' # "closed" => Located(Leaves(inodes, root), delivered', data')
  <2>1. /\ chain' = chain /\ data' = data /\ at' = at /\ ret' = ret /\ delivered' = delivered
        /\ ~sawError /\ rpc = "idle" /\ rpc' \in {"open", "copy"}
    BY <1>3 DEF Read
  <2>2. Searched(rpc', chain', data', at')
    BY <1>2, <2>1 DEF Searched
  <2> QED
    BY <1>2, <2>1, <2>2
<1>4. ASSUME NEW size \in Sizes, ReadGarbage(size) PROVE FALSE
  <2>1. sawError = TRUE
    BY <1>1, <1>4 DEF ReadGarbage, StreamControl, StreamTypes
  <2>2. sawError' = sawError \/ sawError' = (sawError \/ "STREAM_END" = "error")
    BY <1>4 DEF ReadGarbage, ReadReturns
  <2> QED
    BY <2>1, <2>2
<1>5. ASSUME FetchRootFails \/ FetchFirstChildFails \/ FetchChildFails PROVE FALSE
  BY <1>5 DEF FetchRootFails, FetchFirstChildFails, FetchChildFails, ReadReturns
<1>6. ASSUME CopyDone
      PROVE  /\ Searched(rpc', chain', data', at') /\ Begins(delivered', ret')
             /\ rpc' # "closed" => Located(Leaves(inodes, root), delivered', data')
  <2>1. /\ chain' = chain /\ data' = data /\ delivered' = delivered /\ ret' = "ok"
        /\ ~sawError /\ rpc = "copy" /\ rpc' = "idle"
    BY <1>1, <1>6 DEF CopyDone, ReadReturns, StreamTypes
  <2>2. Searched(rpc', chain', data', at')
    BY <1>2, <2>1 DEF Searched
  <2>3. Begins(delivered', ret')
    BY <1>2, <2>1 DEF Begins
  <2> QED
    BY <1>2, <2>1, <2>2, <2>3
<1>7. ASSUME NextBlock
      PROVE  /\ Searched(rpc', chain', data', at') /\ Begins(delivered', ret')
             /\ rpc' # "closed" => Located(Leaves(inodes, root), delivered', data')
  <2>1. /\ chain' = chain /\ data' = data /\ delivered' = delivered /\ ret' = ret
        /\ ~sawError /\ rpc = "copy" /\ rpc' = "climb" /\ at' = Len(chain)
    BY <1>1, <1>7 DEF NextBlock, Bottom
  <2>2. Searched(rpc', chain', data', at')
    BY <1>2, <2>1 DEF Searched
  <2> QED
    BY <1>2, <2>1, <2>2
<1>8. ASSUME Close
      PROVE  /\ Searched(rpc', chain', data', at') /\ Begins(delivered', ret')
             /\ rpc' # "closed" => Located(Leaves(inodes, root), delivered', data')
  <2>1. /\ chain' = <<>> /\ delivered' = delivered /\ ret' = ret
        /\ ~sawError /\ rpc' = "closed"
    BY <1>8 DEF Close
  <2> QED
    BY <1>2, <2>1 DEF Searched
<1> QED
  BY <1>3, <1>4, <1>5, <1>6, <1>7, <1>8

(* What the invariants say of the decoded blocks when no call failed. *)
LEMMA NoErrorFacts ==
  ASSUME ReadInv, LeafInv, result = "ok", ~sawError
  PROVE  /\ TreeInv /\ chain \in Seq(DecodedBlock) /\ Len(chain) \in Nat /\ at \in Nat
         /\ data.block \in Nat /\ delivered \in Seq(Nat)
         /\ Searched(rpc, chain, data, at) /\ Begins(delivered, ret)
         /\ rpc # "closed" => Located(Leaves(inodes, root), delivered, data)
         /\ \A l \in 1..Len(chain) :
              /\ chain[l] \in DecodedBlock /\ BlockGood(chain[l], FALSE)
              /\ chain[l].src \in 1..Len(inodes) /\ chain[l].offset \in 0..KeyCount(chain[l])
              /\ Reached(chain[l]) \in Nat /\ inodes[chain[l].src].hi \in Nat
              /\ inodes[chain[l].src].depth \in Nat
         /\ DataGood(rpc, chain, garbage, data, at, FALSE)
<1>1. /\ StreamTypes /\ TreeInv /\ ChainGood(chain, sawError)
      /\ DataGood(rpc, chain, garbage, data, at, sawError)
  BY DEF ReadInv, StreamInv
<1>2. sawError = FALSE
  BY <1>1 DEF StreamTypes
<1>3. /\ chain \in Seq(DecodedBlock) /\ Len(chain) \in Nat /\ at \in Nat
      /\ data.block \in Nat /\ delivered \in Seq(Nat)
  BY <1>1 DEF StreamTypes
<1>4. ASSUME NEW l \in 1..Len(chain)
      PROVE  /\ chain[l] \in DecodedBlock /\ BlockGood(chain[l], FALSE)
             /\ chain[l].src \in 1..Len(inodes) /\ chain[l].offset \in 0..KeyCount(chain[l])
             /\ Reached(chain[l]) \in Nat /\ inodes[chain[l].src].hi \in Nat
             /\ inodes[chain[l].src].depth \in Nat
  <2>1. chain[l] \in DecodedBlock
    BY <1>3
  <2>2. BlockGood(chain[l], FALSE)
    BY <1>1, <1>2 DEF ChainGood
  <2>3. chain[l].src \in 1..Len(inodes) /\ chain[l].offset \in 0..KeyCount(chain[l])
    BY <2>2 DEF BlockGood
  <2> QED
    BY <1>1, <2>1, <2>2, <2>3, BlockFacts
<1>5. /\ Searched(rpc, chain, data, at) /\ Begins(delivered, ret)
      /\ rpc # "closed" => Located(Leaves(inodes, root), delivered, data)
  BY <1>2 DEF LeafInv
<1>6. DataGood(rpc, chain, garbage, data, at, FALSE)
  BY <1>1, <1>2
<1> QED
  BY <1>1, <1>3, <1>4, <1>5, <1>6

LEMMA ClimbLeaves ==
  ASSUME ReadInv, LeafInv, result = "ok", UNCHANGED vars, Climb
  PROVE  LeafInv'
<1>1. /\ chain' = chain /\ data' = data /\ at' = at - 1 /\ ret' = ret
      /\ delivered' = delivered /\ sawError' = sawError
      /\ rpc = "climb" /\ rpc' = "climb" /\ at > 1 /\ Exhausted(chain[at])
  BY DEF Climb
<1> SUFFICES ASSUME ~sawError PROVE Searched(rpc', chain', data', at')
  <2>1. ~sawError => Begins(delivered, ret) /\ Located(Leaves(inodes, root), delivered, data)
    BY <1>1, NoErrorFacts
  <2> QED
    BY <1>1, <2>1, LeafTransfer
<1>2. at \in 1..Len(chain) /\ chain # <<>>
  BY <1>1 DEF ReadInv, StreamInv, StreamControl
<1>3. PICK c \in Seq(DecodedBlock), a \in Nat, n \in Nat :
         c = chain /\ a = at /\ n = Len(c) /\ a \in 1..n /\ a > 1
  <2>1. chain \in Seq(DecodedBlock) /\ at \in Nat /\ Len(chain) \in Nat
    BY NoErrorFacts
  <2> QED
    BY <1>1, <1>2, <2>1, Zenon
<1>4. a - 1 \in 1..n /\ a - 1 \in 1..(n - 1) /\ (a - 1) + 1 = a
  BY <1>3
<1>5. /\ \A l \in 1..n : Inside(c[l].src)
      /\ \A l \in 1..(n - 1) : Gap(inodes[c[l + 1].src].hi, Reached(c[l]))
      /\ Gap(data.block, Reached(c[a])) /\ Gap(data.block, Reached(c[n])) /\ c # <<>>
  BY <1>1, <1>2, <1>3, NoErrorFacts DEF Searched
<1>6. PICK x \in Nat, y \in Nat, z \in Nat :
         x = data.block /\ y = inodes[c[a].src].hi /\ z = Reached(c[a - 1])
  BY <1>3, <1>4, NoErrorFacts
<1>7. Reached(c[a]) = y
  <2>1. c[a] \in DecodedBlock /\ BlockGood(c[a], FALSE) /\ TreeInv /\ Exhausted(c[a])
    BY <1>1, <1>3, NoErrorFacts
  <2> QED
    BY <1>6, <2>1, ExhaustedEnd
<1>8. Gap(y, z)
  BY <1>4, <1>5, <1>6
<1>9. Gap(x, z)
  BY <1>5, <1>6, <1>7, <1>8, GapTrans
<1> QED
  BY <1>1, <1>3, <1>5, <1>6, <1>9 DEF Searched

LEMMA StreamEndLeaves ==
  ASSUME ReadInv, LeafInv, result = "ok", UNCHANGED vars, StreamEnd
  PROVE  LeafInv'
<1>0. StreamTypes /\ StreamControl
  BY DEF ReadInv, StreamInv
<1>1. /\ chain' = chain /\ data' = data /\ delivered' = delivered
      /\ rpc = "climb" /\ rpc' = "idle" /\ at = 1 /\ Exhausted(chain[1])
      /\ sawError' = sawError
  BY <1>0 DEF StreamEnd, ReadReturns, StreamTypes
<1>2. at \in 1..Len(chain) /\ chain # <<>> /\ data.offset >= data.size /\ ~garbage
  BY <1>0, <1>1 DEF StreamControl
<1> SUFFICES ASSUME ~sawError
             PROVE  Searched(rpc', chain', data', at') /\ Begins(delivered', ret')
  <2>1. ~sawError => Located(Leaves(inodes, root), delivered, data)
    BY <1>1, NoErrorFacts
  <2> QED
    BY <1>1, <2>1, LeafTransfer
<1>3. PICK n \in Nat : n = Len(chain) /\ 1 \in 1..n /\ n \in 1..n
  BY <1>1, <1>2, NoErrorFacts
<1>4. /\ \A l \in 1..n : Inside(chain[l].src)
      /\ \A l \in 1..(n - 1) : Gap(inodes[chain[l + 1].src].hi, Reached(chain[l]))
      /\ Gap(data.block, Reached(chain[1])) /\ Gap(data.block, Reached(chain[n]))
  BY <1>1, <1>2, <1>3, NoErrorFacts DEF Searched
<1>5. /\ chain[1].src = root /\ Precise(data.block, Reached(chain[n]), FALSE)
      /\ data.block \in 1..nblocks /\ data.offset \in 0..BlockSize /\ data.size = BlockSize
  BY <1>1, <1>2, <1>3, NoErrorFacts DEF DataGood
<1>6. Reached(chain[1]) = inodes[root].hi
  <2>1. chain[1] \in DecodedBlock /\ BlockGood(chain[1], FALSE) /\ TreeInv
    BY <1>3, NoErrorFacts
  <2> QED
    BY <1>1, <1>5, <2>1, ExhaustedEnd
<1>7. Len(delivered) = Len(Content)
  <2>1. PICK q : q = Leaves(inodes, root)
    OBVIOUS
  <2>2. TreeInv /\ delivered \in Seq(Nat) /\ Located(q, delivered, data) /\ data.block \in Nat
    BY <1>1, <2>1, NoErrorFacts
  <2>3. data.block # 0 /\ data.offset = BlockSize
    <3>1. nblocks \in Nat
      BY <2>2 DEF TreeInv, IInv, Shape, TypeOK
    <3> QED
      BY <1>2, <1>5, <3>1, BlockSizeAssumption
  <2>4. Len(delivered) = Len(q) * BlockSize
    BY <1>4, <1>6, <2>1, <2>2, <2>3, EndLocated
  <2>5. Len(Content) = Len(q) * BlockSize
    <3>1. q \in Seq(Nat) /\ Len(q) \in Nat /\ \A i \in 1..Len(q) : 0 < q[i]
      BY <2>1, <2>2, RootSequence
    <3>2. \A i \in 1..Len(q) : q[i] >= 1
      BY <3>1
    <3> QED
      BY <2>1, <3>1, <3>2, ContentFacts
  <2> QED
    BY <2>4, <2>5
<1>8. Begins(delivered', ret')
  <2>1. Begins(delivered, ret)
    BY NoErrorFacts
  <2> QED
    BY <1>1, <1>7, <2>1 DEF Begins
<1> QED
  BY <1>1, <1>3, <1>4, <1>8 DEF Searched

LEMMA FetchRootLeaves ==
  ASSUME ReadInv, LeafInv, result = "ok", UNCHANGED vars, FetchRoot
  PROVE  LeafInv'
<1>1. /\ chain' = <<Decoded(root)>> /\ data' = data /\ ret' = ret
      /\ delivered' = delivered /\ sawError' = sawError
      /\ rpc = "open" /\ rpc' = "descend"
  BY DEF FetchRoot
<1> SUFFICES ASSUME ~sawError PROVE Searched(rpc', chain', data', at')
  <2>1. ~sawError => Begins(delivered, ret) /\ Located(Leaves(inodes, root), delivered, data)
    BY <1>1, NoErrorFacts
  <2> QED
    BY <1>1, <2>1, LeafTransfer
<1>2. data.block = 0
  BY <1>1 DEF ReadInv, StreamInv, StreamControl, NoData
<1>3. PICK y : y = Decoded(root)
  OBVIOUS
<1>4. y.src = root /\ Reached(y) = inodes[root].lo
  BY <1>3 DEF Decoded, Reached
<1>5. Inside(root) /\ Gap(0, inodes[root].lo)
  BY InsideRoot DEF ReadInv
<1>6. chain' = <<y>> /\ Len(chain') = 1 /\ chain'[1] = y
  BY <1>1, <1>3
<1>7. \A l \in 1..(Len(chain') - 1) : FALSE
  BY <1>6
<1>8. \A l \in 1..Len(chain') : l = 1
  BY <1>6
<1> QED
  BY <1>1, <1>2, <1>4, <1>5, <1>6, <1>7, <1>8 DEF Searched

(* A block of depth d, loaded from inode i, has given its key h and is v   *)
(* since: what h is, and that no leaf lies between x and h.                *)
Taken(x, d, h, i, v) ==
    /\ Gap(x, Lo(d, h)) /\ Lo(d, h) \in Nat /\ Hi(d, h) \in Nat
    /\ Reached(v) = Hi(d, h) /\ v.src = i
    /\ d # 0 => /\ Inside(h) /\ Hi(d, h) = inodes[h].hi
                /\ Reached(Decoded(h)) = Lo(d, h) /\ Decoded(h).src = h
    /\ d = 0 => IsLeaf(root, h) /\ Hi(d, h) = h /\ Lo(d, h) = h - 1 /\ h \in Nat

LEMMA KeyTaken ==
  ASSUME TreeInv, result = "ok", NEW b \in DecodedBlock, BlockGood(b, FALSE), ~Exhausted(b),
         Inside(b.src), NEW d \in Nat, d = inodes[b.src].depth, NEW h, h = NextKey(b),
         NEW x \in Nat, Gap(x, Reached(b)), NEW v, v = Consumed(b, b.child + 1)
  PROVE  Taken(x, d, h, b.src, v)
<1>1. b.src \in 1..Len(inodes) /\ b.offset \in 0..KeyCount(b)
  BY DEF BlockGood
<1>2. KeyCount(b) \in Nat /\ Reached(b) \in Nat
  BY <1>1, BlockFacts
<1>3. b.offset # KeyCount(b)
  BY <1>1, <1>2 DEF Exhausted
<1>4. KeyOK(d, h) /\ Lo(d, h) \in Nat /\ Hi(d, h) \in Nat
  BY <1>1, <1>3, BlockFacts
<1>5. Gap(Reached(b), Lo(d, h))
  BY <1>1, <1>3, NextInside
<1>6. Gap(x, Lo(d, h))
  BY <1>2, <1>4, <1>5, GapTrans
<1>8. v.src = b.src /\ Reached(v) = Hi(d, h)
  <2>1. b.child + 1 \in {b.child, b.child + 1} /\ FALSE \in BOOLEAN
    OBVIOUS
  <2> QED
    BY <1>3, <2>1, KeyConsumed
<1>9. ASSUME d = 0 PROVE Hi(d, h) = h /\ Lo(d, h) = h - 1 /\ h \in Nat
  <2>1. h \in 1..nblocks /\ nblocks \in Nat
    BY <1>4, <1>9 DEF KeyOK, TreeInv, IInv, Shape, TypeOK
  <2> QED
    BY <1>9, <2>1 DEF Hi, Lo
<1>10. ASSUME d # 0
       PROVE  Hi(d, h) = inodes[h].hi /\ Reached(Decoded(h)) = Lo(d, h) /\ Decoded(h).src = h
  <2>1. Decoded(h).src = h /\ Decoded(h).offset = 0
    BY DEF Decoded
  <2> QED
    BY <1>10, <2>1 DEF Hi, Lo, Reached
<1>11. d # 0 => Inside(h)
  BY <1>1, <1>3, NextInside
<1>12. d = 0 => IsLeaf(root, h)
  BY <1>1, <1>3, NextInside
<1> QED
  BY <1>4, <1>6, <1>8, <1>9, <1>10, <1>11, <1>12 DEF Taken

LEMMA FetchFirstChildLeaves ==
  ASSUME ReadInv, LeafInv, result = "ok", UNCHANGED vars, FetchFirstChild
  PROVE  LeafInv'
<1>0. StreamTypes /\ StreamControl
  BY DEF ReadInv, StreamInv
<1>1. ret' = ret /\ delivered' = delivered /\ rpc = "descend" /\ sawError' = sawError
  BY DEF FetchFirstChild
<1> SUFFICES ASSUME ~sawError
             PROVE  /\ Searched(rpc', chain', data', at')
                    /\ Located(Leaves(inodes, root), delivered', data')
  <2>1. ~sawError => Begins(delivered, ret)
    BY NoErrorFacts
  <2> QED
    BY <1>1, <2>1, LeafTransfer
<1>2. chain # <<>> /\ delivered = <<>> /\ data = NoData /\ data.block = 0
  BY <1>0, <1>1 DEF StreamControl, NoData
<1>3. PICK c \in Seq(DecodedBlock), n \in Nat : c = chain /\ n = Len(c) /\ n \in 1..n
  <2>1. chain \in Seq(DecodedBlock) /\ Len(chain) \in Nat
    BY NoErrorFacts
  <2>2. Len(chain) \in 1..Len(chain)
    BY <1>2, <2>1
  <2> QED
    BY <2>1, <2>2, Zenon
<1>4. PICK d \in Nat : d = inodes[c[n].src].depth
  BY <1>3, NoErrorFacts
<1>5. PICK h, x : h = NextKey(c[n]) /\ x = Consumed(c[n], c[n].child + 1)
  OBVIOUS
<1>6. /\ c[n] \in DecodedBlock /\ BlockGood(c[n], FALSE) /\ TreeInv
      /\ c[n] = Decoded(c[n].src)
  <2>1. DataGood(rpc, chain, garbage, data, at, FALSE)
    BY NoErrorFacts
  <2>2. c[n] = Decoded(c[n].src)
    BY <1>1, <1>2, <1>3, <2>1 DEF DataGood
  <2> QED
    BY <1>3, <2>2, NoErrorFacts
<1>7. ~Exhausted(c[n])
  <2>1. c[n].src \in 1..Len(inodes) /\ c[n].offset \in 0..KeyCount(c[n])
    BY <1>6 DEF BlockGood
  <2>2. KeyCount(c[n]) \in Nat \ {0}
    BY <1>6, <2>1, BlockFacts
  <2>3. PICK i : i = c[n].src
    OBVIOUS
  <2>4. Decoded(i).offset = 0 /\ Decoded(i).child = 0 /\ Decoded(i).cleared = FALSE
    BY DEF Decoded
  <2>5. c[n].offset = 0 /\ c[n].child = 0 /\ c[n].cleared = FALSE
    BY <1>6, <2>3, <2>4
  <2> QED
    BY <2>2, <2>5 DEF Exhausted
<1>8. /\ \A l \in 1..n : Inside(c[l].src)
      /\ \A l \in 1..(n - 1) : Gap(inodes[c[l + 1].src].hi, Reached(c[l]))
      /\ Gap(0, Reached(c[n]))
  BY <1>1, <1>2, <1>3, NoErrorFacts DEF Searched
<1>9. /\ Gap(0, Lo(d, h)) /\ Lo(d, h) \in Nat /\ Hi(d, h) \in Nat
      /\ Reached(x) = Hi(d, h) /\ x.src = c[n].src
      /\ d # 0 => /\ Inside(h) /\ Hi(d, h) = inodes[h].hi
                  /\ Reached(Decoded(h)) = Lo(d, h) /\ Decoded(h).src = h
      /\ d = 0 => IsLeaf(root, h) /\ Hi(d, h) = h /\ Lo(d, h) = h - 1 /\ h \in Nat
  <2>1. PICK b \in DecodedBlock : b = c[n]
    BY <1>6
  <2>2. /\ TreeInv /\ BlockGood(b, FALSE) /\ ~Exhausted(b) /\ Inside(b.src)
        /\ d = inodes[b.src].depth /\ h = NextKey(b) /\ Gap(0, Reached(b)) /\ 0 \in Nat
        /\ x = Consumed(b, b.child + 1)
    BY <1>3, <1>4, <1>5, <1>6, <1>7, <1>8, <2>1
  <2>3. Taken(0, d, h, b.src, x)
    BY <2>2, KeyTaken, Zenon
  <2> QED
    BY <2>1, <2>3 DEF Taken
<1>10. PICK g : g = Consume(Bottom, TRUE) /\ g = [c EXCEPT ![n] = x]
  BY <1>3, <1>5 DEF Consume, Consumed, Bottom
<1>11. /\ Len(g) = n /\ g[n] = x /\ g \in Seq(DecodedBlock)
       /\ \A l \in 1..n : l # n => g[l] = c[l]
  <2>1. x \in DecodedBlock
    <3>1. PICK o \in Nat, m \in Nat : o = c[n].offset + 1 /\ m = c[n].child + 1
      BY <1>6, SMTT(30) DEF DecodedBlock
    <3>2. x = [src |-> c[n].src, offset |-> o, child |-> m, cleared |-> c[n].cleared]
      BY <1>5, <1>6, <3>1 DEF Consumed, DecodedBlock
    <3>3. c[n].src \in Nat /\ c[n].cleared \in BOOLEAN
      BY <1>6 DEF DecodedBlock
    <3> QED
      BY <3>2, <3>3 DEF DecodedBlock
  <2>2. g = [c EXCEPT ![n] = x]
    BY <1>10
  <2> QED
    BY <1>3, <2>1, <2>2
<1>12. /\ \A l \in 1..n : Inside(g[l].src)
       /\ \A l \in 1..(n - 1) : Gap(inodes[g[l + 1].src].hi, Reached(g[l]))
  <2>1. ASSUME NEW l \in 1..n PROVE g[l].src = c[l].src
    BY <1>9, <1>11
  <2>2. ASSUME NEW l \in 1..(n - 1) PROVE Gap(inodes[g[l + 1].src].hi, Reached(g[l]))
    <3>1. l \in 1..n /\ l + 1 \in 1..n /\ l # n
      OBVIOUS
    <3>2. g[l] = c[l] /\ g[l + 1].src = c[l + 1].src
      BY <1>11, <2>1, <3>1
    <3> QED
      BY <1>8, <3>2
  <2> QED
    BY <1>8, <2>1, <2>2
<1>13. CASE ChildrenAreKeyBlocks(c[n])
  <2>1. d # 0
    BY <1>4, <1>13 DEF ChildrenAreKeyBlocks
  <2>2. PICK y : y = Decoded(h)
    OBVIOUS
  <2>3. chain' = Append(g, y) /\ rpc' = "descend" /\ data' = data
    BY <1>1, <1>3, <1>5, <1>10, <1>13, <2>2 DEF FetchFirstChild, Bottom
  <2>4. /\ Len(chain') = n + 1 /\ chain'[n + 1] = y /\ \A l \in 1..n : chain'[l] = g[l]
        /\ chain' # <<>>
    BY <1>11, <2>3
  <2>5. ASSUME NEW l \in 1..(n + 1) PROVE Inside(chain'[l].src)
    <3>1. l \in 1..n \/ l = n + 1
      OBVIOUS
    <3> QED
      BY <1>9, <1>12, <2>1, <2>2, <2>4, <3>1
  <2>6. ASSUME NEW l \in 1..n PROVE Gap(inodes[chain'[l + 1].src].hi, Reached(chain'[l]))
    <3>1. CASE l = n
      <4>1. inodes[chain'[l + 1].src].hi = Hi(d, h) /\ Reached(chain'[l]) = Hi(d, h)
        BY <1>9, <1>11, <2>1, <2>2, <2>4, <3>1
      <4>2. Gap(Hi(d, h), Hi(d, h))
        BY <1>9 DEF Gap
      <4> QED
        BY <4>1, <4>2
    <3>2. CASE l # n
      <4>1. l \in 1..(n - 1) /\ l + 1 \in 1..n
        BY <3>2
      <4> QED
        BY <1>12, <2>4, <4>1
    <3> QED
      BY <3>1, <3>2
  <2>7. (n + 1) - 1 = n
    OBVIOUS
  <2>8. Gap(0, Reached(y))
    BY <1>9, <2>1, <2>2
  <2>9. Searched(rpc', chain', data', at')
    BY <1>2, <2>3, <2>4, <2>5, <2>6, <2>7, <2>8 DEF Searched
  <2>10. Located(Leaves(inodes, root), delivered', data')
    BY <1>1, <1>2, <2>3 DEF Located
  <2> QED
    BY <2>9, <2>10
<1>14. CASE ~ChildrenAreKeyBlocks(c[n])
  <2>1. d = 0
    BY <1>4, <1>14 DEF ChildrenAreKeyBlocks
  <2>2. chain' = g /\ rpc' = "copy" /\ data' = DecodedData(h)
    BY <1>3, <1>5, <1>10, <1>14 DEF FetchFirstChild, Bottom
  <2>3. data'.block = h
    BY <2>2 DEF DecodedData
  <2>4. Gap(h, Reached(x))
    BY <1>9, <2>1 DEF Gap
  <2>5. Searched(rpc', chain', data', at')
    BY <1>11, <1>12, <2>2, <2>3, <2>4 DEF Searched
  <2>6. Located(Leaves(inodes, root), delivered', data')
    <3>1. PICK q : q = Leaves(inodes, root)
      OBVIOUS
    <3>2. Located(q, delivered, data) /\ delivered \in Seq(Nat)
      BY <1>1, <3>1, NoErrorFacts
    <3>3. h \in Nat /\ IsLeaf(root, h) /\ Gap(0, h - 1) /\ h > 0
      <4>1. h \in Nat /\ IsLeaf(root, h) /\ Gap(0, h - 1) /\ h - 1 \in Nat
        BY <1>9, <2>1
      <4> QED
        BY <4>1
    <3>4. Located(q, delivered, DecodedData(h))
      <4>1. PICK t : t = data
        OBVIOUS
      <4>2. /\ TreeInv /\ q = Leaves(inodes, root) /\ t.block \in Nat
            /\ t.block = 0 \/ t.offset = BlockSize
        BY <1>2, <1>6, <3>1, <4>1
      <4>3. t.block < h /\ Gap(t.block, h - 1) /\ Located(q, delivered, t)
        BY <1>2, <3>2, <3>3, <4>1
      <4> QED
        BY <3>2, <3>3, <4>2, <4>3, NextLocated
    <3> QED
      BY <1>1, <2>2, <3>1, <3>4
  <2> QED
    BY <2>5, <2>6
<1> QED
  BY <1>13, <1>14

(* The search goes on with the next key of the block at level a. *)
LEMMA FetchChildLeaves ==
  ASSUME ReadInv, LeafInv, result = "ok", UNCHANGED vars, FetchChild
  PROVE  LeafInv'
<1>0. StreamTypes /\ StreamControl
  BY DEF ReadInv, StreamInv
<1>1. /\ ret' = ret /\ delivered' = delivered /\ rpc = "climb" /\ sawError' = sawError
      /\ ~Exhausted(chain[at])
  BY DEF FetchChild
<1> SUFFICES ASSUME ~sawError
             PROVE  /\ Searched(rpc', chain', data', at')
                    /\ Located(Leaves(inodes, root), delivered', data')
  <2>1. ~sawError => Begins(delivered, ret)
    BY NoErrorFacts
  <2> QED
    BY <1>1, <2>1, LeafTransfer
<1>2. chain # <<>> /\ at \in 1..Len(chain) /\ data.offset >= data.size /\ ~garbage
  BY <1>0, <1>1 DEF StreamControl
<1>3. PICK c \in Seq(DecodedBlock), n \in Nat, a \in Nat :
         c = chain /\ n = Len(c) /\ a = at /\ a \in 1..n
  <2>1. chain \in Seq(DecodedBlock) /\ Len(chain) \in Nat /\ at \in Nat
    BY NoErrorFacts
  <2> QED
    BY <1>2, <2>1, Zenon
<1>4. /\ \A l \in 1..n : /\ c[l] \in DecodedBlock /\ BlockGood(c[l], FALSE)
                         /\ Reached(c[l]) \in Nat /\ inodes[c[l].src].hi \in Nat
                         /\ inodes[c[l].src].depth \in Nat
      /\ TreeInv /\ data.block \in Nat
  BY <1>3, NoErrorFacts
<1>5. /\ \A l \in 1..n : Inside(c[l].src)
      /\ \A l \in 1..(n - 1) : Gap(inodes[c[l + 1].src].hi, Reached(c[l]))
      /\ Gap(data.block, Reached(c[a])) /\ Gap(data.block, Reached(c[n]))
  BY <1>1, <1>2, <1>3, NoErrorFacts DEF Searched
<1>6. PICK b \in DecodedBlock, d \in Nat : b = c[a] /\ d = inodes[c[a].src].depth
  BY <1>3, <1>4
<1>7. PICK h, x : h = NextKey(b) /\ x = Consumed(b, b.child + 1)
  OBVIOUS
<1>8. ASSUME NEW v \in Nat, Gap(v, Reached(b)) PROVE Taken(v, d, h, b.src, x)
  <2>1. /\ TreeInv /\ BlockGood(b, FALSE) /\ ~Exhausted(b) /\ Inside(b.src)
        /\ d = inodes[b.src].depth /\ h = NextKey(b) /\ x = Consumed(b, b.child + 1)
    BY <1>1, <1>3, <1>4, <1>5, <1>6, <1>7
  <2> QED
    BY <1>8, <2>1, KeyTaken, Zenon
<1>9. PICK k \in Nat : k = data.block /\ Taken(k, d, h, b.src, x)
  BY <1>4, <1>5, <1>6, <1>8
<1>10. x \in DecodedBlock
  <2>1. PICK o \in Nat, m \in Nat : o = b.offset + 1 /\ m = b.child + 1
    BY DEF DecodedBlock
  <2>2. x = [src |-> b.src, offset |-> o, child |-> m, cleared |-> b.cleared]
    BY <1>7, <2>1 DEF Consumed, DecodedBlock
  <2>3. b.src \in Nat /\ b.cleared \in BOOLEAN
    BY DEF DecodedBlock
  <2> QED
    BY <2>2, <2>3 DEF DecodedBlock
<1>11. PICK f : f = Consume(at, TRUE) /\ f = [c EXCEPT ![a] = x]
  BY <1>3, <1>6, <1>7 DEF Consume, Consumed
<1>12. DataGood(rpc, chain, garbage, data, at, FALSE)
  BY NoErrorFacts
<1>13. /\ \A l \in (a + 1)..n : Exhausted(c[l])
       /\ inodes[c[n].src].depth = 0 /\ Precise(k, Reached(c[a]), FALSE)
       /\ data.offset \in 0..BlockSize /\ data.size = BlockSize
  BY <1>1, <1>2, <1>3, <1>9, <1>12 DEF DataGood
<1>14. CASE a < n
  <2>0. a \in 1..(n - 1) /\ a + 1 \in 1..n /\ a + 1 \in (a + 1)..n /\ a + 1 \in Nat /\ a # a + 1
    BY <1>3, <1>14
  <2>1. PICK y : y = Decoded(h)
    OBVIOUS
  <2>2. d # 0
    <3>1. Pair(c[a], c[a + 1], sawError)
      BY <1>3, <2>0 DEF ReadInv, StreamInv, ChainGood
    <3>2. inodes[c[a].src].depth = inodes[c[a + 1].src].depth + 1
      BY <3>1 DEF Pair
    <3>3. inodes[c[a + 1].src].depth \in Nat
      BY <1>4, <2>0
    <3> QED
      BY <1>6, <3>2, <3>3
  <2>3. /\ Lo(d, h) \in Nat /\ Hi(d, h) \in Nat /\ Reached(x) = Hi(d, h) /\ x.src = c[a].src
        /\ Inside(h) /\ Hi(d, h) = inodes[h].hi /\ Reached(y) = Lo(d, h) /\ y.src = h
        /\ Gap(k, Lo(d, h))
    BY <1>6, <1>9, <2>1, <2>2 DEF Taken
  <2>4. y \in DecodedBlock
    <3>1. KeyOK(d, h)
      <4>1. b.offset # KeyCount(b) /\ KeyOK(inodes[b.src].depth, NextKey(b))
        <5>1. BlockGood(b, FALSE) /\ TreeInv /\ ~Exhausted(b) /\ FALSE \in BOOLEAN
              /\ Precise(k, Reached(b), FALSE)
          BY <1>1, <1>3, <1>4, <1>6, <1>13
        <5> QED
          BY <5>1, NextReach
      <4> QED
        BY <1>6, <1>7, <4>1
    <3>2. h \in Nat
      BY <2>2, <3>1 DEF KeyOK
    <3> QED
      BY <2>1, <3>2 DEF Decoded, DecodedBlock
  <2>5. chain' = [f EXCEPT ![a + 1] = y] /\ at' = a + 1 /\ rpc' = "climb" /\ data' = data
    BY <1>1, <1>3, <1>6, <1>7, <1>11, <1>14, <2>1 DEF FetchChild, Bottom
  <2>6. PICK g : g = chain' /\ g = [[c EXCEPT ![a] = x] EXCEPT ![a + 1] = y]
    BY <1>11, <2>5
  <2>7. /\ g \in Seq(DecodedBlock) /\ Len(g) = n /\ g[a] = x /\ g[a + 1] = y
        /\ \A l \in 1..n : l # a /\ l # a + 1 => g[l] = c[l]
    <3>1. g = [[c EXCEPT ![a] = x] EXCEPT ![a + 1] = y]
      BY <2>6
    <3> QED
      BY <1>3, <1>10, <2>0, <2>4, <3>1
  <2>8. ASSUME NEW l \in 1..n PROVE Inside(g[l].src)
    <3>1. CASE l = a + 1
      BY <2>3, <2>7, <3>1
    <3>2. CASE l # a + 1
      <4>1. g[l].src = c[l].src
        BY <2>3, <2>7, <3>2
      <4> QED
        BY <1>5, <4>1
    <3> QED
      BY <3>1, <3>2
  <2>9. ASSUME NEW l \in 1..(n - 1) PROVE Gap(inodes[g[l + 1].src].hi, Reached(g[l]))
    <3>0. l \in 1..n /\ l + 1 \in 1..n
      OBVIOUS
    <3>1. CASE l = a
      <4>1. inodes[g[l + 1].src].hi = Hi(d, h) /\ Reached(g[l]) = Hi(d, h)
        BY <2>3, <2>7, <3>1
      <4>2. Gap(Hi(d, h), Hi(d, h))
        BY <2>3 DEF Gap
      <4> QED
        BY <4>1, <4>2
    <3>2. CASE l = a + 1
      <4>1. l + 1 = a + 2 /\ a + 2 \in 1..n /\ a + 2 # a /\ a + 2 # a + 1
            /\ (a + 1) + 1 = a + 2 /\ a + 1 \in 1..(n - 1)
        BY <3>0, <3>2
      <4>2. g[l + 1] = c[a + 2] /\ g[l] = y
        BY <2>7, <3>2, <4>1
      <4>3. PICK v \in Nat, w \in Nat, z \in Nat :
               /\ v = inodes[c[a + 2].src].hi /\ w = inodes[c[a + 1].src].hi
               /\ z = Reached(c[a])
        BY <1>3, <1>4, <2>0, <4>1
      <4>4. Reached(c[a + 1]) = w
        <5>1. c[a + 1] \in DecodedBlock /\ BlockGood(c[a + 1], FALSE) /\ TreeInv
              /\ Exhausted(c[a + 1])
          BY <1>4, <1>13, <2>0
        <5> QED
          BY <4>3, <5>1, ExhaustedEnd
      <4>5. Gap(v, w)
        BY <1>5, <4>1, <4>3, <4>4
      <4>6. Gap(w, z)
        BY <1>5, <2>0, <4>3
      <4>7. Gap(v, z)
        BY <4>5, <4>6, GapTrans
      <4>8. Taken(v, d, h, b.src, x)
        BY <1>6, <1>8, <4>3, <4>7
      <4>9. Gap(v, Lo(d, h))
        BY <4>8 DEF Taken
      <4> QED
        BY <2>3, <4>2, <4>3, <4>9
    <3>3. CASE l # a /\ l # a + 1
      <4>1. g[l] = c[l]
        BY <2>7, <3>0, <3>3
      <4>2. g[l + 1].src = c[l + 1].src
        <5>1. l + 1 # a + 1
          BY <3>3
        <5> QED
          BY <2>3, <2>7, <3>0, <5>1
      <4> QED
        BY <1>5, <4>1, <4>2
    <3> QED
      BY <3>1, <3>2, <3>3
  <2>10. Gap(k, Reached(g[n]))
    <3>0. n \in 1..n /\ n # a
      BY <1>3, <1>14
    <3>1. CASE n = a + 1
      BY <2>3, <2>7, <3>1
    <3>2. CASE n # a + 1
      BY <1>5, <1>9, <2>7, <3>0, <3>2
    <3> QED
      BY <3>1, <3>2
  <2>11. Gap(k, Reached(g[a + 1]))
    BY <2>3, <2>7
  <2>12. Searched(rpc', g, data', at')
    <3>1. data'.block = k /\ at' = a + 1 /\ Len(g) = n
      BY <1>9, <2>5, <2>7
    <3> QED
      BY <2>8, <2>9, <2>10, <2>11, <3>1 DEF Searched
  <2>13. Located(Leaves(inodes, root), delivered', data')
    BY <1>1, <2>5, NoErrorFacts
  <2> QED
    BY <2>6, <2>12, <2>13
<1>15. CASE ~(a < n)
  <2>0. a = n
    BY <1>3, <1>15
  <2>1. d = 0
    BY <1>6, <1>13, <2>0
  <2>2. chain' = f /\ rpc' = "copy" /\ data' = DecodedData(h)
    BY <1>3, <1>6, <1>7, <1>11, <1>15 DEF FetchChild, Bottom
  <2>3. data'.block = h
    BY <2>2 DEF DecodedData
  <2>4. /\ Gap(k, h - 1) /\ IsLeaf(root, h) /\ Reached(x) = h /\ x.src = c[n].src
        /\ h \in Nat /\ h - 1 \in Nat
    BY <1>6, <1>9, <2>0, <2>1 DEF Taken
  <2>5. Gap(h, Reached(x))
    BY <2>4 DEF Gap
  <2>6. /\ Len(f) = n /\ f[n] = x /\ f \in Seq(DecodedBlock)
        /\ \A l \in 1..n : l # n => f[l] = c[l]
    <3>1. f = [c EXCEPT ![n] = x]
      BY <1>11, <2>0
    <3> QED
      BY <1>3, <1>10, <2>0, <3>1
  <2>7. ASSUME NEW l \in 1..n PROVE f[l].src = c[l].src
    BY <2>4, <2>6
  <2>8. ASSUME NEW l \in 1..(n - 1) PROVE Gap(inodes[f[l + 1].src].hi, Reached(f[l]))
    <3>1. l \in 1..n /\ l + 1 \in 1..n /\ l # n
      OBVIOUS
    <3>2. f[l] = c[l] /\ f[l + 1].src = c[l + 1].src
      BY <2>6, <2>7, <3>1
    <3> QED
      BY <1>5, <3>2
  <2>9. Searched(rpc', chain', data', at')
    BY <1>5, <2>2, <2>3, <2>5, <2>6, <2>7, <2>8 DEF Searched
  <2>10. Located(Leaves(inodes, root), delivered', data')
    <3>1. PICK q, t : q = Leaves(inodes, root) /\ t = data
      OBVIOUS
    <3>2. TreeInv /\ t.block = k /\ t.offset = BlockSize
      BY <1>2, <1>4, <1>9, <1>13, <3>1, BlockSizeAssumption
    <3>3. k < h
      <4>1. BlockGood(b, FALSE) /\ TreeInv /\ ~Exhausted(b) /\ FALSE \in BOOLEAN
            /\ Precise(k, Reached(b), FALSE)
        BY <1>1, <1>3, <1>4, <1>6, <1>13
      <4>2. Precise(k, Lo(inodes[b.src].depth, NextKey(b)), FALSE)
        BY <4>1, NextReach
      <4>3. Lo(inodes[b.src].depth, NextKey(b)) = h - 1
        BY <1>6, <1>7, <1>9, <2>1 DEF Taken
      <4> QED
        BY <2>4, <4>2, <4>3 DEF Precise
    <3>4. Located(q, delivered, t) /\ delivered \in Seq(Nat)
      BY <1>1, <3>1, NoErrorFacts
    <3>5. t.block < h /\ Gap(t.block, h - 1)
      BY <2>4, <3>2, <3>3
    <3>6. Located(q, delivered, DecodedData(h))
      <4>1. t.block \in Nat /\ (t.block = 0 \/ t.offset = BlockSize)
        BY <3>2
      <4> QED
        BY <2>4, <3>1, <3>2, <3>4, <3>5, <4>1, NextLocated
    <3> QED
      BY <1>1, <2>2, <3>1, <3>6
  <2> QED
    BY <2>9, <2>10
<1> QED
  BY <1>14, <1>15

(* Units are copied out of the data block. *)
LEMMA CopyLeaves ==
  ASSUME ReadInv, LeafInv, result = "ok", UNCHANGED vars, Copy
  PROVE  LeafInv'
<1>1. /\ chain' = chain /\ at' = at /\ ret' = ret /\ sawError' = sawError
      /\ rpc = "copy" /\ rpc' = "copy" /\ got < want /\ data.offset < data.size
  BY DEF Copy
<1>2. PICK m : /\ m = IF data.size - data.offset > want - got
                        THEN want - got ELSE data.size - data.offset
               /\ delivered' = delivered \o
                    [i \in 1..m |-> ((data.block - 1) * BlockSize + data.offset) + i]
               /\ data' = [data EXCEPT !.offset = @ + m]
  BY DEF Copy
<1> SUFFICES ASSUME ~sawError
             PROVE  /\ Searched(rpc', chain', data', at') /\ Begins(delivered', ret')
                    /\ Located(Leaves(inodes, root), delivered', data')
  BY <1>1, LeafTransfer
<1>3. StreamTypes /\ StreamControl
  BY DEF ReadInv, StreamInv
<1>4. chain # <<>> /\ ~garbage
  BY <1>1, <1>3 DEF StreamControl
<1>5. PICK b \in Nat, o \in Nat, z \in Nat, w \in Nat, g \in Nat :
         /\ b = data.block /\ o = data.offset /\ z = data.size /\ w = want /\ g = got
         /\ data = [block |-> b, offset |-> o, size |-> z]
  BY <1>3 DEF StreamTypes
<1>6. /\ TreeInv /\ Searched(rpc, chain, data, at) /\ Begins(delivered, ret)
      /\ Located(Leaves(inodes, root), delivered, data)
      /\ DataGood(rpc, chain, garbage, data, at, FALSE)
  BY <1>1, NoErrorFacts
<1>7. b \in 1..nblocks /\ z = BlockSize
  BY <1>1, <1>4, <1>5, <1>6 DEF DataGood
<1>8. b >= 1 /\ o < z /\ g < w
  <2>1. nblocks \in Nat
    BY <1>6 DEF TreeInv, IInv, Shape, TypeOK
  <2> QED
    BY <1>1, <1>5, <1>7, <2>1
<1>9. m \in Nat /\ m >= 1 /\ o + m <= z
  BY <1>2, <1>5, <1>8, SMTT(30)
<1>10. data' = [block |-> b, offset |-> o + m, size |-> z]
  BY <1>2, <1>5, <1>9
<1>11. Searched(rpc', chain', data', at')
  <2>1. data'.block = data.block
    BY <1>5, <1>10
  <2> QED
    BY <1>1, <1>6, <2>1 DEF Searched
<1>12. PICK s \in Seq(Nat), p \in Nat : s = delivered /\ p = Len(s)
  BY <1>3 DEF StreamTypes
<1>13. PICK q \in Seq(Nat), n \in Nat :
          /\ q = Leaves(inodes, root) /\ n = Len(q) /\ \A i \in 1..n : q[i] >= 1
  <2>1. PICK q : q = Leaves(inodes, root)
    OBVIOUS
  <2>2. q \in Seq(Nat) /\ Len(q) \in Nat /\ \A i \in 1..Len(q) : 0 < q[i]
    BY <1>6, <2>1, RootSequence
  <2>3. \A i \in 1..Len(q) : q[i] >= 1
    BY <2>2
  <2> QED
    BY <2>1, <2>2, <2>3
<1>14. PICK k \in 1..n : b = q[k] /\ p = (k - 1) * BlockSize + o
  <2>1. b # 0
    BY <1>8
  <2> QED
    BY <1>5, <1>6, <1>12, <1>13, <2>1 DEF Located
<1>15. PICK j \in Nat, e \in Nat :
          j = k - 1 /\ e = (b - 1) * z /\ (b - 1) * BlockSize = e
  <2>1. k - 1 \in Nat /\ b - 1 \in Nat
    BY <1>8
  <2>2. (b - 1) * z \in Nat
    BY <2>1
  <2> QED
    BY <1>7, <2>1, <2>2
<1>16. PICK v \in Nat, r \in Nat : /\ v = j * z /\ p = v + o /\ r = n * z /\ v + z <= r
                                   /\ (k - 1) * BlockSize = v
  <2>1. PICK y \in Nat : n = (j + 1) + y
    <3>1. n - k \in Nat /\ n = (j + 1) + (n - k)
      BY <1>15
    <3> QED
      BY <3>1
  <2>2. n * z = j * z + z + y * z /\ j * z \in Nat /\ y * z \in Nat /\ n * z \in Nat
    BY <2>1
  <2>3. PICK v \in Nat, r \in Nat, x \in Nat : v = j * z /\ r = n * z /\ x = y * z
    BY <2>2
  <2>4. v + z <= r
    BY <2>2, <2>3
  <2>5. (k - 1) * BlockSize = v
    BY <1>7, <1>15, <2>3
  <2>6. p = v + o
    BY <1>14, <2>5
  <2> QED
    BY <2>3, <2>4, <2>5, <2>6
<1>a. p = v + o /\ v + z <= r /\ o < z /\ o + m <= z /\ m \in Nat
  BY <1>8, <1>9, <1>16
<1>17. PICK t : t = delivered' /\ t = s \o [i \in 1..m |-> (e + o) + i]
  BY <1>2, <1>5, <1>12, <1>15
<1>18. /\ t \in Seq(Nat) /\ Len(t) = p + m /\ \A i \in 1..p : t[i] = s[i]
       /\ \A i \in 1..(p + m) : ~(i <= p) => t[i] = (e + o) + (i - p)
  <2>1. e + o \in Nat
    OBVIOUS
  <2> QED
    BY <1>9, <1>12, <1>17, <2>1, UnitsBehind
<1>19. /\ Content \in Seq(Nat) /\ Len(Content) = r
       /\ \A i \in 1..z : Content[v + i] = e + i
  <2>1. /\ Content \in Seq(Nat) /\ Len(Content) = n * BlockSize
        /\ \A i \in 1..n : \A u \in 1..BlockSize :
             Content[(i - 1) * BlockSize + u] = (q[i] - 1) * BlockSize + u
    BY <1>13, ContentFacts
  <2>2. \A u \in 1..z : Content[(k - 1) * BlockSize + u] = (q[k] - 1) * BlockSize + u
    BY <1>7, <2>1
  <2>3. (q[k] - 1) * BlockSize = e
    BY <1>14, <1>15
  <2> QED
    BY <1>7, <1>16, <2>1, <2>2, <2>3
<1>20. /\ Len(s) <= Len(Content) /\ \A i \in 1..p : s[i] = Content[i]
       /\ ret # "STREAM_END"
  <2>1. Len(s) < Len(Content)
    BY <1>a, <1>12, <1>19
  <2> QED
    BY <1>6, <1>12, <2>1 DEF Begins
<1>21. ASSUME NEW i \in 1..(p + m) PROVE t[i] = Content[i]
  <2>1. CASE i <= p
    <3>1. i \in 1..p
      BY <2>1
    <3> QED
      BY <1>18, <1>20, <3>1
  <2>2. CASE ~(i <= p)
    <3>1. PICK u \in Nat : i = v + u /\ u \in 1..z /\ (e + o) + (i - p) = e + u
      <4>1. i - v \in Nat /\ i = v + (i - v) /\ i - v \in 1..z
            /\ (e + o) + (i - p) = e + (i - v)
        BY <1>8, <1>9, <1>16, <2>2
      <4> QED
        BY <4>1
    <3> QED
      BY <1>18, <1>19, <2>2, <3>1
  <2> QED
    BY <2>1, <2>2
<1>22. Begins(delivered', ret')
  <2>1. p + m <= r
    BY <1>a
  <2> QED
    BY <1>1, <1>17, <1>18, <1>19, <1>20, <1>21, <2>1 DEF Begins
<1>23. Located(q, t, data')
  <2>1. data'.block = q[k] /\ data'.offset = o + m
    BY <1>10, <1>14
  <2>2. Len(t) = (k - 1) * BlockSize + (o + m)
    <3>1. Len(t) = (v + o) + m
      BY <1>16, <1>18
    <3> QED
      BY <1>9, <1>16, <3>1
  <2> QED
    BY <1>13, <2>1, <2>2 DEF Located
<1> QED
  BY <1>11, <1>13, <1>17, <1>22, <1>23

(* While the input is indexed nothing is decoded. *)
Unread ==
    rpc = "idle" /\ chain = <<>> /\ ret = "none" /\ data = NoData /\ delivered = <<>>

LEMMA NothingRead == TreeInv /\ Unread => LeafInv
<1> SUFFICES ASSUME TreeInv, Unread PROVE LeafInv
  OBVIOUS
<1>1. data.block = 0 /\ Len(delivered) = 0 /\ \A i \in 1..0 : FALSE
  BY DEF Unread, NoData
<1>2. Searched(rpc, chain, data, at)
  BY DEF Searched, Unread
<1>3. Located(Leaves(inodes, root), delivered, data)
  BY <1>1 DEF Located, Unread
<1>4. ASSUME result = "ok" PROVE Begins(delivered, ret)
  <2>1. PICK q : q = Leaves(inodes, root)
    OBVIOUS
  <2>2. q \in Seq(Nat) /\ Len(q) \in Nat /\ \A i \in 1..Len(q) : 0 < q[i]
    BY <1>4, <2>1, RootSequence
  <2>3. \A i \in 1..Len(q) : q[i] >= 1
    BY <2>2
  <2>4. Content \in Seq(Nat)
    BY <2>1, <2>2, <2>3, ContentFacts
  <2>5. 0 <= Len(Content)
    BY <2>4
  <2> QED
    BY <1>1, <2>5 DEF Begins, Unread
<1> QED
  BY <1>2, <1>3, <1>4 DEF LeafInv

LEMMA IndexLeaves ==
  ASSUME ReadInv, TreeInv', Next, UNCHANGED readVars
  PROVE  LeafInv'
<1>1. TreeInv /\ StreamTypes /\ StreamControl
  BY DEF ReadInv, StreamInv
<1>2. pc # "done"
  BY DEF Next, ReadBlock, StoreBlockFails, ReadFails, EndOfEmptyStream, EndOfStream,
     FlushFullBlock, FlushFullBlockFails, AppendIndex, FlushLevel, FlushLevelFails,
     AssertionFails
<1>3. result # "ok"
  BY <1>1, <1>2 DEF TreeInv, IInv, ResultInv
<1>4. Unread'
  BY <1>1, <1>3 DEF StreamControl, readVars, Unread
<1> QED
  BY <1>4, NothingRead, PTL

(* Every step of the indexer and of its reader preserves it. *)
LEMMA LeavesKeep == ReadInv /\ LeafInv /\ [RoundTripNext]_allVars => LeafInv'
<1> SUFFICES ASSUME ReadInv, LeafInv, [RoundTripNext]_allVars PROVE LeafInv'
  OBVIOUS
<1>1. ReadInv'
  BY RoundTripKeeps
<1>2. CASE Index
  BY <1>1, <1>2, IndexLeaves DEF Index, ReadInv
<1>3. CASE Fetch
  <2>1. result = "ok" /\ UNCHANGED vars /\ ReadNext
    BY <1>3 DEF Fetch
  <2>2. CASE \/ \E size \in Sizes : Read(size) \/ ReadGarbage(size)
             \/ CopyDone \/ NextBlock \/ Close \/ FetchRootFails
             \/ FetchFirstChildFails \/ FetchChildFails
    BY <2>1, <2>2, QuietLeaves
  <2>3. CASE FetchRoot
    BY <2>1, <2>3, FetchRootLeaves
  <2>4. CASE FetchFirstChild
    BY <2>1, <2>4, FetchFirstChildLeaves
  <2>5. CASE Copy
    BY <2>1, <2>5, CopyLeaves
  <2>6. CASE Climb
    BY <2>1, <2>6, ClimbLeaves
  <2>7. CASE StreamEnd
    BY <2>1, <2>7, StreamEndLeaves
  <2>8. CASE FetchChild
    BY <2>1, <2>8, FetchChildLeaves
  <2> QED
    BY <2>1, <2>2, <2>3, <2>4, <2>5, <2>6, <2>7, <2>8 DEF ReadNext, ReadStep
<1>4. CASE UNCHANGED allVars
  <2>1. UNCHANGED vars /\ UNCHANGED readVars
    BY <1>4 DEF allVars
  <2>2. /\ rpc' = rpc /\ chain' = chain /\ data' = data /\ at' = at /\ ret' = ret
        /\ delivered' = delivered /\ sawError' = sawError
    BY <2>1 DEF readVars
  <2>3. result = "ok" /\ ~sawError' =>
           /\ Searched(rpc', chain', data', at') /\ Begins(delivered', ret')
           /\ rpc' # "closed" => Located(Leaves(inodes, root), delivered', data')
    BY <2>2 DEF LeafInv
  <2> QED
    BY <2>1, <2>3, LeafTransfer
<1> QED
  BY <1>2, <1>3, <1>4 DEF RoundTripNext

(***************************************************************************)
(* Whatever writes failed while indexing, until a call of chop_stream_read *)
(* fails the calls deliver the content of the tree that was stored, from   *)
(* its beginning and without a gap, and CHOP_STREAM_END comes exactly when *)
(* all of it was delivered.                                                *)
(***************************************************************************)
THEOREM ReadsInOrderCorrect == RoundTripSpec => []ReadsInOrder
<1>1. RoundTripInit => ReadInv /\ LeafInv
  <2> SUFFICES ASSUME RoundTripInit PROVE ReadInv /\ LeafInv
    OBVIOUS
  <2>1. ReadInv
    BY InitReads
  <2>2. Unread
    BY DEF RoundTripInit, ReadInit, Unread
  <2> QED
    BY <2>1, <2>2, NothingRead DEF ReadInv
<1>2. ReadInv /\ LeafInv /\ [RoundTripNext]_allVars => ReadInv' /\ LeafInv'
  BY RoundTripKeeps, LeavesKeep
<1>3. ReadInv /\ LeafInv => ReadsInOrder
  <2> SUFFICES ASSUME ReadInv, LeafInv, result = "ok", ~sawError
               PROVE  /\ IsPrefix(delivered, Content)
                      /\ ret = "STREAM_END" => delivered = Content
    BY DEF ReadsInOrder
  <2>1. delivered \in Seq(Nat) /\ Begins(delivered, ret) /\ TreeInv
    BY NoErrorFacts
  <2>2. Content \in Seq(Nat)
    <3>1. PICK q : q = Leaves(inodes, root)
      OBVIOUS
    <3>2. q \in Seq(Nat) /\ Len(q) \in Nat /\ \A i \in 1..Len(q) : 0 < q[i]
      BY <2>1, <3>1, RootSequence
    <3>3. \A i \in 1..Len(q) : q[i] >= 1
      BY <3>2
    <3> QED
      BY <3>1, <3>2, <3>3, ContentFacts
  <2>3. PICK s \in Seq(Nat), t \in Seq(Nat) : s = delivered /\ t = Content
    BY <2>1, <2>2
  <2>4. Len(s) <= Len(t) /\ \A i \in 1..Len(s) : s[i] = t[i]
    BY <2>1, <2>3 DEF Begins
  <2>5. IsPrefix(s, t)
    <3>1. SubSeq(s, 1, Len(s)) = s /\ SubSeq(t, 1, Len(s)) = s
      BY <2>4
    <3> QED
      BY <2>4, <3>1 DEF IsPrefix
  <2>6. ret = "STREAM_END" => Len(s) = Len(t)
    BY <2>1, <2>3 DEF Begins
  <2>7. Len(s) = Len(t) => s = t
    BY <2>4, SMTT(30)
  <2> QED
    BY <2>3, <2>5, <2>6, <2>7
<1> QED
  BY <1>1, <1>2, <1>3, PTL DEF RoundTripSpec
=============================================================================
