--------------------------- MODULE TraceStoreProofs ---------------------------
(***************************************************************************)
(* What every operation of TraceStore preserves, for any capacity and any  *)
(* block: lemmas for the specifications that are built from it.            *)
(***************************************************************************)
EXTENDS TraceStore, SequenceTheorems, TLAPS

(***************************************************************************)
(* StartsMatchBlocks relates neighbours.  That eviction never subtracts    *)
(* more than there is needs the relation between any two blocks, which     *)
(* would follow by induction over the sequence; carried as an invariant of *)
(* its own, it needs none.                                                 *)
(***************************************************************************)
StartsAscend ==
  /\ \A i, j \in 1 .. Len(blocks) : i < j => starts[i] + blocks[i].n <= starts[j]
  /\ \A i \in 1 .. Len(blocks) : starts[i] + blocks[i].n <= length

StoreInv ==
  /\ StoreTypeOK
  /\ StartsMatchBlocks
  /\ StartsAscend
  /\ CapacityBound

LEMMA ShiftKeepsOrder ==
  ASSUME NEW x \in Nat, NEW y \in Nat, NEW n \in Nat, NEW d \in Nat, x + n <= y
  PROVE  (x - d) + n <= y - d
OBVIOUS

LEMMA ShiftKeepsSum ==
  ASSUME NEW x \in Nat, NEW n \in Nat, NEW d \in Nat
  PROVE  (x + n) - d = (x - d) + n
OBVIOUS

\* The store that appending b and evicting k blocks leaves, item by item.
Appended(b, k) ==
  LET bs  == Append(blocks, b)
      ss  == Append(starts, length)
      len == length + b.n
  IN  /\ Evicts(k, bs, ss, len)
      /\ blocks' \in Seq(Block)
      /\ Len(blocks') = Len(blocks) + 1 - k
      /\ \A i \in 1 .. Len(blocks') : blocks'[i] = bs[i + k]
      /\ starts' = [i \in 1 .. Len(blocks') |-> ss[i + k] - ss[k + 1]]
      /\ length' = len - ss[k + 1]
      /\ stats' = Dropped(Counted(b), k, ss[k + 1])

LEMMA AppendedStore ==
  ASSUME StoreTypeOK, NEW b \in Block, AppendBlock(b)
  PROVE  \E k \in 0 .. Len(blocks) : Appended(b, k)
<1> DEFINE bs  == Append(blocks, b)
           ss  == Append(starts, length)
           len == length + b.n
<1>1. PICK k \in 0 .. Len(blocks) :
        /\ Evicts(k, bs, ss, len)
        /\ blocks' = SubSeq(bs, k + 1, Len(bs))
        /\ starts' = [i \in 1 .. (Len(bs) - k) |-> ss[i + k] - ss[k + 1]]
        /\ length' = len - ss[k + 1]
        /\ stats' = Dropped(Counted(b), k, ss[k + 1])
  BY DEF AppendBlock
<1>2. bs \in Seq(Block) /\ Len(bs) = Len(blocks) + 1
  BY DEF StoreTypeOK
<1>3. /\ blocks' \in Seq(Block)
      /\ Len(blocks') = Len(bs) - k
      /\ \A i \in 1 .. Len(blocks') : blocks'[i] = bs[i + k]
  <2> HIDE DEF bs
  <2>1. blocks' = SubSeq(bs, k + 1, Len(bs))
    BY <1>1
  <2> QED
    BY <2>1, <1>2
<1>4. starts' = [i \in 1 .. Len(blocks') |-> ss[i + k] - ss[k + 1]]
  <2>1. Len(blocks') = Len(bs) - k
    BY <1>3
  <2> QED
    BY <1>1, <2>1, Zenon
<1>5. Appended(b, k)
  <2> HIDE DEF bs, ss, len
  <2>1. Len(blocks') = Len(blocks) + 1 - k
    BY <1>2, <1>3 DEF StoreTypeOK
  <2>2. \A i \in 1 .. Len(blocks') : blocks'[i] = bs[i + k]
    BY <1>3
  <2> USE DEF bs, ss, len
  <2> QED
    BY <1>1, <1>3, <1>4, <2>1, <2>2, Zenon DEF Appended
<1> QED
  BY <1>5

LEMMA CountedType ==
  ASSUME stats \in StoreStats, NEW b \in Block
  PROVE  Counted(b) \in StoreStats
BY DEF StoreStats, Counted, Block

LEMMA DroppedType ==
  ASSUME NEW s \in StoreStats, NEW k \in Nat, NEW items \in Nat
  PROVE  Dropped(s, k, items) \in StoreStats
BY DEF StoreStats, Dropped

(***************************************************************************)
(* append_block and the eviction it ends with keep the index table right   *)
(* and the bound.                                                          *)
(***************************************************************************)
LEMMA AppendKeepsStoreInv ==
  ASSUME StoreInv, NEW b \in Block, AppendBlock(b)
  PROVE  StoreInv'
<1> DEFINE bs  == Append(blocks, b)
           ss  == Append(starts, length)
           len == length + b.n
<1> USE CapacityAssumption
<1>0. /\ blocks \in Seq(Block) /\ starts \in Seq(Nat) /\ length \in Nat
      /\ b.n \in Nat /\ stats \in StoreStats /\ Len(starts) = Len(blocks)
  BY DEF StoreInv, StoreTypeOK, StartsMatchBlocks, Block
<1>1. PICK k \in 0 .. Len(blocks) : Appended(b, k)
  BY AppendedStore DEF StoreInv
<1>2. /\ Evicts(k, bs, ss, len)
      /\ blocks' \in Seq(Block)
      /\ Len(blocks') = Len(blocks) + 1 - k
      /\ \A i \in 1 .. Len(blocks') : blocks'[i] = bs[i + k]
      /\ starts' = [i \in 1 .. Len(blocks') |-> ss[i + k] - ss[k + 1]]
      /\ length' = len - ss[k + 1]
      /\ stats' = Dropped(Counted(b), k, ss[k + 1])
  BY <1>1, Zenon DEF Appended
<1>3. /\ Len(bs) = Len(blocks) + 1 /\ Len(ss) = Len(bs)
      /\ bs \in Seq(Block) /\ ss \in Seq(Nat)
      /\ bs[Len(bs)].n = b.n
      /\ ss[1] = 0
      /\ \A i \in 1 .. Len(bs) : bs[i].n \in Nat /\ ss[i] \in Nat
  <2>1. /\ Len(bs) = Len(blocks) + 1 /\ Len(ss) = Len(bs)
        /\ bs \in Seq(Block) /\ ss \in Seq(Nat)
        /\ bs[Len(bs)] = b
    BY <1>0
  <2>2. ss[1] = 0
    <3>1. CASE blocks = <<>>
      BY <3>1, <1>0 DEF StoreInv, StartsMatchBlocks
    <3>2. CASE blocks # <<>>
      BY <3>2, <1>0 DEF StoreInv, StartsMatchBlocks
    <3> QED
      BY <3>1, <3>2
  <2>3. \A i \in 1 .. Len(bs) : bs[i] \in Block /\ ss[i] \in Nat
    BY <2>1
  <2> QED
    BY <2>1, <2>2, <2>3 DEF Block
<1>4. \A i, j \in 1 .. Len(bs) : i < j => ss[i] + bs[i].n <= ss[j]
  <2> SUFFICES ASSUME NEW i \in 1 .. Len(bs), NEW j \in 1 .. Len(bs), i < j
               PROVE  ss[i] + bs[i].n <= ss[j]
    OBVIOUS
  <2>1. i \in 1 .. Len(blocks) /\ ss[i] = starts[i] /\ bs[i] = blocks[i]
    BY <1>0, <1>3
  <2>2. CASE j = Len(bs)
    BY <2>1, <2>2, <1>0, <1>3 DEF StoreInv, StartsAscend
  <2>3. CASE j # Len(bs)
    <3>1. j \in 1 .. Len(blocks) /\ ss[j] = starts[j]
      BY <2>3, <1>0, <1>3
    <3> QED
      BY <2>1, <3>1 DEF StoreInv, StartsAscend
  <2> QED
    BY <2>2, <2>3
<1>5. \A i \in 1 .. Len(bs) : ss[i] + bs[i].n <= len
  BY <1>0, <1>3 DEF StoreInv, StartsAscend
<1>6. \A i \in 1 .. (Len(bs) - 1) : ss[i + 1] = ss[i] + bs[i].n
  BY <1>0, <1>3 DEF StoreInv, StartsMatchBlocks
<1>7. len = ss[Len(bs)] + bs[Len(bs)].n
  BY <1>0, <1>3
<1> HIDE DEF bs, ss, len
<1>8. /\ Len(blocks') \in Nat /\ Len(blocks') + k = Len(bs) /\ Len(blocks') >= 1
      /\ k + 1 \in 1 .. Len(bs)
      /\ starts' \in Seq(Nat) /\ Len(starts') = Len(blocks')
      /\ len \in Nat
  <2>1. /\ Len(blocks') \in Nat /\ Len(blocks') + k = Len(bs) /\ Len(blocks') >= 1
        /\ k + 1 \in 1 .. Len(bs)
    BY <1>0, <1>2, <1>3
  <2>2. \A i \in 1 .. Len(blocks') : ss[i + k] - ss[k + 1] \in Nat
    <3> SUFFICES ASSUME NEW i \in 1 .. Len(blocks')
                 PROVE  ss[i + k] - ss[k + 1] \in Nat
      OBVIOUS
    <3>1. /\ i + k \in 1 .. Len(bs)
          /\ i = 1 \/ k + 1 < i + k
      BY <2>1
    <3>2. ss[i + k] \in Nat /\ ss[k + 1] \in Nat /\ bs[k + 1].n \in Nat
      BY <2>1, <3>1, <1>3
    <3>3. CASE i = 1
      BY <3>2, <3>3
    <3>4. CASE k + 1 < i + k
      <4>1. ss[k + 1] + bs[k + 1].n <= ss[i + k]
        BY <2>1, <3>1, <3>4, <1>4
      <4> QED
        BY <4>1, <3>2
    <3> QED
      BY <3>1, <3>3, <3>4
  <2>3. starts' \in [1 .. Len(blocks') -> Nat]
    BY <2>2, <1>2
  <2>4. len \in Nat
    BY <1>0 DEF len
  <2> QED
    BY <2>1, <2>3, <2>4
<1>9. \A i \in 1 .. Len(blocks') :
        /\ i + k \in 1 .. Len(bs)
        /\ ss[i + k] \in Nat /\ bs[i + k].n \in Nat /\ ss[k + 1] \in Nat
        /\ blocks'[i].n = bs[i + k].n
        /\ starts'[i] = ss[i + k] - ss[k + 1]
  <2> SUFFICES ASSUME NEW i \in 1 .. Len(blocks')
               PROVE  /\ i + k \in 1 .. Len(bs)
                      /\ ss[i + k] \in Nat /\ bs[i + k].n \in Nat /\ ss[k + 1] \in Nat
                      /\ blocks'[i].n = bs[i + k].n
                      /\ starts'[i] = ss[i + k] - ss[k + 1]
    OBVIOUS
  <2>1. i + k \in 1 .. Len(bs)
    BY <1>8
  <2> QED
    BY <2>1, <1>2, <1>3, <1>8
<1>10. StoreTypeOK'
  <2>1. length' \in Nat
    <3>1. ss[k + 1] + bs[k + 1].n <= len
      BY <1>5, <1>8
    <3>2. ss[k + 1] \in Nat /\ bs[k + 1].n \in Nat
      BY <1>3, <1>8
    <3> QED
      BY <3>1, <3>2, <1>2, <1>8
  <2>2. stats' \in StoreStats
    BY <1>0, <1>2, <1>3, <1>8, CountedType, DroppedType
  <2> QED
    BY <2>1, <2>2, <1>2, <1>8 DEF StoreTypeOK
<1>11. StartsMatchBlocks'
  <2> DEFINE m == Len(blocks')
  <2>0. m \in 1 .. m /\ m + k = Len(bs) /\ m \in Nat /\ 1 \in 1 .. m
    BY <1>8
  <2> HIDE DEF m
  <2>1. starts'[1] = 0
    BY <2>0, <1>9 DEF m
  <2>2. ASSUME NEW i \in 1 .. (m - 1)
        PROVE  starts'[i + 1] = starts'[i] + blocks'[i].n
    <3>1. i \in 1 .. m /\ i + 1 \in 1 .. m /\ i + k \in 1 .. (Len(bs) - 1)
      BY <2>0
    <3>2. ss[(i + k) + 1] = ss[i + k] + bs[i + k].n
      BY <3>1, <1>6
    <3>3. /\ starts'[i] = ss[i + k] - ss[k + 1]
          /\ starts'[i + 1] = ss[(i + 1) + k] - ss[k + 1]
          /\ blocks'[i].n = bs[i + k].n
          /\ ss[i + k] \in Nat /\ bs[i + k].n \in Nat /\ ss[k + 1] \in Nat
      BY <3>1, <1>9 DEF m
    <3>4. (i + 1) + k = (i + k) + 1
      OBVIOUS
    <3>5. starts'[i + 1] = (ss[i + k] + bs[i + k].n) - ss[k + 1]
      BY <3>2, <3>3, <3>4
    <3>6. (ss[i + k] + bs[i + k].n) - ss[k + 1] = (ss[i + k] - ss[k + 1]) + bs[i + k].n
      BY <3>3, ShiftKeepsSum, Zenon
    <3> QED
      BY <3>3, <3>5, <3>6, Zenon
  <2>3. length' = starts'[m] + blocks'[m].n
    <3>1. /\ starts'[m] = ss[m + k] - ss[k + 1]
          /\ blocks'[m].n = bs[m + k].n
          /\ ss[m + k] \in Nat /\ bs[m + k].n \in Nat /\ ss[k + 1] \in Nat
      BY <2>0, <1>9 DEF m
    <3>2. length' = (ss[m + k] + bs[m + k].n) - ss[k + 1]
      BY <2>0, <1>2, <1>7
    <3>3. ss[m + k] \in Nat /\ bs[m + k].n \in Nat /\ ss[k + 1] \in Nat
      BY <3>1
    <3>4. (ss[m + k] + bs[m + k].n) - ss[k + 1] = (ss[m + k] - ss[k + 1]) + bs[m + k].n
      BY <3>3, SMT
    <3> QED
      BY <3>1, <3>2, <3>4, Zenon
  <2>4. Len(starts') = Len(blocks') /\ blocks' # <<>>
    BY <2>0, <1>8 DEF m
  <2>5. \A i \in 1 .. (Len(blocks') - 1) : starts'[i + 1] = starts'[i] + blocks'[i].n
    BY <2>2 DEF m
  <2>6. length' = starts'[Len(blocks')] + blocks'[Len(blocks')].n
    BY <2>3 DEF m
  <2> QED
    BY <2>1, <2>4, <2>5, <2>6, Zenon DEF StartsMatchBlocks
<1>12. StartsAscend'
  <2>1. ASSUME NEW i \in 1 .. Len(blocks'), NEW j \in 1 .. Len(blocks'), i < j
        PROVE  starts'[i] + blocks'[i].n <= starts'[j]
    <3>1. i + k < j + k /\ i + k \in 1 .. Len(bs) /\ j + k \in 1 .. Len(bs)
      BY <2>1, <1>8, <1>9
    <3>2. ss[i + k] + bs[i + k].n <= ss[j + k]
      BY <3>1, <1>4
    <3>3. /\ starts'[i] = ss[i + k] - ss[k + 1]
          /\ starts'[j] = ss[j + k] - ss[k + 1]
          /\ blocks'[i].n = bs[i + k].n
          /\ ss[i + k] \in Nat /\ ss[j + k] \in Nat
          /\ bs[i + k].n \in Nat /\ ss[k + 1] \in Nat
      BY <1>9
    <3>4. (ss[i + k] - ss[k + 1]) + bs[i + k].n <= ss[j + k] - ss[k + 1]
      BY <3>2, <3>3, ShiftKeepsOrder, Zenon
    <3> QED
      BY <3>3, <3>4, Zenon
  <2>2. ASSUME NEW i \in 1 .. Len(blocks')
        PROVE  starts'[i] + blocks'[i].n <= length'
    <3>1. ss[i + k] + bs[i + k].n <= len
      BY <1>5, <1>9
    <3>2. /\ starts'[i] = ss[i + k] - ss[k + 1]
          /\ blocks'[i].n = bs[i + k].n
          /\ ss[i + k] \in Nat /\ bs[i + k].n \in Nat /\ ss[k + 1] \in Nat
      BY <1>9
    <3>3. length' = len - ss[k + 1] /\ len \in Nat
      BY <1>2, <1>8
    <3>4. (ss[i + k] - ss[k + 1]) + bs[i + k].n <= len - ss[k + 1]
      BY <3>1, <3>2, <3>3, ShiftKeepsOrder, Zenon
    <3> QED
      BY <3>2, <3>3, <3>4, Zenon
  <2> QED
    BY <2>1, <2>2 DEF StartsAscend
<1>13. CapacityBound'
  BY <1>2, <1>8, <1>3 DEF CapacityBound, Evicts
<1> QED
  BY <1>10, <1>11, <1>12, <1>13 DEF StoreInv

LEMMA InitHasStoreInv == StoreInit => StoreInv
BY CapacityAssumption
   DEF StoreInit, StoreInv, StoreTypeOK, StoreStats, StartsMatchBlocks,
       StartsAscend, CapacityBound

LEMMA IdlePollKeepsStoreInv ==
  ASSUME StoreInv, NoteIdlePoll
  PROVE  StoreInv'
BY DEF StoreInv, NoteIdlePoll, StoreTypeOK, StoreStats, StartsMatchBlocks,
       StartsAscend, CapacityBound

LEMMA UnchangedKeepsStoreInv ==
  ASSUME StoreInv, UNCHANGED storeVars
  PROVE  StoreInv'
BY DEF StoreInv, storeVars, StoreTypeOK, StartsMatchBlocks, StartsAscend,
       CapacityBound

\* The store that cutting inside block m leaves, item by item.
CutAt(m, count) ==
  /\ blocks' \in Seq(Block)
  /\ Len(blocks') = m
  /\ \A i \in 1 .. m :
       /\ blocks'[i] = IF i = m THEN [blocks[m] EXCEPT !.n = count - starts[m]]
                       ELSE blocks[i]
       /\ starts'[i] = starts[i]
  /\ starts' \in Seq(Nat)
  /\ Len(starts') = m
  /\ length' = count

LEMMA CutStore ==
  ASSUME StoreTypeOK, Len(starts) = Len(blocks), NEW count \in Nat,
         NEW m \in 1 .. Len(blocks),
         starts[m] < count,
         blocks' = Append(SubSeq(blocks, 1, m - 1),
                          [blocks[m] EXCEPT !.n = count - starts[m]]),
         starts' = SubSeq(starts, 1, m),
         length' = count
  PROVE  CutAt(m, count)
<1> DEFINE kept == SubSeq(blocks, 1, m - 1)
           last == [blocks[m] EXCEPT !.n = count - starts[m]]
<1>1. /\ kept \in Seq(Block) /\ Len(kept) = m - 1
      /\ \A i \in 1 .. (m - 1) : kept[i] = blocks[i]
  BY DEF StoreTypeOK
<1>2. last \in Block
  <2>1. /\ blocks[m] \in Block /\ starts[m] \in Nat
    BY DEF StoreTypeOK
  <2>2. count - starts[m] \in Nat
    BY <2>1
  <2> QED
    BY <2>1, <2>2 DEF Block
<1>3. /\ blocks' \in Seq(Block) /\ Len(blocks') = m
      /\ \A i \in 1 .. m : blocks'[i] = IF i = m THEN last ELSE blocks[i]
  <2>1. blocks' = Append(kept, last)
    OBVIOUS
  <2> HIDE DEF kept, last
  <2>2. /\ blocks' \in Seq(Block) /\ Len(blocks') = Len(kept) + 1
        /\ \A i \in 1 .. Len(kept) : blocks'[i] = kept[i]
        /\ blocks'[Len(kept) + 1] = last
    <3>1. kept \in Seq(Block) /\ last \in Block
      BY <1>1, <1>2
    <3>2. /\ Append(kept, last) \in Seq(Block)
          /\ Len(Append(kept, last)) = Len(kept) + 1
          /\ \A i \in 1 .. Len(kept) : Append(kept, last)[i] = kept[i]
          /\ Append(kept, last)[Len(kept) + 1] = last
      BY <3>1, AppendProperties
    <3> QED
      BY <3>2, <2>1, Zenon
  <2>3. Len(kept) + 1 = m
    BY <1>1
  <2> QED
    BY <1>1, <2>2, <2>3
<1>4. /\ starts' \in Seq(Nat) /\ Len(starts') = m
      /\ \A i \in 1 .. m : starts'[i] = starts[i]
  BY DEF StoreTypeOK
<1> QED
  BY <1>3, <1>4 DEF CutAt

(***************************************************************************)
(* truncate_to keeps the index table right wherever it cuts.               *)
(***************************************************************************)
LEMMA TruncateKeepsStoreInv ==
  ASSUME StoreInv, NEW count \in Int, TruncateTo(count)
  PROVE  StoreInv'
<1>1. CASE UNCHANGED storeVars
  BY <1>1, UnchangedKeepsStoreInv
<1>2. CASE blocks' = <<>> /\ starts' = <<>> /\ length' = 0 /\ UNCHANGED stats
  BY <1>2, CapacityAssumption
     DEF StoreInv, StoreTypeOK, StartsMatchBlocks, StartsAscend, CapacityBound
<1>3. ASSUME count < length, NEW m \in 1 .. Len(blocks),
             starts[m] < count,
             count <= starts[m] + blocks[m].n,
             blocks' = Append(SubSeq(blocks, 1, m - 1),
                              [blocks[m] EXCEPT !.n = count - starts[m]]),
             starts' = SubSeq(starts, 1, m),
             length' = count,
             UNCHANGED stats
      PROVE  StoreInv'
  <2>1. /\ count \in Nat /\ Len(starts) = Len(blocks) /\ length \in Nat
        /\ \A i \in 1 .. Len(blocks) : starts[i] \in Nat /\ blocks[i].n \in Nat
    <3>1. /\ Len(starts) = Len(blocks) /\ length \in Nat
          /\ \A i \in 1 .. Len(blocks) : starts[i] \in Nat /\ blocks[i] \in Block
      BY DEF StoreInv, StoreTypeOK, StartsMatchBlocks
    <3>2. starts[m] \in Nat
      BY <3>1
    <3>3. count \in Nat
      BY <1>3, <3>2
    <3> QED
      BY <3>1, <3>3 DEF Block
  <2>2. CutAt(m, count)
    BY <1>3, <2>1, CutStore DEF StoreInv
  <2>3. \A i \in 1 .. m :
          /\ starts'[i] = starts[i]
          /\ blocks'[i].n = IF i = m THEN count - starts[m] ELSE blocks[i].n
    <3>1. \A i \in 1 .. m : blocks[i] \in Block
      BY DEF StoreInv, StoreTypeOK
    <3> QED
      BY <2>2, <3>1 DEF CutAt, Block
  <2>4. StoreTypeOK'
    BY <1>3, <2>1, <2>2 DEF StoreInv, StoreTypeOK, CutAt
  <2>5. StartsMatchBlocks'
    <3>1. starts'[1] = 0
      BY <2>2, <2>3 DEF StoreInv, StartsMatchBlocks
    <3>2. ASSUME NEW i \in 1 .. (m - 1)
          PROVE  starts'[i + 1] = starts'[i] + blocks'[i].n
      BY <2>3 DEF StoreInv, StartsMatchBlocks
    <3>3. length' = starts'[m] + blocks'[m].n
      BY <1>3, <2>1, <2>3
    <3> QED
      BY <2>2, <3>1, <3>2, <3>3 DEF StartsMatchBlocks, CutAt
  <2>6. StartsAscend'
    <3>1. ASSUME NEW i \in 1 .. m, NEW j \in 1 .. m, i < j
          PROVE  starts'[i] + blocks'[i].n <= starts'[j]
      BY <2>3, <3>1 DEF StoreInv, StartsAscend
    <3>2. ASSUME NEW i \in 1 .. m
          PROVE  starts'[i] + blocks'[i].n <= length'
      <4>1. CASE i = m
        BY <1>3, <2>1, <2>3, <4>1
      <4>2. CASE i # m
        <5>1. starts[i] + blocks[i].n <= starts[m]
          BY <4>2 DEF StoreInv, StartsAscend
        <5>2. starts'[i] = starts[i] /\ blocks'[i].n = blocks[i].n
          BY <2>3, <4>2
        <5>3. starts[i] \in Nat /\ blocks[i].n \in Nat /\ starts[m] \in Nat /\ count \in Nat
          BY <2>1
        <5>4. starts[m] < count /\ length' = count
          BY <1>3, Zenon
        <5> QED
          BY <5>1, <5>2, <5>3, <5>4
      <4> QED
        BY <4>1, <4>2
    <3> QED
      BY <2>2, <3>1, <3>2 DEF StartsAscend, CutAt
  <2>7. CapacityBound'
    <3>1. CASE length <= Capacity
      BY <1>3, <2>1, <3>1, CapacityAssumption DEF CapacityBound
    <3>2. CASE Len(blocks) = 1
      BY <2>2, <3>2 DEF CapacityBound, CutAt
    <3> QED
      BY <3>1, <3>2 DEF StoreInv, CapacityBound
  <2> QED
    BY <2>4, <2>5, <2>6, <2>7 DEF StoreInv
<1> QED
  BY <1>1, <1>2, <1>3 DEF TruncateTo

(***************************************************************************)
(* What an append adds to the counters survives its own eviction, and what *)
(* eviction takes off the length it adds to the origin.                    *)
(***************************************************************************)
LEMMA AppendCounts ==
  ASSUME StoreInv, NEW b \in Block, AppendBlock(b)
  PROVE  /\ stats'.totalRead = stats.totalRead + b.n
         /\ stats'.lost = stats.lost + b.lost
         /\ stats'.gaps = (IF b.lost > 0 THEN stats.gaps + 1 ELSE stats.gaps)
         /\ Origin' + length' = Origin + length + b.n
<1>1. PICK k \in 0 .. Len(blocks) : Appended(b, k)
  BY AppendedStore DEF StoreInv
<1>2. /\ length' = (length + b.n) - Append(starts, length)[k + 1]
      /\ stats' = Dropped(Counted(b), k, Append(starts, length)[k + 1])
  BY <1>1, Zenon DEF Appended
<1>3. Append(starts, length)[k + 1] \in Nat
  BY DEF StoreInv, StoreTypeOK, StartsMatchBlocks
<1>4. length \in Nat /\ b.n \in Nat /\ Origin \in Nat
  BY DEF StoreInv, StoreTypeOK, StoreStats, Block, Origin
<1>5. Origin' = Origin + Append(starts, length)[k + 1]
  BY <1>2 DEF Origin, Dropped, Counted
<1>6. /\ stats'.totalRead = stats.totalRead + b.n
      /\ stats'.lost = stats.lost + b.lost
      /\ stats'.gaps = (IF b.lost > 0 THEN stats.gaps + 1 ELSE stats.gaps)
  BY <1>2 DEF Dropped, Counted
<1>7. Origin' + length' = Origin + length + b.n
  <2> DEFINE gone == Append(starts, length)[k + 1]
  <2>1. /\ gone \in Nat /\ length' = (length + b.n) - gone
        /\ Origin' = Origin + gone
    BY <1>2, <1>3, <1>5
  <2> HIDE DEF gone
  <2> QED
    BY <1>4, <2>1
<1> QED
  BY <1>6, <1>7

(***************************************************************************)
(* Which windows there are after an append and after a cut: the old ones   *)
(* in their old order, the new one last, none longer than it was.          *)
(***************************************************************************)
LEMMA AppendWindows ==
  ASSUME StoreInv, NEW b \in Block, AppendBlock(b)
  PROVE  /\ length' <= length + b.n
         /\ \E k \in Nat :
              \A i \in 1 .. Len(blocks') :
                \/ i + k \in 1 .. Len(blocks) /\ blocks'[i] = blocks[i + k]
                \/ i + k = Len(blocks) + 1 /\ blocks'[i] = b
<1>1. PICK k \in 0 .. Len(blocks) : Appended(b, k)
  BY AppendedStore DEF StoreInv
<1>2. blocks \in Seq(Block) /\ Len(blocks) \in Nat /\ k \in Nat
  BY DEF StoreInv, StoreTypeOK
<1>3. length' <= length + b.n
  <2> DEFINE gone == Append(starts, length)[k + 1]
  <2>1. length' = (length + b.n) - gone
    BY <1>1, Zenon DEF Appended
  <2>2. gone \in Nat
    BY DEF StoreInv, StoreTypeOK, StartsMatchBlocks
  <2>3. length \in Nat /\ b.n \in Nat
    BY DEF StoreInv, StoreTypeOK, Block
  <2> HIDE DEF gone
  <2> QED
    BY <2>1, <2>2, <2>3
<1>4. ASSUME NEW i \in 1 .. Len(blocks')
      PROVE  \/ i + k \in 1 .. Len(blocks) /\ blocks'[i] = blocks[i + k]
             \/ i + k = Len(blocks) + 1 /\ blocks'[i] = b
  <2>1. blocks'[i] = Append(blocks, b)[i + k]
    BY <1>1, Zenon DEF Appended
  <2>2. Len(blocks') = Len(blocks) + 1 - k
    BY <1>1, Zenon DEF Appended
  <2>3. i + k \in 1 .. (Len(blocks) + 1)
    BY <1>2, <2>2
  <2>4. CASE i + k \in 1 .. Len(blocks)
    BY <1>2, <2>1, <2>4
  <2>5. CASE i + k = Len(blocks) + 1
    BY <1>2, <2>1, <2>5
  <2> QED
    BY <1>2, <2>3, <2>4, <2>5
<1> QED
  BY <1>2, <1>3, <1>4

LEMMA CutWindows ==
  ASSUME StoreInv, NEW count \in Int, TruncateTo(count)
  PROVE  /\ length' <= length
         /\ Len(blocks') <= Len(blocks)
         /\ \A i \in 1 .. Len(blocks') :
              /\ i \in 1 .. Len(blocks)
              /\ blocks'[i].first = blocks[i].first
              /\ blocks'[i].n <= blocks[i].n
<1>1. blocks \in Seq(Block) /\ Len(blocks) \in Nat /\ length \in Nat
  BY DEF StoreInv, StoreTypeOK
<1>2. \A i \in 1 .. Len(blocks) : blocks[i] \in Block /\ blocks[i].n \in Nat
  <2>1. \A i \in 1 .. Len(blocks) : blocks[i] \in Block
    BY <1>1
  <2> QED
    BY <2>1 DEF Block
<1>3. CASE UNCHANGED storeVars
  BY <1>1, <1>2, <1>3 DEF storeVars
<1>4. CASE blocks' = <<>> /\ length' = 0
  BY <1>1, <1>4
<1>5. ASSUME count < length, NEW m \in 1 .. Len(blocks),
             starts[m] < count,
             count <= starts[m] + blocks[m].n,
             blocks' = Append(SubSeq(blocks, 1, m - 1),
                              [blocks[m] EXCEPT !.n = count - starts[m]]),
             starts' = SubSeq(starts, 1, m),
             length' = count
      PROVE  /\ length' <= length
             /\ Len(blocks') <= Len(blocks)
             /\ \A i \in 1 .. Len(blocks') :
                  /\ i \in 1 .. Len(blocks)
                  /\ blocks'[i].first = blocks[i].first
                  /\ blocks'[i].n <= blocks[i].n
  <2>1. Len(starts) = Len(blocks) /\ starts[m] \in Nat
    BY DEF StoreInv, StoreTypeOK, StartsMatchBlocks
  <2>2. count \in Nat
    BY <1>5, <2>1
  <2>3. CutAt(m, count)
    BY <1>5, <2>1, <2>2, CutStore DEF StoreInv
  <2>4. Len(blocks') = m /\ m <= Len(blocks) /\ m \in Nat
    BY <1>1, <2>3 DEF CutAt
  <2>5. ASSUME NEW i \in 1 .. m
        PROVE  /\ i \in 1 .. Len(blocks)
               /\ blocks'[i].first = blocks[i].first
               /\ blocks'[i].n <= blocks[i].n
    <3>1. i \in 1 .. Len(blocks) /\ blocks[i] \in Block
      BY <1>1, <1>2
    <3>2. blocks'[i] = IF i = m THEN [blocks[m] EXCEPT !.n = count - starts[m]]
                       ELSE blocks[i]
      BY <2>3 DEF CutAt
    <3>3. CASE i # m
      BY <3>1, <3>2, <3>3, <1>2
    <3>4. CASE i = m
      <4>1. blocks'[i].first = blocks[i].first /\ blocks'[i].n = count - starts[m]
        BY <3>1, <3>2, <3>4 DEF Block
      <4>2. count - starts[m] <= blocks[m].n
        BY <1>5, <1>2, <2>1, <2>2
      <4> QED
        BY <3>1, <3>4, <4>1, <4>2
    <3> QED
      BY <3>3, <3>4
  <2> QED
    BY <1>1, <1>5, <2>4, <2>5
<1> QED
  BY <1>3, <1>4, <1>5 DEF TruncateTo

(***************************************************************************)
(* What the invariant says of windows and their places, and the shape of   *)
(* append_block with names for the parts.                                  *)
(***************************************************************************)
LEMMA StoreFacts ==
  ASSUME StoreInv
  PROVE  /\ blocks \in Seq(Block) /\ starts \in Seq(Nat) /\ length \in Nat
         /\ Len(blocks) \in Nat /\ Len(starts) = Len(blocks)
         /\ \A p \in 1 .. Len(blocks) :
              /\ blocks[p] \in Block /\ blocks[p].n \in Nat /\ blocks[p].first \in Nat
              /\ starts[p] \in Nat /\ starts[p] + blocks[p].n <= length
         /\ \A p, q \in 1 .. Len(blocks) : p < q => starts[p] + blocks[p].n <= starts[q]
<1>1. /\ blocks \in Seq(Block) /\ starts \in Seq(Nat) /\ length \in Nat
      /\ Len(starts) = Len(blocks) /\ Len(blocks) \in Nat
  BY DEF StoreInv, StoreTypeOK, StartsMatchBlocks
<1>2. \A p \in 1 .. Len(blocks) : blocks[p] \in Block /\ starts[p] \in Nat
  BY <1>1
<1>3. \A p \in 1 .. Len(blocks) : blocks[p].n \in Nat /\ blocks[p].first \in Nat
  BY <1>2 DEF Block
<1> QED
  BY <1>1, <1>2, <1>3 DEF StoreInv, StartsAscend

LEMMA AppendedParts ==
  ASSUME StoreInv, NEW b \in Block, AppendBlock(b)
  PROVE  \E k \in 0 .. Len(blocks), bs \in Seq(Block), ss \in Seq(Nat), d \in Nat :
           /\ bs = Append(blocks, b) /\ ss = Append(starts, length) /\ d = ss[k + 1]
           /\ (length + b.n) - d <= Capacity \/ k + 1 = Len(bs)
           /\ \A j \in 0 .. (k - 1) : (length + b.n) - ss[j + 1] > Capacity
           /\ Len(blocks') = Len(blocks) + 1 - k
           /\ \A p \in 1 .. Len(blocks') : blocks'[p] = bs[p + k]
           /\ \A p \in 1 .. Len(blocks') : starts'[p] = ss[p + k] - d
           /\ length' = (length + b.n) - d
           /\ stats' = Dropped(Counted(b), k, d)
<1>1. PICK k \in 0 .. Len(blocks) : Appended(b, k)
  BY AppendedStore DEF StoreInv
<1>2. Evicts(k, Append(blocks, b), Append(starts, length), length + b.n)
  BY <1>1 DEF Appended
<1>3. \A p \in 1 .. Len(blocks') : blocks'[p] = Append(blocks, b)[p + k]
  BY <1>1 DEF Appended
<1>4. \A p \in 1 .. Len(blocks') :
        starts'[p] = Append(starts, length)[p + k] - Append(starts, length)[k + 1]
  <2>1. starts' = [p \in 1 .. Len(blocks') |->
                    Append(starts, length)[p + k] - Append(starts, length)[k + 1]]
    BY <1>1, Zenon DEF Appended
  <2> QED BY <2>1, Zenon
<1>5. /\ Len(blocks') = Len(blocks) + 1 - k
      /\ length' = (length + b.n) - Append(starts, length)[k + 1]
      /\ stats' = Dropped(Counted(b), k, Append(starts, length)[k + 1])
  BY <1>1, Zenon DEF Appended
<1> /\ Append(blocks, b) \in Seq(Block) /\ Append(starts, length) \in Seq(Nat)
    /\ Append(starts, length)[k + 1] \in Nat
  BY StoreFacts
<1> WITNESS k \in 0 .. Len(blocks), Append(blocks, b) \in Seq(Block),
            Append(starts, length) \in Seq(Nat), Append(starts, length)[k + 1] \in Nat
<1> QED BY <1>2, <1>3, <1>4, <1>5, Zenon DEF Evicts
===============================================================================
