---------------------------- MODULE StoreFeedProofs ----------------------------
(***************************************************************************)
(* Theorems about a TraceStore under any honest caller, for every          *)
(* capacity, window length and loss, and about the file it is saved to and *)
(* loaded from.                                                            *)
(***************************************************************************)
EXTENDS Snapshot, TraceStoreProofs, WellFoundedInduction

FeedInv ==
  /\ StoreInv
  /\ fed \in Nat
  /\ cut \in BOOLEAN
  /\ LossRemembered

LEMMA FeedBlockType ==
  ASSUME FeedInv, NEW n \in 0 .. MaxWindow, NEW lost \in 0 .. MaxLost
  PROVE  [first |-> fed + lost, n |-> n, lost |-> lost,
          halt |-> stats.polls + 1, at |-> stats.totalRead] \in Block
<1>1. n \in Nat /\ lost \in Nat
  BY FeedAssumption
<1>2. fed \in Nat /\ stats.polls \in Nat /\ stats.totalRead \in Nat
  BY DEF FeedInv, StoreInv, StoreTypeOK, StoreStats
<1> QED
  BY <1>1, <1>2 DEF Block

LEMMA FeedInvInductive == FeedInv /\ [FeedNext]_feedVars => FeedInv'
<1> SUFFICES ASSUME FeedInv, [FeedNext]_feedVars
             PROVE  FeedInv'
  OBVIOUS
<1>1. ASSUME NEW n \in 0 .. MaxWindow, NEW lost \in 0 .. MaxLost, Feed(n, lost)
      PROVE  FeedInv'
  <2> DEFINE b == [first |-> fed + lost, n |-> n, lost |-> lost,
                   halt |-> stats.polls + 1, at |-> stats.totalRead]
  <2>1. b \in Block /\ AppendBlock(b) /\ fed' = fed + lost + n /\ cut' = cut
    BY <1>1, FeedBlockType DEF Feed
  <2>2. StoreInv'
    BY <2>1, AppendKeepsStoreInv DEF FeedInv
  <2>3. /\ stats'.totalRead = stats.totalRead + n
        /\ stats'.lost = stats.lost + lost
    <3>1. b.n = n /\ b.lost = lost
      OBVIOUS
    <3> HIDE DEF b
    <3>2. /\ stats'.totalRead = stats.totalRead + b.n
          /\ stats'.lost = stats.lost + b.lost
      BY <2>1, AppendCounts DEF FeedInv
    <3> QED
      BY <3>1, <3>2
  <2>4. n \in Nat /\ lost \in Nat /\ fed \in Nat
        /\ stats.totalRead \in Nat /\ stats.lost \in Nat
    BY FeedAssumption DEF FeedInv, StoreInv, StoreTypeOK, StoreStats
  <2> QED
    BY <2>1, <2>2, <2>3, <2>4 DEF FeedInv, LossRemembered
<1>2. CASE Idle
  <2>1. StoreInv'
    BY <1>2, IdlePollKeepsStoreInv DEF FeedInv, Idle
  <2>2. stats'.totalRead = stats.totalRead /\ stats'.lost = stats.lost
    BY <1>2 DEF Idle, NoteIdlePoll, FeedInv, StoreInv, StoreTypeOK, StoreStats
  <2> QED
    BY <1>2, <2>1, <2>2 DEF FeedInv, Idle, LossRemembered
<1>3. ASSUME NEW count \in -1 .. MaxFed, Cut(count)
      PROVE  FeedInv'
  <2>1. StoreInv'
    BY <1>3, FeedAssumption, TruncateKeepsStoreInv DEF FeedInv, Cut
  <2>2. stats' = stats
    BY <1>3 DEF Cut, TruncateTo, storeVars
  <2> QED
    BY <1>3, <2>1, <2>2 DEF FeedInv, Cut, LossRemembered
<1>4. CASE UNCHANGED feedVars
  BY <1>4, UnchangedKeepsStoreInv DEF FeedInv, feedVars, storeVars, LossRemembered
<1> QED
  BY <1>1, <1>2, <1>3, <1>4 DEF FeedNext

THEOREM FeedSafety == FeedSpec => []FeedInv
<1>1. FeedInit => FeedInv
  <2> SUFFICES ASSUME FeedInit PROVE FeedInv
    OBVIOUS
  <2>1. StoreInv
    BY InitHasStoreInv DEF FeedInit
  <2>2. cut \in BOOLEAN
    BY Zenon DEF FeedInit
  <2>3. fed \in Nat /\ LossRemembered
    BY DEF FeedInit, StoreInit, LossRemembered
  <2> QED
    BY <2>1, <2>2, <2>3, Zenon DEF FeedInv
<1> QED
  BY <1>1, FeedInvInductive, PTL DEF FeedSpec

(***************************************************************************)
(* StartsMatchBlocks always holds: whatever mix of appends, evictions and  *)
(* cuts a store goes through, its index table is the running sum of its    *)
(* block lengths (store.py _starts, _rebuild_starts).                      *)
(***************************************************************************)
THEOREM IndexTableCorrect == FeedSpec => [](FeedTypeOK /\ StartsMatchBlocks)
<1>1. FeedInv => FeedTypeOK /\ StartsMatchBlocks
  BY DEF FeedInv, FeedTypeOK, StoreInv
<1> QED
  BY <1>1, FeedSafety, PTL

\* CapacityBound always holds: a store never holds more than its capacity,
\* except one window alone (store.py _evict).
THEOREM StoreBounded == FeedSpec => []CapacityBound
<1>1. FeedInv => CapacityBound
  BY DEF FeedInv, StoreInv
<1> QED
  BY <1>1, FeedSafety, PTL

\* LossRemembered always holds: read plus lost is everything the core retired,
\* however much of either has been evicted or cut (store.py StoreStats).
THEOREM NothingForgotten == FeedSpec => []LossRemembered
<1>1. FeedInv => LossRemembered
  BY DEF FeedInv
<1> QED
  BY <1>1, FeedSafety, PTL

-------------------------------------------------------------------------------
(***************************************************************************)
(* The store as a sequence: which serial is at which index.                *)
(***************************************************************************)

\* Block p holds index i.
HeldBy(i, p) == starts[p] <= i /\ i < starts[p] + blocks[p].n

\* Every index below the length is held by a block.
Covered == \A i \in 0 .. (length - 1) : \E p \in 1 .. Len(blocks) : HeldBy(i, p)

\* The bisection finds the block that holds an index, in a state
LEMMA ItemIs ==
  ASSUME StoreInv, NEW i \in Int, NEW p \in 1 .. Len(blocks), HeldBy(i, p)
  PROVE  BlockIndexAt(i) = p /\ ItemAt(i) = blocks[p].first + (i - starts[p])
<1>1. starts[p] <= i /\ \A q \in (p + 1) .. Len(blocks) : starts[q] > i
  <2>1. starts[p] <= i /\ i < starts[p] + blocks[p].n
    BY DEF HeldBy
  <2>2. Len(blocks) \in Nat /\ starts[p] \in Nat /\ blocks[p].n \in Nat
    BY StoreFacts
  <2>3. ASSUME NEW q \in (p + 1) .. Len(blocks)
        PROVE  starts[q] > i
    <3>1. q \in 1 .. Len(blocks) /\ p < q
      BY <2>2
    <3>2. starts[p] + blocks[p].n <= starts[q] /\ starts[q] \in Nat
      BY <3>1, StoreFacts
    <3> QED BY <2>1, <2>2, <3>2
  <2> QED BY <2>1, <2>3
<1>2. ASSUME NEW r \in 1 .. Len(blocks), starts[r] <= i,
             \A q \in (r + 1) .. Len(blocks) : starts[q] > i
      PROVE  r = p
  <2>0. /\ Len(blocks) \in Nat /\ starts[p] \in Nat /\ starts[r] \in Nat
        /\ p \in Int /\ r \in Int
    BY StoreFacts
  <2>1. ~(r < p)
    <3> SUFFICES ASSUME r < p PROVE FALSE
      OBVIOUS
    <3>1. p \in (r + 1) .. Len(blocks)
      BY <2>0
    <3>2. starts[p] > i
      BY <1>2, <3>1, Zenon
    <3> QED BY <1>1, <2>0, <3>2
  <2>2. ~(p < r)
    <3> SUFFICES ASSUME p < r PROVE FALSE
      OBVIOUS
    <3>1. r \in (p + 1) .. Len(blocks)
      BY <2>0
    <3>2. starts[r] > i
      BY <1>1, <3>1, Zenon
    <3> QED BY <1>2, <2>0, <3>2
  <2> QED BY <2>0, <2>1, <2>2
<1>3. BlockIndexAt(i) = p
  BY <1>1, <1>2 DEF BlockIndexAt
<1> QED BY <1>3 DEF ItemAt

\* and in the next one.
LEMMA ItemIsNext ==
  ASSUME StoreInv', NEW i \in Int, NEW p \in 1 .. Len(blocks'),
         starts'[p] <= i, i < starts'[p] + blocks'[p].n
  PROVE  ItemAt(i)' = blocks'[p].first + (i - starts'[p])
<1>1. /\ Len(blocks') \in Nat
      /\ \A q \in 1 .. Len(blocks') : starts'[q] \in Nat /\ blocks'[q].n \in Nat
      /\ \A q, r \in 1 .. Len(blocks') : q < r => starts'[q] + blocks'[q].n <= starts'[r]
  <2>1. /\ blocks' \in Seq(Block) /\ starts' \in Seq(Nat) /\ Len(starts') = Len(blocks')
    BY DEF StoreInv, StoreTypeOK, StartsMatchBlocks
  <2>2. \A q \in 1 .. Len(blocks') : blocks'[q] \in Block /\ starts'[q] \in Nat
    BY <2>1
  <2>3. \A q \in 1 .. Len(blocks') : blocks'[q].n \in Nat
    BY <2>2 DEF Block
  <2> QED BY <2>1, <2>2, <2>3 DEF StoreInv, StartsAscend
<1>2. \A q \in (p + 1) .. Len(blocks') : starts'[q] > i
  BY <1>1
<1>3. ASSUME NEW r \in 1 .. Len(blocks'), starts'[r] <= i,
             \A q \in (r + 1) .. Len(blocks') : starts'[q] > i
      PROVE  r = p
  <2>1. ~(r < p)
    BY <1>1, <1>2, <1>3
  <2>2. ~(p < r)
    BY <1>1, <1>2, <1>3
  <2> QED BY <1>1, <2>1, <2>2
<1>4. BlockIndexAt(i)' = p
  BY <1>2, <1>3 DEF BlockIndexAt
<1> QED BY <1>4 DEF ItemAt

(***************************************************************************)
(* append_block puts the new window behind the old items and drops the     *)
(* oldest d of them.                                                       *)
(***************************************************************************)
LEMMA FitsMore ==
  ASSUME NEW x \in Nat, NEW n \in Nat, NEW len \in Nat, NEW more \in Nat, x + n <= len
  PROVE  x + n <= len + more /\ x <= len
OBVIOUS

LEMMA NotBelow ==
  ASSUME NEW x \in Nat, NEW n \in Nat, NEW d \in Nat, NEW i \in Int, 0 <= i, i + d < x + n
  PROVE  ~(x + n <= d)
OBVIOUS

LEMMA ShiftedBack ==
  ASSUME NEW x \in Nat, NEW n \in Nat, NEW d \in Nat, NEW i \in Int,
         x <= i + d, i + d < x + n
  PROVE  x - d <= i /\ i < (x - d) + n
OBVIOUS

LEMMA AppendItems ==
  ASSUME StoreInv, Covered, NEW b \in Block, AppendBlock(b)
  PROVE  /\ Covered'
         /\ \E d \in 0 .. length :
              /\ length' = (length + b.n) - d
              /\ Origin' = Origin + d
              /\ length + b.n <= Capacity => d = 0
              /\ (length + b.n) - d <= Capacity \/ d = length
              /\ \A i \in 0 .. (length' - 1) :
                   ItemAt(i)' = IF i + d < length THEN ItemAt(i + d)
                                ELSE b.first + ((i + d) - length)
<1>a. PICK k \in 0 .. Len(blocks), bs \in Seq(Block), ss \in Seq(Nat), d \in Nat :
        /\ bs = Append(blocks, b) /\ ss = Append(starts, length) /\ d = ss[k + 1]
        /\ (length + b.n) - d <= Capacity \/ k + 1 = Len(bs)
        /\ \A j \in 0 .. (k - 1) : (length + b.n) - ss[j + 1] > Capacity
        /\ Len(blocks') = Len(blocks) + 1 - k
        /\ \A p \in 1 .. Len(blocks') : blocks'[p] = bs[p + k]
        /\ \A p \in 1 .. Len(blocks') : starts'[p] = ss[p + k] - d
        /\ length' = (length + b.n) - d
        /\ stats' = Dropped(Counted(b), k, d)
  BY AppendedParts, Zenon
<1>b. bs = Append(blocks, b) /\ ss = Append(starts, length) /\ d = ss[k + 1]
  BY <1>a
<1>2. /\ blocks \in Seq(Block) /\ starts \in Seq(Nat) /\ length \in Nat /\ b.n \in Nat
      /\ Len(blocks) \in Nat /\ Len(starts) = Len(blocks) /\ k \in Nat /\ k <= Len(blocks)
      /\ b.first \in Nat
  BY StoreFacts DEF Block
<1>3. /\ bs[Len(blocks) + 1] = b /\ ss[Len(blocks) + 1] = length
      /\ \A p \in 1 .. Len(blocks) : bs[p] = blocks[p] /\ ss[p] = starts[p]
      /\ Len(bs) = Len(blocks) + 1
  BY <1>b, <1>2
<1>4. /\ \A p \in 1 .. (Len(blocks) + 1) :
           /\ ss[p] \in Nat /\ bs[p].n \in Nat /\ bs[p].first \in Nat
           /\ ss[p] + bs[p].n <= length + b.n /\ ss[p] <= length
      /\ \A p, q \in 1 .. (Len(blocks) + 1) : p < q => ss[p] + bs[p].n <= ss[q]
  <2>1. \A p \in 1 .. Len(blocks) :
          /\ ss[p] \in Nat /\ bs[p].n \in Nat /\ bs[p].first \in Nat
          /\ ss[p] + bs[p].n <= length
    BY <1>3, StoreFacts
  <2>2. \A p, q \in 1 .. Len(blocks) : p < q => ss[p] + bs[p].n <= ss[q]
    BY <1>3, StoreFacts
  <2>3. \A p \in 1 .. (Len(blocks) + 1) : p \in 1 .. Len(blocks) \/ p = Len(blocks) + 1
    BY <1>2
  <2>4. /\ ss[Len(blocks) + 1] = length /\ bs[Len(blocks) + 1].n = b.n
        /\ bs[Len(blocks) + 1].first \in Nat
    BY <1>2, <1>3
  <2>5. ASSUME NEW p \in 1 .. (Len(blocks) + 1)
        PROVE  /\ ss[p] \in Nat /\ bs[p].n \in Nat /\ bs[p].first \in Nat
               /\ ss[p] + bs[p].n <= length + b.n /\ ss[p] <= length
    <3>1. CASE p \in 1 .. Len(blocks)
      <4>1. /\ ss[p] \in Nat /\ bs[p].n \in Nat /\ bs[p].first \in Nat
            /\ ss[p] + bs[p].n <= length
        BY <2>1, <3>1
      <4>2. /\ length \in Nat /\ b.n \in Nat
        BY <1>2
      <4>3. ss[p] + bs[p].n <= length + b.n /\ ss[p] <= length
        BY <4>1, <4>2, FitsMore
      <4> QED BY <4>1, <4>3
    <3>2. CASE p = Len(blocks) + 1
      BY <1>2, <2>4, <3>2
    <3> QED BY <2>3, <3>1, <3>2
  <2>6. ASSUME NEW p \in 1 .. (Len(blocks) + 1), NEW q \in 1 .. (Len(blocks) + 1), p < q
        PROVE  ss[p] + bs[p].n <= ss[q]
    <3>1. p \in 1 .. Len(blocks)
      BY <1>2, <2>6
    <3>2. CASE q \in 1 .. Len(blocks)
      BY <2>2, <2>6, <3>1, <3>2
    <3>3. CASE q = Len(blocks) + 1
      BY <2>1, <2>4, <3>1, <3>3
    <3> QED BY <2>3, <3>2, <3>3
  <2> QED BY <2>5, <2>6
<1>5. /\ Len(blocks') = Len(blocks) + 1 - k
      /\ \A p \in 1 .. Len(blocks') : blocks'[p] = bs[p + k] /\ starts'[p] = ss[p + k] - d
      /\ length' = (length + b.n) - d
      /\ stats' = Dropped(Counted(b), k, d)
  BY <1>a, Zenon
<1>e. /\ (length + b.n) - d <= Capacity \/ k + 1 = Len(bs)
      /\ \A j \in 0 .. (k - 1) : (length + b.n) - ss[j + 1] > Capacity
  BY <1>a, Zenon
<1>6. StoreInv'
  BY AppendKeepsStoreInv
<1>7. d \in Nat /\ d <= length
  <2>1. k + 1 \in 1 .. (Len(blocks) + 1)
    BY <1>2
  <2> QED BY <1>b, <1>4, <2>1
<1>8. length + b.n <= Capacity => d = 0
  <2>1. k > 0 => (length + b.n) - ss[1] > Capacity
    <3> SUFFICES ASSUME k > 0 PROVE (length + b.n) - ss[1] > Capacity
      OBVIOUS
    <3>1. 0 \in 0 .. (k - 1) /\ 0 + 1 = 1
      BY <1>2
    <3> QED BY <1>e, <3>1
  <2>2. ss[1] = 0
    BY <1>2, <1>3 DEF StoreInv, StartsMatchBlocks
  <2>3. k = 0 => d = ss[1]
    BY <1>b
  <2> QED BY <1>2, <2>1, <2>2, <2>3, CapacityAssumption
<1>9. (length + b.n) - d <= Capacity \/ d = length
  BY <1>2, <1>3, <1>b, <1>e
<1>10. Origin' = Origin + d
  BY <1>5 DEF Origin, Dropped, Counted
<1>l. length' \in Int /\ length' = (length + b.n) - d
  BY <1>2, <1>5, <1>7
<1>11. ASSUME NEW i \in 0 .. (length' - 1)
       PROVE  \E p \in (k + 1) .. (Len(blocks) + 1) :
                /\ ss[p] <= i + d /\ i + d < ss[p] + bs[p].n
                /\ i + d < length => p \in 1 .. Len(blocks)
                /\ i + d >= length => p = Len(blocks) + 1
  <2>1. i + d \in Nat /\ i + d < length + b.n
    BY <1>2, <1>7, <1>l
  <2>2. CASE i + d < length
    <3>1. PICK p \in 1 .. Len(blocks) : HeldBy(i + d, p)
      BY <1>2, <2>1, <2>2 DEF Covered
    <3>2. ss[p] <= i + d /\ i + d < ss[p] + bs[p].n
      BY <1>3, <3>1 DEF HeldBy
    <3>3. p >= k + 1
      <4>1. p < k + 1 => ss[p] + bs[p].n <= d
        <5>1. k + 1 \in 1 .. (Len(blocks) + 1) /\ p \in 1 .. (Len(blocks) + 1)
          BY <1>2
        <5> QED BY <1>b, <1>4, <5>1
      <4>2. p \in 1 .. (Len(blocks) + 1) /\ ss[p] \in Nat /\ bs[p].n \in Nat
        BY <1>2, <1>4
      <4>3. p \in Int /\ k \in Int /\ i \in Int /\ 0 <= i /\ d \in Nat
        BY <1>2, <1>7, <1>l
      <4>4. ~(ss[p] + bs[p].n <= d)
        BY <3>2, <4>2, <4>3, NotBelow
      <4> QED BY <4>1, <4>3, <4>4
    <3>4. p \in (k + 1) .. (Len(blocks) + 1)
      BY <1>2, <3>3
    <3>5. ~(i + d >= length)
      BY <1>2, <2>1, <2>2
    <3> QED BY <3>1, <3>2, <3>4, <3>5
  <2>3. CASE i + d >= length
    <3>1. Len(blocks) + 1 \in (k + 1) .. (Len(blocks) + 1)
      BY <1>2
    <3>2. /\ ss[Len(blocks) + 1] <= i + d
          /\ i + d < ss[Len(blocks) + 1] + bs[Len(blocks) + 1].n
      BY <1>2, <1>3, <2>1, <2>3
    <3>3. ~(i + d < length)
      BY <1>2, <2>1, <2>3
    <3> QED BY <2>3, <3>1, <3>2, <3>3, Zenon
  <2>4. i + d < length \/ i + d >= length
    BY <1>2, <2>1
  <2> QED BY <2>2, <2>3, <2>4, Zenon
<1>12. ASSUME NEW i \in 0 .. (length' - 1)
       PROVE  /\ \E q \in 1 .. Len(blocks') :
                   starts'[q] <= i /\ i < starts'[q] + blocks'[q].n
              /\ ItemAt(i)' = IF i + d < length THEN ItemAt(i + d)
                              ELSE b.first + ((i + d) - length)
  <2>1. PICK p \in (k + 1) .. (Len(blocks) + 1) :
          /\ ss[p] <= i + d /\ i + d < ss[p] + bs[p].n
          /\ i + d < length => p \in 1 .. Len(blocks)
          /\ i + d >= length => p = Len(blocks) + 1
    BY <1>11
  <2>2. PICK q \in 1 .. Len(blocks') : q = p - k
    BY <1>2, <1>5
  <2>3. blocks'[q] = bs[p] /\ starts'[q] = ss[p] - d
    <3>1. q + k = p
      BY <1>2, <2>2
    <3> QED BY <1>5, <3>1
  <2>4. ss[p] \in Nat /\ bs[p].n \in Nat /\ bs[p].first \in Nat /\ i \in Int
    <3>1. p \in 1 .. (Len(blocks) + 1)
      BY <1>2
    <3> QED BY <1>4, <1>l, <3>1
  <2>5. starts'[q] <= i /\ i < starts'[q] + blocks'[q].n
    <3>1. ss[p] - d <= i /\ i < (ss[p] - d) + bs[p].n
      BY <1>7, <2>1, <2>4, ShiftedBack
    <3> QED BY <2>3, <3>1, Zenon
  <2>6. ItemAt(i)' = bs[p].first + (i + d - ss[p])
    <3>1. ItemAt(i)' = blocks'[q].first + (i - starts'[q])
      BY <1>6, <2>4, <2>5, ItemIsNext
    <3> QED BY <1>7, <2>3, <2>4, <3>1
  <2>7. CASE i + d < length
    <3>1. p \in 1 .. Len(blocks) /\ bs[p] = blocks[p] /\ ss[p] = starts[p]
      BY <1>3, <2>1, <2>7
    <3>2. HeldBy(i + d, p) /\ i + d \in Int
      BY <1>7, <2>1, <2>4, <3>1 DEF HeldBy
    <3>3. PICK j \in Int : j = i + d
      BY <3>2
    <3>4. ItemAt(j) = blocks[p].first + (j - starts[p])
      BY <3>1, <3>2, <3>3, ItemIs
    <3>5. ItemAt(i + d) = blocks[p].first + ((i + d) - starts[p])
      BY <3>3, <3>4, Zenon
    <3>6. bs[p].first + ((i + d) - ss[p]) = bs[p].first + (i + d - ss[p])
      BY <1>7, <2>4
    <3>7. ItemAt(i)' = ItemAt(i + d)
      BY <2>6, <3>1, <3>5, <3>6, Zenon
    <3> QED BY <2>5, <2>7, <3>7, Zenon
  <2>8. CASE ~(i + d < length)
    <3>1. p = Len(blocks) + 1
      BY <1>2, <1>7, <2>1, <2>4, <2>8
    <3>2. bs[p] = b /\ ss[p] = length
      BY <1>3, <3>1
    <3>3. b.first + (i + d - length) = b.first + ((i + d) - length)
      BY <1>2, <1>7, <2>4
    <3>4. ItemAt(i)' = b.first + ((i + d) - length)
      BY <2>6, <3>2, <3>3, Zenon
    <3> QED BY <2>5, <2>8, <3>4, Zenon
  <2> QED BY <2>7, <2>8
<1>13. Covered'
  BY <1>12 DEF Covered, HeldBy
<1>14. d \in 0 .. length
  BY <1>2, <1>7
<1>15. \A i \in 0 .. (length' - 1) :
         ItemAt(i)' = IF i + d < length THEN ItemAt(i + d)
                      ELSE b.first + ((i + d) - length)
  BY <1>12, Zenon
<1> QED BY <1>5, <1>8, <1>9, <1>10, <1>13, <1>14, <1>15, Zenon

(***************************************************************************)
(* truncate_to keeps the oldest items, and every one of them where it was. *)
(***************************************************************************)
LEMMA CutKeepsItem ==
  ASSUME StoreInv, StoreInv', Covered, NEW count \in Int,
         NEW m \in 1 .. Len(blocks), starts[m] < count,
         count <= starts[m] + blocks[m].n, CutAt(m, count),
         NEW i \in 0 .. (length' - 1)
  PROVE  /\ \E p \in 1 .. Len(blocks') :
              starts'[p] <= i /\ i < starts'[p] + blocks'[p].n
         /\ ItemAt(i)' = ItemAt(i)
<1>1. /\ length' = count /\ Len(blocks') = m
      /\ \A p \in 1 .. m :
           /\ blocks'[p] = IF p = m THEN [blocks[m] EXCEPT !.n = count - starts[m]]
                           ELSE blocks[p]
           /\ starts'[p] = starts[p]
  BY DEF CutAt
<1>2. /\ Len(blocks) \in Nat /\ length \in Nat
      /\ \A p \in 1 .. Len(blocks) :
           /\ blocks[p] \in Block /\ blocks[p].n \in Nat /\ blocks[p].first \in Nat
           /\ starts[p] \in Nat /\ starts[p] + blocks[p].n <= length
      /\ \A p, q \in 1 .. Len(blocks) : p < q => starts[p] + blocks[p].n <= starts[q]
  BY StoreFacts
<1>3. i \in Int /\ 0 <= i /\ i < count
  BY <1>1
<1>4. i \in 0 .. (length - 1)
  BY <1>2, <1>3
<1>5. PICK p \in 1 .. Len(blocks) : HeldBy(i, p)
  BY <1>4 DEF Covered
<1>6. starts[p] <= i /\ i < starts[p] + blocks[p].n
  BY <1>5 DEF HeldBy
<1>7. p \in 1 .. m
  <2>1. m < p => starts[m] + blocks[m].n <= starts[p]
    BY <1>2
  <2>2. starts[m] \in Nat /\ blocks[m].n \in Nat /\ starts[p] \in Nat
    BY <1>2
  <2> QED BY <1>3, <1>6, <2>1, <2>2
<1>8. starts'[p] = starts[p] /\ blocks'[p].first = blocks[p].first
  BY <1>1, <1>2, <1>7 DEF Block
<1>9. i < starts[p] + blocks'[p].n
  <2>1. CASE p = m
    <3>1. blocks'[p].n = count - starts[p]
      BY <1>1, <1>2, <1>7, <2>1 DEF Block
    <3>2. starts[p] \in Nat
      BY <1>2
    <3> QED BY <1>3, <3>1, <3>2
  <2>2. CASE p # m
    BY <1>1, <1>6, <1>7, <2>2
  <2> QED BY <2>1, <2>2
<1>10. p \in 1 .. Len(blocks') /\ starts'[p] <= i /\ i < starts'[p] + blocks'[p].n
  BY <1>1, <1>6, <1>7, <1>8, <1>9
<1>11. ItemAt(i)' = blocks'[p].first + (i - starts'[p])
  BY <1>3, <1>10, ItemIsNext
<1>12. ItemAt(i) = blocks[p].first + (i - starts[p])
  BY <1>3, <1>5, ItemIs
<1> QED BY <1>8, <1>10, <1>11, <1>12

LEMMA CutItems ==
  ASSUME StoreInv, Covered, NEW count \in Int, TruncateTo(count)
  PROVE  /\ Covered'
         /\ Origin' = Origin
         /\ \A i \in 0 .. (length' - 1) : ItemAt(i)' = ItemAt(i)
         /\ \/ length' = length
            \/ length' < length /\ length' = IF count <= 0 THEN 0 ELSE count
<1>1. StoreInv'
  BY TruncateKeepsStoreInv
<1>2. CASE UNCHANGED storeVars
  <2>1. blocks' = blocks /\ starts' = starts /\ length' = length /\ stats' = stats
    BY <1>2 DEF storeVars
  <2>2. Covered' /\ Origin' = Origin
    BY <2>1 DEF Covered, HeldBy, Origin
  <2>3. ASSUME NEW i \in 0 .. (length' - 1)
        PROVE  ItemAt(i)' = ItemAt(i)
    BY <2>1 DEF ItemAt, BlockIndexAt
  <2> QED BY <2>1, <2>2, <2>3
<1>3. CASE count < length /\ count <= 0 /\ blocks' = <<>> /\ length' = 0 /\ UNCHANGED stats
  <2>1. Origin' = Origin
    BY <1>3 DEF Origin
  <2>2. Covered'
    BY <1>3 DEF Covered
  <2>3. length \in Nat
    BY StoreFacts
  <2>4. length' = length \/ (length' < length /\ length' = IF count <= 0 THEN 0 ELSE count)
    BY <1>3, <2>3
  <2>5. \A i \in 0 .. (length' - 1) : ItemAt(i)' = ItemAt(i)
    BY <1>3
  <2> QED BY <2>1, <2>2, <2>4, <2>5
<1>4. ASSUME count < length, NEW m \in 1 .. Len(blocks),
             starts[m] < count,
             count <= starts[m] + blocks[m].n,
             blocks' = Append(SubSeq(blocks, 1, m - 1),
                              [blocks[m] EXCEPT !.n = count - starts[m]]),
             starts' = SubSeq(starts, 1, m),
             length' = count,
             UNCHANGED stats
      PROVE  /\ Covered'
             /\ Origin' = Origin
             /\ \A i \in 0 .. (length' - 1) : ItemAt(i)' = ItemAt(i)
             /\ length' < length /\ length' = IF count <= 0 THEN 0 ELSE count
  <2>1. Len(starts) = Len(blocks) /\ starts[m] \in Nat
    BY StoreFacts
  <2>2. count \in Nat /\ ~(count <= 0)
    BY <1>4, <2>1
  <2>3. CutAt(m, count)
    BY <1>4, <2>1, <2>2, CutStore DEF StoreInv
  <2>4. \A i \in 0 .. (length' - 1) :
          /\ \E p \in 1 .. Len(blocks') :
               starts'[p] <= i /\ i < starts'[p] + blocks'[p].n
          /\ ItemAt(i)' = ItemAt(i)
    BY <1>1, <1>4, <2>3, CutKeepsItem
  <2>5. Covered'
    BY <2>4 DEF Covered, HeldBy
  <2>6. Origin' = Origin
    BY <1>4 DEF Origin
  <2> QED BY <1>4, <2>2, <2>4, <2>5, <2>6
<1> QED
  BY <1>2, <1>3, <1>4 DEF TruncateTo

\* Dropping d from the front of a sequence that was extended, item by item.
LEMMA ShiftedTail ==
  ASSUME NEW old \in Seq(Int), NEW w \in Seq(Int), NEW d \in 0 .. Len(old),
         NEW new \in Seq(Int), Len(new) = Len(old) + Len(w) - d,
         \A i \in 1 .. Len(new) :
           new[i] = IF i + d <= Len(old) THEN old[i + d] ELSE w[i + d - Len(old)]
  PROVE  new = SubSeq(old \o w, d + 1, Len(old \o w))
<1> DEFINE all == old \o w
           tail == SubSeq(all, d + 1, Len(all))
<1>1. /\ all \in Seq(Int) /\ Len(all) = Len(old) + Len(w)
      /\ \A i \in 1 .. Len(all) : all[i] = IF i <= Len(old) THEN old[i] ELSE w[i - Len(old)]
  OBVIOUS
<1>2. /\ tail \in Seq(Int) /\ Len(tail) = Len(all) - d
      /\ \A i \in 1 .. Len(tail) : tail[i] = all[i + d]
  <2> HIDE DEF all
  <2> QED BY <1>1
<1> HIDE DEF tail, all
<1>3. Len(new) = Len(tail)
  BY <1>1, <1>2
<1>4. ASSUME NEW i \in 1 .. Len(new)
      PROVE  new[i] = tail[i]
  <2>1. i + d \in 1 .. Len(all) /\ i \in Nat
    <3>1. Len(new) = Len(all) - d /\ Len(new) \in Nat /\ Len(all) \in Nat /\ d \in Nat
      BY <1>1, <1>2, <1>3
    <3> QED BY <3>1
  <2>2. tail[i] = all[i + d]
    BY <1>2, <1>3
  <2>3. all[i + d] = IF i + d <= Len(old) THEN old[i + d] ELSE w[(i + d) - Len(old)]
    BY <1>1, <2>1
  <2>4. i + d - Len(old) = (i + d) - Len(old)
    BY <2>1
  <2>5. new[i] = IF i + d <= Len(old) THEN old[i + d] ELSE w[(i + d) - Len(old)]
    BY <2>4, Zenon
  <2> QED BY <2>2, <2>3, <2>5, Zenon
<1>5. new = tail
  BY <1>2, <1>3, <1>4, SeqEqual
<1> QED BY <1>5 DEF tail, all

LEMMA FlatSeq ==
  ASSUME StoreInv, Covered
  PROVE  \A i \in 0 .. (length - 1) : ItemAt(i) \in Int
<1> SUFFICES ASSUME NEW i \in 0 .. (length - 1) PROVE ItemAt(i) \in Int
  OBVIOUS
<1>1. i \in Int
  BY StoreFacts
<1>2. PICK p \in 1 .. Len(blocks) : HeldBy(i, p)
  BY DEF Covered
<1>3. ItemAt(i) = blocks[p].first + (i - starts[p])
  BY <1>1, <1>2, ItemIs
<1>4. blocks[p].first \in Nat /\ starts[p] \in Nat
  BY StoreFacts
<1> QED BY <1>1, <1>3, <1>4

LEMMA FeedPuts ==
  ASSUME FeedInv, Covered,
         NEW n \in 0 .. MaxWindow, NEW lost \in 0 .. MaxLost, Feed(n, lost)
  PROVE  Covered' /\ Flat!TailNext
<1>1. PICK b \in Block :
        b = [first |-> fed + lost, n |-> n, lost |-> lost,
             halt |-> stats.polls + 1, at |-> stats.totalRead]
  BY FeedBlockType
<1>2. AppendBlock(b) /\ b.n = n /\ b.first = fed + lost /\ StoreInv
  BY <1>1 DEF Feed, FeedInv
<1>3. PICK d \in 0 .. length :
        /\ length' = (length + b.n) - d
        /\ Origin' = Origin + d
        /\ length + b.n <= Capacity => d = 0
        /\ (length + b.n) - d <= Capacity \/ d = length
        /\ \A i \in 0 .. (length' - 1) :
             ItemAt(i)' = IF i + d < length THEN ItemAt(i + d)
                          ELSE b.first + ((i + d) - length)
  BY <1>2, AppendItems
<1>4. /\ length \in Nat /\ n \in Nat /\ lost \in Nat /\ fed \in Nat
      /\ fed + lost \in 0 .. MaxFed /\ d \in Nat /\ d <= length
  BY <1>2, StoreFacts, FeedAssumption DEF FeedInv, Feed
<1>5. PICK old : old = [i \in 1 .. length |-> ItemAt(i - 1)]
  OBVIOUS
<1>6. PICK new : new = [i \in 1 .. length' |-> ItemAt(i - 1)']
  OBVIOUS
<1>7. PICK w : w = [i \in 1 .. n |-> (fed + lost) + i - 1]
  OBVIOUS
<1>8. old \in Seq(Int) /\ Len(old) = length
  <2>1. \A i \in 1 .. length : ItemAt(i - 1) \in Int
    BY <1>2, <1>4, FlatSeq
  <2> QED BY <1>4, <1>5, <2>1
<1>9. w \in Seq(Int) /\ Len(w) = n
  BY <1>4, <1>7
<1>10. length' \in Nat /\ length' = (length + n) - d
  BY <1>2, <1>3, <1>4
<1>11. ASSUME NEW i \in 1 .. length'
       PROVE  new[i] = IF i + d <= length THEN old[i + d] ELSE w[i + d - length]
  <2>1. i - 1 \in 0 .. (length' - 1) /\ i \in Nat
    BY <1>10
  <2>2. new[i] = ItemAt(i - 1)'
    BY <1>6
  <2>3. new[i] = IF (i - 1) + d < length THEN ItemAt((i - 1) + d)
                 ELSE b.first + (((i - 1) + d) - length)
    BY <1>3, <2>1, <2>2, Zenon
  <2>4. CASE i + d <= length
    <3>1. i + d \in 1 .. length /\ (i - 1) + d < length /\ (i + d) - 1 = (i - 1) + d
      BY <1>4, <2>1, <2>4
    <3>2. old[i + d] = ItemAt((i + d) - 1)
      BY <1>5, <3>1, Zenon
    <3>3. new[i] = old[i + d]
      BY <2>3, <3>1, <3>2, Zenon
    <3> QED BY <2>4, <3>3, Zenon
  <2>5. CASE ~(i + d <= length)
    <3>1. (i + d) - length \in 1 .. n /\ ~((i - 1) + d < length)
      BY <1>4, <1>10, <2>1, <2>5
    <3>2. w[(i + d) - length] = (fed + lost) + ((i + d) - length) - 1
      BY <1>7, <3>1
    <3>3. new[i] = b.first + (((i - 1) + d) - length)
      BY <2>3, <3>1, Zenon
    <3>4. new[i] = w[(i + d) - length]
      BY <1>2, <1>4, <2>1, <3>2, <3>3
    <3>5. i + d - length = (i + d) - length
      BY <1>4, <2>1
    <3> QED BY <2>5, <3>4, <3>5, Zenon
  <2> QED BY <2>4, <2>5
<1>12. new \in Seq(Int) /\ Len(new) = length'
  <2>1. ASSUME NEW i \in 1 .. length'
        PROVE  ItemAt(i - 1)' \in Int
    <3>1. new[i] \in Int
      <4>1. i + d <= length => i + d \in 1 .. Len(old)
        BY <1>4, <1>8, <1>10
      <4>2. ~(i + d <= length) => i + d - length \in 1 .. Len(w)
        BY <1>4, <1>9, <1>10
      <4> QED BY <1>8, <1>9, <1>11, <4>1, <4>2
    <3> QED BY <1>6, <3>1
  <2> QED BY <1>6, <1>10, <2>1
<1>13. new = SubSeq(old \o w, d + 1, Len(old \o w))
  <2>1. Len(new) = Len(old) + Len(w) - d
    BY <1>4, <1>8, <1>9, <1>10, <1>12
  <2>2. \A i \in 1 .. Len(new) :
          new[i] = IF i + d <= Len(old) THEN old[i + d] ELSE w[i + d - Len(old)]
    BY <1>8, <1>11, <1>12
  <2>3. d \in 0 .. Len(old)
    BY <1>8
  <2> QED BY <1>8, <1>9, <1>12, <2>1, <2>2, <2>3, ShiftedTail
<1>14. /\ Len(old \o w) <= Capacity => d = 0
       /\ Len(old \o w) - d <= Capacity \/ d = Len(old)
  <2>1. Len(old \o w) = length + b.n
    BY <1>2, <1>8, <1>9
  <2> QED BY <1>3, <1>8, <2>1
<1>15. w = Flat!Run(fed + lost, n)
  BY <1>7, Zenon DEF Flat!Run
<1>16. Flat!Put(w)
  <2>1. d \in 0 .. Len(old)
    BY <1>8
  <2> QED BY <1>3, <1>5, <1>6, <1>13, <1>14, <2>1, Zenon DEF Flat!Put
<1>17. Covered'
  BY <1>2, AppendItems
<1> QED BY <1>4, <1>15, <1>16, <1>17, Zenon DEF Flat!TailNext

\* The store seen as a sequence, Flat's kept and forgotten.
FlatVars == <<[i \in 1 .. length |-> ItemAt(i - 1)], Origin>>

LEMMA IndexBelow ==
  ASSUME NEW n \in Nat, NEW i \in 1 .. n
  PROVE  i - 1 \in 0 .. (n - 1)
OBVIOUS

LEMMA CutCuts ==
  ASSUME FeedInv, Covered, NEW count \in -1 .. MaxFed, Cut(count)
  PROVE  Covered' /\ [Flat!TailNext]_FlatVars
<1>1. StoreInv /\ count \in Int /\ TruncateTo(count)
  BY FeedAssumption DEF FeedInv, Cut
<1>2. /\ Covered'
      /\ Origin' = Origin
      /\ \A i \in 0 .. (length' - 1) : ItemAt(i)' = ItemAt(i)
      /\ \/ length' = length
         \/ length' < length /\ length' = IF count <= 0 THEN 0 ELSE count
  BY <1>1, CutItems
<1>3. length \in Nat /\ length' \in Nat
  <2>1. StoreInv'
    BY <1>1, TruncateKeepsStoreInv
  <2> QED BY <1>1, <2>1 DEF StoreInv, StoreTypeOK
<1>4. PICK old : old = [i \in 1 .. length |-> ItemAt(i - 1)]
  OBVIOUS
<1>5. PICK new : new = [i \in 1 .. length' |-> ItemAt(i - 1)']
  OBVIOUS
<1>6. old \in Seq(Int) /\ Len(old) = length
  <2>1. \A i \in 1 .. length : ItemAt(i - 1) \in Int
    BY <1>1, <1>3, FlatSeq
  <2> QED BY <1>3, <1>4, <2>1
<1>7. length' <= length
  BY <1>2, <1>3
<1>8. new = [i \in 1 .. length' |-> old[i]]
  <2>1. \A i \in 1 .. length' : ItemAt(i - 1)' = old[i]
    <3> SUFFICES ASSUME NEW i \in 1 .. length' PROVE ItemAt(i - 1)' = old[i]
      OBVIOUS
    <3>1. i \in Int /\ 1 <= i /\ i <= length'
      BY <1>3
    <3>2. i \in 1 .. length
      BY <1>3, <1>7, <3>1
    <3>3. i - 1 \in 0 .. (length' - 1)
      BY <1>3, IndexBelow, Zenon
    <3>4. ItemAt(i - 1)' = ItemAt(i - 1)
      BY <1>2, <3>3, Zenon
    <3>5. old[i] = ItemAt(i - 1)
      BY <1>4, <3>2, Zenon
    <3> QED BY <3>4, <3>5, Zenon
  <2> QED BY <1>5, <2>1, Zenon
<1>9. CASE length' = length
  <2>1. new = old
    BY <1>4, <1>6, <1>8, <1>9
  <2> QED BY <1>2, <1>4, <1>5, <2>1, Zenon DEF FlatVars
<1>10. CASE length' < length /\ length' = IF count <= 0 THEN 0 ELSE count
  <2>1. length' \in 0 .. MaxFed /\ length' < Len(old)
    BY <1>3, <1>6, <1>10, FeedAssumption
  <2>2. new = SubSeq(old, 1, length')
    BY <1>3, <1>6, <1>7, <1>8
  <2>3. Flat!Cut(length')
    BY <1>2, <1>4, <1>5, <2>1, <2>2, Zenon DEF Flat!Cut
  <2> QED BY <1>2, <2>1, <2>3, Zenon DEF Flat!TailNext
<1> QED BY <1>2, <1>9, <1>10

LEMMA IdleStutters ==
  ASSUME Covered, UNCHANGED <<blocks, starts, length>>, Origin' = Origin
  PROVE  Covered' /\ UNCHANGED FlatVars
<1>1. Covered'
  BY DEF Covered, HeldBy
<1>2. [i \in 1 .. length |-> ItemAt(i - 1)]' = [i \in 1 .. length |-> ItemAt(i - 1)]
  BY DEF ItemAt, BlockIndexAt
<1> QED BY <1>1, <1>2 DEF FlatVars

LEMMA FeedSteps ==
  FeedInv /\ Covered /\ [FeedNext]_feedVars => Covered' /\ [Flat!TailNext]_FlatVars
<1> SUFFICES ASSUME FeedInv, Covered, [FeedNext]_feedVars
             PROVE  Covered' /\ [Flat!TailNext]_FlatVars
  OBVIOUS
<1>1. ASSUME NEW n \in 0 .. MaxWindow, NEW lost \in 0 .. MaxLost, Feed(n, lost)
      PROVE  Covered' /\ [Flat!TailNext]_FlatVars
  BY <1>1, FeedPuts, Zenon
<1>2. CASE Idle
  <2>1. UNCHANGED <<blocks, starts, length>> /\ Origin' = Origin
    BY <1>2 DEF Idle, NoteIdlePoll, Origin, FeedInv, StoreInv, StoreTypeOK, StoreStats
  <2> QED BY <2>1, IdleStutters, Zenon
<1>3. ASSUME NEW count \in -1 .. MaxFed, Cut(count)
      PROVE  Covered' /\ [Flat!TailNext]_FlatVars
  BY <1>3, CutCuts, Zenon
<1>4. CASE UNCHANGED feedVars
  <2>1. UNCHANGED <<blocks, starts, length>> /\ Origin' = Origin
    BY <1>4 DEF feedVars, storeVars, Origin
  <2> QED BY <2>1, IdleStutters, Zenon
<1> QED BY <1>1, <1>2, <1>3, <1>4, Zenon DEF FeedNext

LEMMA FeedCovered == FeedSpec => [](FeedInv /\ Covered)
<1>1. FeedInit => Covered
  BY DEF FeedInit, StoreInit, Covered
<1> QED
  BY <1>1, FeedSafety, FeedSteps, PTL DEF FeedSpec

(***************************************************************************)
(* A store seen as a flat sequence is the bounded tail it promises to be:  *)
(* it forgets from the oldest end only, only for the bound, and counts     *)
(* what it forgot (store.py append_block, _evict, truncate_to).            *)
(***************************************************************************)
THEOREM StoreIsBoundedTail == FeedSpec => ImplementsBoundedTail
<1>1. FeedInit => Flat!TailInit
  <2> SUFFICES ASSUME FeedInit PROVE Flat!TailInit
    OBVIOUS
  <2>1. length = 0 /\ Origin = 0
    BY DEF FeedInit, StoreInit, Origin
  <2>2. [i \in 1 .. length |-> ItemAt(i - 1)] = <<>>
    BY <2>1
  <2> QED BY <2>1, <2>2, Zenon DEF Flat!TailInit
<1>2. FeedInv /\ Covered /\ [FeedNext]_feedVars
        => [Flat!TailNext]_<<[i \in 1 .. length |-> ItemAt(i - 1)], Origin>>
  BY FeedSteps, Zenon DEF FlatVars
<1> QED
  BY <1>1, <1>2, FeedCovered, PTL DEF FeedSpec, ImplementsBoundedTail, Flat!TailSpec

\* IndexingMatchesIteration always holds: the bisection of __getitem__ finds
\* the item that __iter__ yields at that place, empty windows or not.
THEOREM IndexingIsIteration == FeedSpec => []IndexingMatchesIteration
<1>1. FeedInv => IndexingMatchesIteration
  <2> SUFFICES ASSUME FeedInv, NEW p \in 1 .. Len(blocks),
                      NEW offset \in 0 .. (blocks[p].n - 1)
               PROVE  ItemAt(starts[p] + offset) = IterItem(p, offset)
    BY DEF IndexingMatchesIteration
  <2>1. StoreInv
    BY DEF FeedInv
  <2>2. starts[p] \in Nat /\ blocks[p].n \in Nat /\ blocks[p].first \in Nat
    BY <2>1, StoreFacts
  <2>3. PICK i \in Int : i = starts[p] + offset
    BY <2>2
  <2>4. HeldBy(i, p)
    BY <2>2, <2>3 DEF HeldBy
  <2>5. ItemAt(i) = blocks[p].first + (i - starts[p])
    BY <2>1, <2>4, ItemIs
  <2>6. i - starts[p] = offset
    BY <2>2, <2>3
  <2> QED BY <2>3, <2>5, <2>6, Zenon DEF IterItem
<1> QED
  BY <1>1, FeedSafety, PTL

-------------------------------------------------------------------------------
(***************************************************************************)
(* Loss: what the retained windows say of what is missing between them.    *)
(***************************************************************************)

\* The windows of s are in execution order up to instruction end, apart by at
\* least what was lost before the later one, and by nothing when nothing was.
Serial(s, end) ==
  /\ \A p \in 1 .. Len(s) : s[p].first + s[p].n <= end
  /\ \A p, q \in 1 .. Len(s) :
       p < q => (s[p].first + s[p].n) + s[q].lost <= s[q].first
  /\ \A p, q \in 1 .. Len(s) :
       /\ p < q
       /\ \A r \in (p + 1) .. q : s[r].lost = 0
       /\ \A r \in (p + 1) .. (q - 1) : s[r].n = 0
       => s[q].first = s[p].first + s[p].n
  /\ \A p \in 1 .. Len(s) :
       (\A r \in (p + 1) .. Len(s) : s[r].lost = 0 /\ s[r].n = 0)
       => end = s[p].first + s[p].n

LEMMA BlockFields ==
  ASSUME NEW s \in Seq(Block)
  PROVE  /\ Len(s) \in Nat
         /\ \A p \in 1 .. Len(s) :
              s[p] \in Block /\ s[p].first \in Nat /\ s[p].n \in Nat /\ s[p].lost \in Nat
<1>1. Len(s) \in Nat /\ \A p \in 1 .. Len(s) : s[p] \in Block
  OBVIOUS
<1>2. \A b \in Block : b.first \in Nat /\ b.n \in Nat /\ b.lost \in Nat
  BY DEF Block
<1> QED BY <1>1, <1>2, Zenon

LEMMA SerialSuffix ==
  ASSUME NEW s \in Seq(Block), NEW end \in Nat, Serial(s, end), NEW k \in 0 .. Len(s),
         NEW t \in Seq(Block), Len(t) = Len(s) - k, \A i \in 1 .. Len(t) : t[i] = s[i + k]
  PROVE  Serial(t, end)
<1>1. Len(s) \in Nat /\ k \in Nat /\ k <= Len(s)
  BY BlockFields
<1>2. \A i \in 1 .. Len(t) : i + k \in 1 .. Len(s) /\ t[i] = s[i + k]
  BY <1>1
<1>3. \A r \in Int, p \in 1 .. Len(t), q \in 1 .. Len(t) :
        r \in (p + k + 1) .. (q + k) => r - k \in (p + 1) .. q /\ t[r - k] = s[r]
  <2> SUFFICES ASSUME NEW r \in Int, NEW p \in 1 .. Len(t), NEW q \in 1 .. Len(t),
                      r \in (p + k + 1) .. (q + k)
               PROVE  r - k \in (p + 1) .. q /\ t[r - k] = s[r]
    OBVIOUS
  <2>1. r - k \in (p + 1) .. q /\ r - k \in 1 .. Len(t) /\ (r - k) + k = r
    BY <1>1
  <2>2. t[r - k] = s[(r - k) + k]
    BY <2>1
  <2> QED BY <2>1, <2>2
<1>4. \A p \in 1 .. Len(t) : t[p].first + t[p].n <= end
  BY <1>2 DEF Serial
<1>5. ASSUME NEW p \in 1 .. Len(t), NEW q \in 1 .. Len(t), p < q
      PROVE  (t[p].first + t[p].n) + t[q].lost <= t[q].first
  <2>1. p + k < q + k
    BY <1>1, <1>5
  <2> QED BY <1>2, <2>1 DEF Serial
<1>6. ASSUME NEW p \in 1 .. Len(t), NEW q \in 1 .. Len(t), p < q,
             \A r \in (p + 1) .. q : t[r].lost = 0,
             \A r \in (p + 1) .. (q - 1) : t[r].n = 0
      PROVE  t[q].first = t[p].first + t[p].n
  <2>1. p + k < q + k /\ p + k \in 1 .. Len(s) /\ q + k \in 1 .. Len(s)
    BY <1>1, <1>2, <1>6
  <2>2. \A r \in ((p + k) + 1) .. (q + k) : s[r].lost = 0
    <3> SUFFICES ASSUME NEW r \in ((p + k) + 1) .. (q + k) PROVE s[r].lost = 0
      OBVIOUS
    <3>1. r \in Int /\ r \in (p + k + 1) .. (q + k)
      BY <1>1
    <3> QED BY <1>3, <1>6, <3>1
  <2>3. \A r \in ((p + k) + 1) .. ((q + k) - 1) : s[r].n = 0
    <3> SUFFICES ASSUME NEW r \in ((p + k) + 1) .. ((q + k) - 1) PROVE s[r].n = 0
      OBVIOUS
    <3>1. r \in Int /\ r \in (p + k + 1) .. (q + k) /\ r - k <= q - 1
      BY <1>1
    <3>2. r - k \in (p + 1) .. q /\ t[r - k] = s[r]
      BY <1>3, <3>1
    <3>3. r - k \in (p + 1) .. (q - 1)
      BY <1>1, <3>1, <3>2
    <3> QED BY <1>6, <3>2, <3>3
  <2>4. s[q + k].first = s[p + k].first + s[p + k].n
    BY <2>1, <2>2, <2>3 DEF Serial
  <2> QED BY <1>2, <2>4
<1>7. ASSUME NEW p \in 1 .. Len(t),
             \A r \in (p + 1) .. Len(t) : t[r].lost = 0 /\ t[r].n = 0
      PROVE  end = t[p].first + t[p].n
  <2>1. p + k \in 1 .. Len(s) /\ Len(t) \in 1 .. Len(t) /\ Len(t) + k = Len(s)
    BY <1>1, <1>2
  <2>2. \A r \in ((p + k) + 1) .. Len(s) : s[r].lost = 0 /\ s[r].n = 0
    <3> SUFFICES ASSUME NEW r \in ((p + k) + 1) .. Len(s)
                 PROVE  s[r].lost = 0 /\ s[r].n = 0
      OBVIOUS
    <3>1. r \in Int /\ r \in (p + k + 1) .. (Len(t) + k)
      BY <1>1, <2>1
    <3>2. r - k \in (p + 1) .. Len(t) /\ t[r - k] = s[r]
      BY <1>3, <2>1, <3>1
    <3> QED BY <1>7, <3>2
  <2>3. end = s[p + k].first + s[p + k].n
    BY <2>1, <2>2 DEF Serial
  <2> QED BY <1>2, <2>3
<1> QED BY <1>4, <1>5, <1>6, <1>7 DEF Serial

LEMMA EndsBefore ==
  ASSUME NEW x \in Nat, NEW n \in Nat, NEW end \in Nat, NEW lost \in Nat,
         NEW more \in Nat, NEW first, first = end + lost, x + n <= end
  PROVE  x + n <= first + more
OBVIOUS

LEMMA ApartByLoss ==
  ASSUME NEW x \in Nat, NEW n \in Nat, NEW end \in Nat, NEW lost \in Nat,
         NEW first, first = end + lost, x + n <= end
  PROVE  (x + n) + lost <= first
OBVIOUS

LEMMA LastItem ==
  ASSUME NEW first \in Nat, NEW start \in Nat, NEW n \in Nat, NEW i, NEW h,
         start + n = i, h = i - 1
  PROVE  (first + (h - start)) + 1 = first + n
OBVIOUS

LEMMA Jump ==
  ASSUME NEW x \in Int, NEW y \in Int, NEW e \in Nat, NEW lost \in Nat,
         NEW f \in Nat, NEW g \in Nat,
         x + 1 <= e, e + lost <= f, lost > 0, f <= g, y >= g
  PROVE  x + 1 < y
OBVIOUS

LEMMA SerialAppend ==
  ASSUME NEW s \in Seq(Block), NEW end \in Nat, Serial(s, end),
         NEW b \in Block, b.first = end + b.lost,
         NEW t \in Seq(Block), t = Append(s, b)
  PROVE  Serial(t, b.first + b.n)
<1>1. /\ Len(s) \in Nat /\ Len(t) = Len(s) + 1 /\ t[Len(s) + 1] = b
      /\ \A p \in 1 .. Len(s) : t[p] = s[p]
  OBVIOUS
<1>2. /\ b.first \in Nat /\ b.n \in Nat /\ b.lost \in Nat
      /\ \A p \in 1 .. Len(s) : s[p].first \in Nat /\ s[p].n \in Nat /\ s[p].lost \in Nat
  BY BlockFields DEF Block
<1>3. \A p \in 1 .. Len(t) : p \in 1 .. Len(s) \/ p = Len(s) + 1
  BY <1>1
<1>4. \A p \in 1 .. Len(s) : t[p].first + t[p].n <= end
  BY <1>1 DEF Serial
<1>5. \A p \in 1 .. Len(t) : t[p].first + t[p].n <= b.first + b.n
  <2> SUFFICES ASSUME NEW p \in 1 .. Len(t) PROVE t[p].first + t[p].n <= b.first + b.n
    OBVIOUS
  <2>1. CASE p \in 1 .. Len(s)
    <3>1. t[p].first + t[p].n <= end /\ t[p].first \in Nat /\ t[p].n \in Nat
      BY <1>1, <1>2, <1>4, <2>1
    <3> QED BY <1>2, <3>1, EndsBefore, Zenon
  <2>2. CASE p = Len(s) + 1
    BY <1>1, <1>2, <2>2
  <2> QED BY <1>3, <2>1, <2>2
<1>6. ASSUME NEW p \in 1 .. Len(t), NEW q \in 1 .. Len(t), p < q
      PROVE  (t[p].first + t[p].n) + t[q].lost <= t[q].first
  <2>1. p \in 1 .. Len(s)
    BY <1>1, <1>6
  <2>2. CASE q \in 1 .. Len(s)
    BY <1>1, <1>6, <2>1, <2>2 DEF Serial
  <2>3. CASE q = Len(s) + 1
    <3>1. t[p].first + t[p].n <= end /\ t[p].first \in Nat /\ t[p].n \in Nat
      BY <1>1, <1>2, <1>4, <2>1
    <3>2. t[q] = b
      BY <1>1, <2>3
    <3>3. (t[p].first + t[p].n) + b.lost <= b.first
      BY <1>2, <3>1, ApartByLoss, Zenon
    <3> QED BY <3>2, <3>3
  <2> QED BY <1>3, <2>2, <2>3
<1>7. ASSUME NEW p \in 1 .. Len(t), NEW q \in 1 .. Len(t), p < q,
             \A r \in (p + 1) .. q : t[r].lost = 0,
             \A r \in (p + 1) .. (q - 1) : t[r].n = 0
      PROVE  t[q].first = t[p].first + t[p].n
  <2>1. p \in 1 .. Len(s)
    BY <1>1, <1>7
  <2>2. CASE q \in 1 .. Len(s)
    <3>1. \A r \in (p + 1) .. q : r \in 1 .. Len(s) /\ s[r].lost = 0
      BY <1>1, <1>7, <2>1, <2>2
    <3>2. \A r \in (p + 1) .. (q - 1) : r \in 1 .. Len(s) /\ s[r].n = 0
      BY <1>1, <1>7, <2>1, <2>2
    <3>3. s[q].first = s[p].first + s[p].n
      BY <1>7, <2>1, <2>2, <3>1, <3>2 DEF Serial
    <3> QED BY <1>1, <2>1, <2>2, <3>3
  <2>3. CASE q = Len(s) + 1
    <3>1. \A r \in (p + 1) .. Len(s) : s[r].lost = 0 /\ s[r].n = 0
      <4> SUFFICES ASSUME NEW r \in (p + 1) .. Len(s) PROVE s[r].lost = 0 /\ s[r].n = 0
        OBVIOUS
      <4>1. r \in 1 .. Len(s) /\ r \in (p + 1) .. q /\ r \in (p + 1) .. (q - 1)
        BY <1>1, <2>1, <2>3
      <4> QED BY <1>1, <1>7, <4>1
    <3>2. end = s[p].first + s[p].n
      BY <2>1, <3>1 DEF Serial
    <3>3. q \in (p + 1) .. q
      BY <1>1, <1>7, <2>1, <2>3
    <3>4. t[q] = b /\ b.lost = 0
      BY <1>1, <1>7, <2>3, <3>3
    <3>5. b.first = end
      BY <1>2, <3>4
    <3> QED BY <1>1, <2>1, <3>2, <3>4, <3>5
  <2> QED BY <1>3, <2>2, <2>3
<1>8. ASSUME NEW p \in 1 .. Len(t),
             \A r \in (p + 1) .. Len(t) : t[r].lost = 0 /\ t[r].n = 0
      PROVE  b.first + b.n = t[p].first + t[p].n
  <2>1. CASE p \in 1 .. Len(s)
    <3>1. \A r \in (p + 1) .. Len(s) : s[r].lost = 0 /\ s[r].n = 0
      <4> SUFFICES ASSUME NEW r \in (p + 1) .. Len(s) PROVE s[r].lost = 0 /\ s[r].n = 0
        OBVIOUS
      <4>1. r \in 1 .. Len(s) /\ r \in (p + 1) .. Len(t)
        BY <1>1, <2>1
      <4> QED BY <1>1, <1>8, <4>1
    <3>2. end = s[p].first + s[p].n
      BY <2>1, <3>1 DEF Serial
    <3>3. Len(s) + 1 \in (p + 1) .. Len(t)
      BY <1>1, <2>1
    <3>4. b.lost = 0 /\ b.n = 0
      BY <1>1, <1>8, <3>3
    <3> QED BY <1>1, <1>2, <2>1, <3>2, <3>4
  <2>2. CASE p = Len(s) + 1
    BY <1>1, <2>2
  <2> QED BY <1>3, <2>1, <2>2
<1> QED BY <1>5, <1>6, <1>7, <1>8 DEF Serial

\* While nothing is cut, the retained windows are serial up to what was fed.
SerialInv == ~cut => Serial(blocks, fed)

LEMMA AppendSerial ==
  ASSUME StoreInv, fed \in Nat, Serial(blocks, fed), NEW b \in Block,
         AppendBlock(b), b.first = fed + b.lost, fed' = b.first + b.n
  PROVE  Serial(blocks, fed)'
<1>1. \E k \in 0 .. Len(blocks), bs \in Seq(Block) :
        /\ bs = Append(blocks, b)
        /\ Len(blocks') = Len(blocks) + 1 - k
        /\ \A p \in 1 .. Len(blocks') : blocks'[p] = bs[p + k]
  BY AppendedParts
<1>a. PICK k \in 0 .. Len(blocks), bs \in Seq(Block) :
        /\ bs = Append(blocks, b)
        /\ Len(blocks') = Len(blocks) + 1 - k
        /\ \A p \in 1 .. Len(blocks') : blocks'[p] = bs[p + k]
  BY <1>1, Zenon
<1>2. blocks \in Seq(Block) /\ blocks' \in Seq(Block)
  <2>1. StoreInv'
    BY AppendKeepsStoreInv
  <2> QED BY <2>1 DEF StoreInv, StoreTypeOK
<1>3. bs \in Seq(Block) /\ Len(bs) = Len(blocks) + 1 /\ Len(blocks) \in Nat
  BY <1>a, <1>2
<1>4. b.first + b.n \in Nat
  BY DEF Block
<1>5. Serial(bs, b.first + b.n)
  BY <1>a, <1>2, <1>3, SerialAppend
<1>6. PICK end \in Nat : end = b.first + b.n
  BY <1>4
<1>7. PICK t \in Seq(Block) : t = blocks'
  BY <1>2
<1>8. k \in 0 .. Len(bs) /\ Len(t) = Len(bs) - k /\ \A i \in 1 .. Len(t) : t[i] = bs[i + k]
  <2>1. k \in Nat /\ k <= Len(blocks)
    BY <1>3
  <2>2. k \in 0 .. Len(bs) /\ Len(t) = Len(bs) - k
    BY <1>a, <1>3, <1>7, <2>1
  <2> QED BY <1>a, <1>7, <2>2, Zenon
<1>9. Serial(t, end)
  BY <1>3, <1>5, <1>6, <1>8, SerialSuffix
<1>10. Serial(blocks', fed')
  BY <1>6, <1>7, <1>9
<1> QED BY <1>10 DEF Serial

LEMMA SerialSteps ==
  FeedInv /\ SerialInv /\ [FeedNext]_feedVars => SerialInv'
<1> SUFFICES ASSUME FeedInv, SerialInv, [FeedNext]_feedVars, ~cut'
             PROVE  Serial(blocks, fed)'
  BY DEF SerialInv
<1>1. ASSUME NEW n \in 0 .. MaxWindow, NEW lost \in 0 .. MaxLost, Feed(n, lost)
      PROVE  Serial(blocks, fed)'
  <2>1. PICK b \in Block :
          b = [first |-> fed + lost, n |-> n, lost |-> lost,
               halt |-> stats.polls + 1, at |-> stats.totalRead]
    BY FeedBlockType
  <2>2. AppendBlock(b) /\ b.n = n /\ b.lost = lost /\ b.first = fed + lost
    BY <1>1, <2>1 DEF Feed
  <2>3. fed' = fed + lost + n /\ cut' = cut
    BY <1>1 DEF Feed
  <2>4. StoreInv /\ fed \in Nat /\ lost \in Nat /\ n \in Nat /\ Serial(blocks, fed)
    BY <2>3, FeedAssumption DEF FeedInv, SerialInv
  <2> QED BY <2>2, <2>3, <2>4, AppendSerial
<1>2. CASE Idle
  <2>1. blocks' = blocks /\ fed' = fed /\ Serial(blocks, fed)
    BY <1>2 DEF Idle, NoteIdlePoll, SerialInv
  <2> QED BY <2>1 DEF Serial
<1>3. ASSUME NEW count \in -1 .. MaxFed, Cut(count)
      PROVE  Serial(blocks, fed)'
  <2>1. blocks' = blocks /\ fed' = fed /\ Serial(blocks, fed)
    BY <1>3, Zenon DEF Cut, SerialInv
  <2> QED BY <2>1 DEF Serial
<1>4. CASE UNCHANGED feedVars
  <2>1. blocks' = blocks /\ fed' = fed /\ Serial(blocks, fed)
    BY <1>4 DEF feedVars, storeVars, SerialInv
  <2> QED BY <2>1 DEF Serial
<1> QED BY <1>1, <1>2, <1>3, <1>4 DEF FeedNext

\* An index where the stream jumps is the start of a window after a loss.
LEMMA JumpIsBoundary ==
  ASSUME StoreInv, Covered, Serial(blocks, fed), NEW i \in 1 .. (length - 1),
         ItemAt(i) # ItemAt(i - 1) + 1
  PROVE  i \in Boundaries
<1>1. /\ Len(blocks) \in Nat /\ length \in Nat
      /\ \A p \in 1 .. Len(blocks) :
           /\ blocks[p].n \in Nat /\ blocks[p].first \in Nat
           /\ starts[p] \in Nat /\ starts[p] + blocks[p].n <= length
      /\ \A p, q \in 1 .. Len(blocks) : p < q => starts[p] + blocks[p].n <= starts[q]
  BY StoreFacts
<1>2. \A p \in 1 .. Len(blocks) : blocks[p].lost \in Nat
  BY BlockFields, StoreFacts
<1>3. i \in Nat /\ i > 0 /\ i \in 0 .. (length - 1) /\ i - 1 \in 0 .. (length - 1)
  BY <1>1
<1>4. PICK q \in 1 .. Len(blocks) : HeldBy(i, q)
  BY <1>3 DEF Covered
<1>5. PICK h \in Int : h = i - 1
  BY <1>3
<1>6. PICK p \in 1 .. Len(blocks) : HeldBy(h, p)
  BY <1>3, <1>5 DEF Covered
<1>7. /\ starts[q] <= i /\ i < starts[q] + blocks[q].n
      /\ starts[p] <= h /\ h < starts[p] + blocks[p].n
  BY <1>4, <1>6 DEF HeldBy
<1>8. ItemAt(i) = blocks[q].first + (i - starts[q])
  BY <1>3, <1>4, ItemIs
<1>9. ItemAt(i - 1) = blocks[p].first + (h - starts[p])
  <2>1. ItemAt(h) = blocks[p].first + (h - starts[p])
    BY <1>6, ItemIs
  <2> QED BY <1>5, <2>1
<1>10. p # q
  <2> SUFFICES ASSUME p = q PROVE FALSE
    OBVIOUS
  <2>1. ItemAt(i) = (blocks[q].first + (h - starts[q])) + 1
    BY <1>1, <1>3, <1>5, <1>8
  <2>2. ItemAt(i) = ItemAt(i - 1) + 1
    BY <1>9, <2>1
  <2> QED BY <2>2
<1>11. p < q
  <2>1. q < p => starts[q] + blocks[q].n <= starts[p]
    BY <1>1
  <2>2. starts[p] \in Nat /\ starts[q] \in Nat /\ blocks[q].n \in Nat
    BY <1>1
  <2>3. ~(starts[q] + blocks[q].n <= starts[p])
    BY <1>3, <1>5, <1>7, <2>2
  <2>4. p \in Int /\ q \in Int
    BY <1>1
  <2> QED BY <1>10, <2>1, <2>3, <2>4
<1>12. starts[q] = i /\ starts[p] + blocks[p].n = i
  <2>1. starts[p] + blocks[p].n <= starts[q]
    BY <1>1, <1>11
  <2>2. starts[p] \in Nat /\ starts[q] \in Nat /\ blocks[p].n \in Nat
    BY <1>1
  <2>3. starts[q] <= i /\ i - 1 < starts[p] + blocks[p].n
    BY <1>5, <1>7
  <2> QED BY <1>3, <2>1, <2>2, <2>3
<1>13. \A r \in (p + 1) .. q : r \in 1 .. Len(blocks) /\ starts[r] = i
  <2> SUFFICES ASSUME NEW r \in (p + 1) .. q
               PROVE  r \in 1 .. Len(blocks) /\ starts[r] = i
    OBVIOUS
  <2>1. r \in 1 .. Len(blocks) /\ p < r
    BY <1>1
  <2>2. starts[p] + blocks[p].n <= starts[r]
    BY <1>1, <2>1
  <2>3. r < q => starts[r] + blocks[r].n <= starts[q]
    BY <1>1, <2>1
  <2>4. r = q \/ r < q
    BY <1>1
  <2>5. starts[r] \in Nat /\ blocks[r].n \in Nat
    BY <1>1, <2>1
  <2> QED BY <1>3, <1>12, <2>1, <2>2, <2>3, <2>4, <2>5
<1>14. \A r \in (p + 1) .. (q - 1) : blocks[r].n = 0
  <2> SUFFICES ASSUME NEW r \in (p + 1) .. (q - 1) PROVE blocks[r].n = 0
    OBVIOUS
  <2>1. r \in 1 .. Len(blocks) /\ r < q /\ r \in (p + 1) .. q
    BY <1>1
  <2>2. starts[r] + blocks[r].n <= starts[q] /\ blocks[r].n \in Nat
    BY <1>1, <2>1
  <2>3. starts[r] = i
    BY <1>13, <2>1
  <2> QED BY <1>3, <1>12, <2>2, <2>3
<1>15. ~ \A r \in (p + 1) .. q : blocks[r].lost = 0
  <2> SUFFICES ASSUME \A r \in (p + 1) .. q : blocks[r].lost = 0 PROVE FALSE
    OBVIOUS
  <2>1. blocks[q].first = blocks[p].first + blocks[p].n
    BY <1>11, <1>14 DEF Serial
  <2>2. ItemAt(i) = blocks[q].first
    BY <1>1, <1>3, <1>8, <1>12
  <2>3. ItemAt(i - 1) + 1 = blocks[p].first + blocks[p].n
    <3>1. blocks[p].first \in Nat /\ starts[p] \in Nat /\ blocks[p].n \in Nat
      BY <1>1
    <3>2. PICK f \in Nat, s \in Nat, n \in Nat :
            f = blocks[p].first /\ s = starts[p] /\ n = blocks[p].n
      BY <3>1
    <3>3. (f + (h - s)) + 1 = f + n
      <4>1. s + n = i
        BY <1>12, <3>2
      <4> QED BY <1>5, <4>1, LastItem
    <3> QED BY <1>9, <3>2, <3>3
  <2> QED BY <2>1, <2>2, <2>3
<1>16. PICK r \in (p + 1) .. q : blocks[r].lost # 0
  BY <1>15
<1>17. r \in 1 .. Len(blocks) /\ starts[r] = i /\ blocks[r].lost > 0 /\ starts[r] > 0
  BY <1>2, <1>3, <1>13, <1>16
<1> QED BY <1>17 DEF Boundaries

\* The start of a window after a loss is an index where the stream jumps.
LEMMA BoundaryJumps ==
  ASSUME StoreInv, Covered, Serial(blocks, fed), NEW i \in Boundaries, i < length
  PROVE  i \in 1 .. (length - 1) /\ ItemAt(i) # ItemAt(i - 1) + 1
<1>1. /\ Len(blocks) \in Nat /\ length \in Nat
      /\ \A p \in 1 .. Len(blocks) :
           /\ blocks[p].n \in Nat /\ blocks[p].first \in Nat
           /\ starts[p] \in Nat /\ starts[p] + blocks[p].n <= length
      /\ \A p, q \in 1 .. Len(blocks) : p < q => starts[p] + blocks[p].n <= starts[q]
  BY StoreFacts
<1>2. \A p \in 1 .. Len(blocks) : blocks[p].lost \in Nat
  BY BlockFields, StoreFacts
<1>3. PICK b \in 1 .. Len(blocks) : starts[b] = i /\ blocks[b].lost > 0 /\ i > 0
  BY DEF Boundaries
<1>4. i \in Nat /\ i \in 1 .. (length - 1) /\ i \in 0 .. (length - 1)
      /\ i - 1 \in 0 .. (length - 1)
  BY <1>1, <1>3
<1>5. PICK q \in 1 .. Len(blocks) : HeldBy(i, q)
  BY <1>4 DEF Covered
<1>6. PICK h \in Int : h = i - 1
  BY <1>4
<1>7. PICK p \in 1 .. Len(blocks) : HeldBy(h, p)
  BY <1>4, <1>6 DEF Covered
<1>8. /\ starts[q] <= i /\ i < starts[q] + blocks[q].n
      /\ starts[p] <= h /\ h < starts[p] + blocks[p].n
  BY <1>5, <1>7 DEF HeldBy
<1>9. ItemAt(i) = blocks[q].first + (i - starts[q])
  BY <1>4, <1>5, ItemIs
<1>10. ItemAt(i - 1) = blocks[p].first + (h - starts[p])
  <2>1. ItemAt(h) = blocks[p].first + (h - starts[p])
    BY <1>7, ItemIs
  <2> QED BY <1>6, <2>1
<1>11. p < b
  <2>1. b < p => starts[b] + blocks[b].n <= starts[p]
    BY <1>1
  <2>2. starts[p] < i
    BY <1>1, <1>4, <1>6, <1>8
  <2> QED BY <1>1, <1>3, <1>4, <2>1, <2>2
<1>12. b <= q
  <2>1. q < b => starts[q] + blocks[q].n <= starts[b]
    BY <1>1
  <2>2. starts[q] \in Nat /\ blocks[q].n \in Nat
    BY <1>1
  <2> QED BY <1>3, <1>4, <1>8, <2>1, <2>2
<1>13. (blocks[p].first + blocks[p].n) + blocks[b].lost <= blocks[b].first
  BY <1>11 DEF Serial
<1>14. blocks[b].first <= blocks[q].first
  <2>1. CASE b = q
    BY <1>1, <2>1
  <2>2. CASE b < q
    <3>1. (blocks[b].first + blocks[b].n) + blocks[q].lost <= blocks[q].first
      BY <2>2 DEF Serial
    <3> QED BY <1>1, <1>2, <3>1
  <2> QED BY <1>12, <2>1, <2>2
<1>15. ItemAt(i - 1) + 1 <= blocks[p].first + blocks[p].n
  <2>1. blocks[p].first \in Nat /\ blocks[p].n \in Nat /\ starts[p] \in Nat
    BY <1>1
  <2> QED BY <1>8, <1>10, <2>1
<1>16. ItemAt(i) >= blocks[q].first
  <2>1. blocks[q].first \in Nat /\ starts[q] \in Nat
    BY <1>1
  <2> QED BY <1>4, <1>8, <1>9, <2>1
<1>17. ItemAt(i) \in Int /\ ItemAt(i - 1) \in Int
  BY <1>4, FlatSeq
<1>18. /\ blocks[p].first \in Nat /\ blocks[p].n \in Nat /\ blocks[b].lost \in Nat
       /\ blocks[b].first \in Nat /\ blocks[q].first \in Nat
  BY <1>1, <1>2
<1>19. ItemAt(i - 1) + 1 < ItemAt(i)
  <2>1. blocks[p].first + blocks[p].n \in Nat
    BY <1>18
  <2> QED BY <1>3, <1>13, <1>14, <1>15, <1>16, <1>17, <1>18, <2>1, Jump, Zenon
<1> QED BY <1>4, <1>17, <1>19

\* BoundariesExact always holds: while nothing was cut, boundaries() names the
\* indices where the next program counter is not the one that executed next,
\* and no other (store.py boundaries).
THEOREM BoundariesAreExact == FeedSpec => []BoundariesExact
<1>1. FeedInit => SerialInv
  BY DEF FeedInit, StoreInit, SerialInv, Serial
<1>2. FeedInv /\ Covered /\ SerialInv => BoundariesExact
  <2> SUFFICES ASSUME FeedInv, Covered, SerialInv, ~cut
               PROVE  {b \in Boundaries : b < length}
                        = {i \in 1 .. (length - 1) : ItemAt(i) # ItemAt(i - 1) + 1}
    BY DEF BoundariesExact
  <2>1. StoreInv /\ Serial(blocks, fed)
    BY DEF FeedInv, SerialInv
  <2>2. \A i \in Boundaries :
          i < length => i \in 1 .. (length - 1) /\ ItemAt(i) # ItemAt(i - 1) + 1
    BY <2>1, BoundaryJumps
  <2>3. \A i \in 1 .. (length - 1) :
          ItemAt(i) # ItemAt(i - 1) + 1 => i \in Boundaries /\ i < length
    <3> SUFFICES ASSUME NEW i \in 1 .. (length - 1), ItemAt(i) # ItemAt(i - 1) + 1
                 PROVE  i \in Boundaries /\ i < length
      OBVIOUS
    <3>1. i < length
      BY <2>1, StoreFacts
    <3> QED BY <2>1, <3>1, JumpIsBoundary
  <2> QED BY <2>2, <2>3, Zenon
<1> QED
  BY <1>1, <1>2, FeedCovered, SerialSteps, PTL DEF FeedSpec

\* Every loss the counters or a retained window know of is a counted gap.
HonestInv ==
  /\ stats.gaps = 0 => stats.lost = 0
  /\ \A p \in 1 .. Len(blocks) : blocks[p].lost > 0 => stats.gaps > 0
  /\ stats.stitched + stats.gaps <= stats.polls

LEMMA OnePollMore ==
  ASSUME NEW polls \in Nat, NEW stitched \in Nat, NEW gaps \in Nat,
         NEW lost \in Nat, NEW n \in Nat, stitched + gaps <= polls
  PROVE  (IF lost = 0 /\ n > 0 THEN stitched + 1 ELSE stitched)
           + (IF lost > 0 THEN gaps + 1 ELSE gaps) <= polls + 1
OBVIOUS

LEMMA AppendHonest ==
  ASSUME StoreInv, HonestInv, NEW b \in Block, AppendBlock(b)
  PROVE  HonestInv'
<1>1. PICK k \in 0 .. Len(blocks), bs \in Seq(Block), ss \in Seq(Nat), d \in Nat :
        /\ bs = Append(blocks, b) /\ ss = Append(starts, length) /\ d = ss[k + 1]
        /\ (length + b.n) - d <= Capacity \/ k + 1 = Len(bs)
        /\ \A j \in 0 .. (k - 1) : (length + b.n) - ss[j + 1] > Capacity
        /\ Len(blocks') = Len(blocks) + 1 - k
        /\ \A p \in 1 .. Len(blocks') : blocks'[p] = bs[p + k]
        /\ \A p \in 1 .. Len(blocks') : starts'[p] = ss[p + k] - d
        /\ length' = (length + b.n) - d
        /\ stats' = Dropped(Counted(b), k, d)
  BY AppendedParts, Zenon
<1>2. /\ bs = Append(blocks, b)
      /\ Len(blocks') = Len(blocks) + 1 - k
      /\ \A p \in 1 .. Len(blocks') : blocks'[p] = bs[p + k]
      /\ stats' = Dropped(Counted(b), k, d)
  BY <1>1, Zenon
<1>3. /\ stats.polls \in Nat /\ stats.stitched \in Nat /\ stats.gaps \in Nat
      /\ stats.lost \in Nat /\ b.lost \in Nat /\ b.n \in Nat
  BY DEF StoreInv, StoreTypeOK, StoreStats, Block
<1>4. /\ stats'.polls = stats.polls + 1
      /\ stats'.stitched = IF b.lost = 0 /\ b.n > 0 THEN stats.stitched + 1 ELSE stats.stitched
      /\ stats'.gaps = IF b.lost > 0 THEN stats.gaps + 1 ELSE stats.gaps
      /\ stats'.lost = stats.lost + b.lost
  BY <1>2 DEF Dropped, Counted
<1>5. stats'.gaps \in Nat /\ (stats.gaps > 0 \/ b.lost > 0 => stats'.gaps > 0)
  BY <1>3, <1>4
<1>6. stats'.gaps = 0 => stats'.lost = 0
  BY <1>3, <1>4 DEF HonestInv
<1>7. stats'.stitched + stats'.gaps <= stats'.polls
  <2>1. stats.stitched + stats.gaps <= stats.polls
    BY DEF HonestInv
  <2>2. PICK x, y : /\ x = IF b.lost = 0 /\ b.n > 0 THEN stats.stitched + 1
                                                  ELSE stats.stitched
                    /\ y = IF b.lost > 0 THEN stats.gaps + 1 ELSE stats.gaps
    OBVIOUS
  <2>3. x + y <= stats.polls + 1
    BY <1>3, <2>1, <2>2, OnePollMore
  <2> QED BY <1>4, <2>2, <2>3
<1>8. ASSUME NEW p \in 1 .. Len(blocks'), blocks'[p].lost > 0
      PROVE  stats'.gaps > 0
  <2>1. blocks \in Seq(Block) /\ Len(blocks) \in Nat
    BY DEF StoreInv, StoreTypeOK
  <2>2. p + k \in 1 .. Len(blocks) \/ p + k = Len(blocks) + 1
    BY <1>2, <2>1
  <2>3. CASE p + k \in 1 .. Len(blocks)
    <3>1. blocks'[p] = blocks[p + k]
      BY <1>2, <2>1, <2>3
    <3>2. blocks[p + k].lost > 0
      BY <1>8, <3>1, Zenon
    <3> QED BY <1>5, <2>3, <3>2, Zenon DEF HonestInv
  <2>4. CASE p + k = Len(blocks) + 1
    <3>1. blocks'[p] = b
      BY <1>2, <2>1, <2>4
    <3> QED BY <1>5, <1>8, <3>1, Zenon
  <2> QED BY <2>2, <2>3, <2>4
<1> QED BY <1>6, <1>7, <1>8 DEF HonestInv

LEMMA CutHonest ==
  ASSUME StoreInv, HonestInv, NEW count \in Int, TruncateTo(count)
  PROVE  HonestInv'
<1>1. CASE UNCHANGED storeVars
  BY <1>1 DEF HonestInv, storeVars
<1>2. CASE blocks' = <<>> /\ UNCHANGED stats
  BY <1>2 DEF HonestInv
<1>3. ASSUME count < length, NEW m \in 1 .. Len(blocks),
             starts[m] < count,
             blocks' = Append(SubSeq(blocks, 1, m - 1),
                              [blocks[m] EXCEPT !.n = count - starts[m]]),
             starts' = SubSeq(starts, 1, m),
             length' = count,
             UNCHANGED stats
      PROVE  HonestInv'
  <2>1. Len(starts) = Len(blocks) /\ starts[m] \in Nat
    BY StoreFacts
  <2>2. count \in Nat
    BY <1>3, <2>1
  <2>3. CutAt(m, count)
    BY <1>3, <2>1, <2>2, CutStore DEF StoreInv
  <2>4. ASSUME NEW p \in 1 .. Len(blocks')
        PROVE  p \in 1 .. Len(blocks) /\ blocks'[p].lost = blocks[p].lost
    <3>1. Len(blocks') = m /\ Len(blocks) \in Nat
      BY <2>3, StoreFacts DEF CutAt
    <3>2. p \in 1 .. m /\ p \in 1 .. Len(blocks)
      BY <3>1
    <3>3. blocks[p] \in Block
      BY <3>2, StoreFacts
    <3>4. blocks'[p] = IF p = m THEN [blocks[m] EXCEPT !.n = count - starts[m]]
                       ELSE blocks[p]
      BY <2>3, <3>2 DEF CutAt
    <3> QED BY <3>2, <3>3, <3>4 DEF Block
  <2> QED BY <1>3, <2>4 DEF HonestInv
<1> QED BY <1>1, <1>2, <1>3 DEF TruncateTo

LEMMA HonestSteps ==
  FeedInv /\ HonestInv /\ [FeedNext]_feedVars => HonestInv'
<1> SUFFICES ASSUME FeedInv, HonestInv, [FeedNext]_feedVars
             PROVE  HonestInv'
  OBVIOUS
<1>0. StoreInv
  BY DEF FeedInv
<1>1. ASSUME NEW n \in 0 .. MaxWindow, NEW lost \in 0 .. MaxLost, Feed(n, lost)
      PROVE  HonestInv'
  BY <1>0, <1>1, FeedBlockType, AppendHonest DEF Feed
<1>2. CASE Idle
  <2>1. /\ blocks' = blocks
        /\ stats'.polls = stats.polls + 1 /\ stats'.gaps = stats.gaps
        /\ stats'.lost = stats.lost /\ stats'.stitched = stats.stitched
    BY <1>0, <1>2 DEF Idle, NoteIdlePoll, StoreInv, StoreTypeOK, StoreStats
  <2>2. stats.polls \in Nat /\ stats.gaps \in Nat /\ stats.stitched \in Nat
    BY <1>0 DEF StoreInv, StoreTypeOK, StoreStats
  <2> QED BY <2>1, <2>2 DEF HonestInv
<1>3. ASSUME NEW count \in -1 .. MaxFed, Cut(count)
      PROVE  HonestInv'
  BY <1>0, <1>3, FeedAssumption, CutHonest DEF Cut
<1>4. CASE UNCHANGED feedVars
  BY <1>4 DEF HonestInv, feedVars, storeVars
<1> QED BY <1>1, <1>2, <1>3, <1>4 DEF FeedNext

\* ContinuousIsHonest always holds: is_continuous is never claimed of a stream
\* that lost something or has a boundary, and no slice is counted both as
\* stitched and as a gap (store.py StoreStats).
THEOREM ContinuityIsHonest == FeedSpec => []ContinuousIsHonest
<1>1. FeedInit => HonestInv
  BY DEF FeedInit, StoreInit, HonestInv
<1>2. FeedInv /\ HonestInv => ContinuousIsHonest
  BY DEF FeedInv, StoreInv, StoreTypeOK, StoreStats, HonestInv, ContinuousIsHonest, Boundaries
<1> QED
  BY <1>1, <1>2, FeedSafety, HonestSteps, PTL DEF FeedSpec

-------------------------------------------------------------------------------
(***************************************************************************)
(* Saved and loaded again.  Whoever saves a store is through before it is  *)
(* used again, so the store itself goes through what StoreFeed lets it.    *)
(***************************************************************************)
THEOREM SnapshotFeeds == SnapshotSpec => FeedSpec
<1>1. SnapshotInit => FeedInit
  BY DEF SnapshotInit
<1>2. [SnapshotNext]_snapshotVars => [FeedNext]_feedVars
  <2> SUFFICES ASSUME [SnapshotNext]_snapshotVars
               PROVE  FeedNext \/ UNCHANGED feedVars
    OBVIOUS
  <2>1. CASE Use
    BY <2>1 DEF Use
  <2>2. ASSUME NEW compressed, NEW header, NEW members, Save(compressed, header, members)
        PROVE  UNCHANGED feedVars
    BY <2>2 DEF Save
  <2>3. CASE Open \/ LoadBlock \/ LoadTorn \/ FinishLoad
    BY <2>3, Zenon DEF Open, LoadBlock, LoadTorn, FinishLoad
  <2>4. CASE Closed \/ UNCHANGED snapshotVars
    BY <2>4, Zenon DEF Closed, snapshotVars
  <2> QED BY <2>1, <2>2, <2>3, <2>4 DEF SnapshotNext
<1> QED
  BY <1>1, <1>2, PTL DEF SnapshotSpec, FeedSpec

(***************************************************************************)
(* As long as no torn member was taken for a block, what has been replayed *)
(* is the front of the store that was saved, with the same index table:    *)
(* it fits, so nothing is evicted a second time.                           *)
(***************************************************************************)
Front(bs, ss, n) ==
  /\ bs \in Seq(Block) /\ ss \in Seq(Nat)
  /\ Len(bs) <= Len(blocks) /\ Len(ss) = Len(bs)
  /\ \A i \in 1 .. Len(bs) : bs[i] = blocks[i] /\ ss[i] = starts[i]
  /\ n = IF Len(bs) < Len(blocks) THEN starts[Len(bs) + 1] ELSE length

FileOfStore ==
  /\ file.specs = blocks /\ file.stats = stats
  /\ file.members \in 0 .. Len(blocks)

LoadInv ==
  /\ phase \in {"feeding", "saved"} => lblocks = <<>> /\ lstarts = <<>> /\ llength = 0
  /\ phase \in {"saved", "loading", "loaded"} => FileOfStore
  /\ phase \in {"loading", "loaded"} => file.header
  /\ phase \in {"loading", "loaded"} /\ (file.compressed \/ Whole) =>
       Front(lblocks, lstarts, llength) /\ Len(lblocks) <= file.members
  /\ phase = "loaded" => Len(lblocks) = Len(blocks) /\ lstats = stats

\* What the saved index table says of a store.
LEMMA StartsOfStore ==
  ASSUME StoreInv
  PROVE  /\ blocks \in Seq(Block) /\ starts \in Seq(Nat) /\ length \in Nat
         /\ Len(blocks) \in Nat /\ Len(starts) = Len(blocks)
         /\ \A p \in 1 .. Len(blocks) :
              /\ blocks[p] \in Block /\ blocks[p].n \in Nat /\ starts[p] \in Nat
              /\ starts[p] + blocks[p].n =
                   IF p < Len(blocks) THEN starts[p + 1] ELSE length
         /\ Len(blocks) >= 1 => starts[1] = 0
         /\ Len(blocks) = 0 => length = 0
         /\ length <= Capacity \/ Len(blocks) = 1
<1>1. /\ blocks \in Seq(Block) /\ starts \in Seq(Nat) /\ length \in Nat
      /\ Len(blocks) \in Nat /\ Len(starts) = Len(blocks)
      /\ \A p \in 1 .. Len(blocks) :
           blocks[p] \in Block /\ blocks[p].n \in Nat /\ starts[p] \in Nat
  BY StoreFacts
<1>2. /\ Len(blocks) >= 1 => blocks # <<>>
      /\ Len(blocks) = 0 => blocks = <<>>
  BY <1>1
<1>3. ASSUME NEW p \in 1 .. Len(blocks)
      PROVE  starts[p] + blocks[p].n = IF p < Len(blocks) THEN starts[p + 1] ELSE length
  <2>1. blocks # <<>>
    BY <1>1, <1>2
  <2>2. CASE p < Len(blocks)
    <3>1. p \in 1 .. (Len(blocks) - 1)
      BY <1>1, <2>2
    <3> QED BY <2>1, <2>2, <3>1 DEF StoreInv, StartsMatchBlocks
  <2>3. CASE ~(p < Len(blocks))
    <3>1. p = Len(blocks)
      BY <1>1, <2>3
    <3> QED BY <2>1, <2>3, <3>1 DEF StoreInv, StartsMatchBlocks
  <2> QED BY <2>2, <2>3
<1>4. /\ Len(blocks) >= 1 => starts[1] = 0
      /\ Len(blocks) = 0 => length = 0
      /\ length <= Capacity \/ Len(blocks) = 1
  BY <1>2 DEF StoreInv, StartsMatchBlocks, CapacityBound
<1> QED BY <1>1, <1>3, <1>4

\* No prefix is longer than the store.
LEMMA FrontFits ==
  ASSUME StoreInv, NEW p \in 1 .. Len(blocks)
  PROVE  starts[p] + blocks[p].n <= length
BY StoreFacts

LEMMA ReplayKeepsFront ==
  ASSUME StoreInv, NEW r \in Nat, r = Len(lblocks), r < Len(blocks),
         Front(lblocks, lstarts, llength), NEW b, b = blocks[r + 1],
         Loaded!AppendBlock(b), UNCHANGED storeVars
  PROVE  Front(lblocks, lstarts, llength)' /\ Len(lblocks') = r + 1
<1>1. /\ blocks \in Seq(Block) /\ starts \in Seq(Nat) /\ length \in Nat
      /\ Len(blocks) \in Nat /\ r + 1 \in 1 .. Len(blocks) /\ Capacity \in Nat
      /\ b \in Block /\ b.n \in Nat /\ starts[r + 1] \in Nat
      /\ starts[r + 1] + b.n = IF r + 1 < Len(blocks) THEN starts[(r + 1) + 1] ELSE length
      /\ starts[1] = 0 /\ starts[r + 1] + b.n <= length
      /\ length <= Capacity \/ Len(blocks) = 1
  <2>1. r + 1 \in 1 .. Len(blocks) /\ Len(blocks) >= 1
    BY StartsOfStore
  <2> QED BY <2>1, StartsOfStore, FrontFits, CapacityAssumption
<1>2. /\ lblocks \in Seq(Block) /\ lstarts \in Seq(Nat) /\ Len(lstarts) = r
      /\ \A i \in 1 .. r : lblocks[i] = blocks[i] /\ lstarts[i] = starts[i]
      /\ llength = starts[r + 1]
  BY <1>1 DEF Front
<1>3. PICK bs \in Seq(Block) : bs = Append(lblocks, b)
  <2>1. Append(lblocks, b) \in Seq(Block)
    BY <1>1, <1>2
  <2> QED BY <2>1, Zenon
<1>4. PICK ss \in Seq(Nat) : ss = Append(lstarts, llength)
  <2>1. Append(lstarts, llength) \in Seq(Nat)
    BY <1>1, <1>2
  <2> QED BY <2>1, Zenon
<1>5. /\ Len(bs) = r + 1 /\ Len(ss) = r + 1
      /\ \A i \in 1 .. (r + 1) : bs[i] = blocks[i] /\ ss[i] = starts[i]
  <2>1. /\ Len(bs) = r + 1 /\ bs[r + 1] = b /\ \A i \in 1 .. r : bs[i] = lblocks[i]
    BY <1>1, <1>2, <1>3, AppendProperties
  <2>2. /\ Len(ss) = r + 1 /\ ss[r + 1] = llength /\ \A i \in 1 .. r : ss[i] = lstarts[i]
    BY <1>1, <1>2, <1>4, AppendProperties
  <2>3. \A i \in 1 .. (r + 1) : i \in 1 .. r \/ i = r + 1
    OBVIOUS
  <2> QED BY <1>2, <2>1, <2>2, <2>3
<1>6. PICK k \in 0 .. r :
        /\ Evicts(k, bs, ss, llength + b.n)
        /\ lblocks' = SubSeq(bs, k + 1, Len(bs))
        /\ lstarts' = [i \in 1 .. (Len(bs) - k) |-> ss[i + k] - ss[k + 1]]
        /\ llength' = (llength + b.n) - ss[k + 1]
  BY <1>3, <1>4, Zenon DEF Loaded!AppendBlock, Loaded!Evicts, Evicts
<1>7. ss[1] = 0
  BY <1>1, <1>5
<1>8. k = 0
  <2> SUFFICES ASSUME k > 0
               PROVE  FALSE
    OBVIOUS
  <2>1. 0 \in 0 .. (k - 1)
    OBVIOUS
  <2>2. (llength + b.n) - ss[0 + 1] > Capacity
    BY <1>6, <2>1 DEF Evicts
  <2>3. r >= 1 /\ ~(Len(blocks) = 1)
    BY <1>1
  <2>4. PICK total \in Nat : total = llength + b.n /\ total <= length
    BY <1>1, <1>2
  <2>5. total - 0 > Capacity
    <3>1. ss[0 + 1] = 0
      BY <1>7
    <3> QED BY <2>2, <2>4, <3>1
  <2> QED BY <1>1, <2>3, <2>4, <2>5
<1>9. lblocks' = bs
  BY <1>5, <1>6, <1>8, SubSeqFull
<1>10. lstarts' = ss
  <2>1. lstarts' = [i \in 1 .. (r + 1) |-> ss[i + 0] - ss[0 + 1]]
    BY <1>5, <1>6, <1>8
  <2>2. \A i \in 1 .. (r + 1) : ss[i + 0] - ss[0 + 1] = ss[i]
    BY <1>5, <1>7
  <2>3. lstarts' = [i \in 1 .. (r + 1) |-> ss[i]]
    BY <2>1, <2>2
  <2>4. ss = [i \in 1 .. (r + 1) |-> ss[i]]
    BY <1>5
  <2> QED BY <2>3, <2>4, Zenon
<1>11. llength' = starts[r + 1] + b.n
  <2>1. ss[k + 1] = 0
    BY <1>7, <1>8
  <2>2. llength' = (llength + b.n) - 0
    BY <1>6, <2>1
  <2> QED BY <1>1, <1>2, <2>2
<1>12. /\ Len(bs) <= Len(blocks) /\ Len(ss) = Len(bs)
       /\ \A i \in 1 .. Len(bs) : bs[i] = blocks[i] /\ ss[i] = starts[i]
       /\ llength' = IF Len(bs) < Len(blocks) THEN starts[Len(bs) + 1] ELSE length
  BY <1>1, <1>5, <1>11
<1>13. Front(bs, ss, llength')
  BY <1>3, <1>4, <1>12 DEF Front
<1>14. blocks' = blocks /\ starts' = starts /\ length' = length
  BY DEF storeVars
<1> QED BY <1>5, <1>9, <1>10, <1>13, <1>14 DEF Front

LEMMA LoadInvInit == SnapshotInit => LoadInv
BY DEF SnapshotInit, LoadInv, Loaded!StoreInit

\* Nothing but Use touches the store.
LEMMA StoreStays ==
  ASSUME UNCHANGED feedVars
  PROVE  /\ blocks' = blocks /\ starts' = starts /\ length' = length /\ stats' = stats
         /\ UNCHANGED storeVars
BY DEF feedVars, storeVars

LEMMA LoadInvNext == FeedInv /\ LoadInv /\ [SnapshotNext]_snapshotVars => LoadInv'
<1> SUFFICES ASSUME FeedInv, LoadInv, [SnapshotNext]_snapshotVars
             PROVE  LoadInv'
  OBVIOUS
<1>1. StoreInv /\ Len(blocks) \in Nat /\ blocks \in Seq(Block)
  BY StartsOfStore DEF FeedInv
<1>2. CASE Use
  BY <1>2 DEF Use, LoadInv, loadVars
<1>3. ASSUME NEW compressed \in BOOLEAN, NEW header \in BOOLEAN,
             NEW members \in 0 .. Len(blocks), Save(compressed, header, members)
      PROVE  LoadInv'
  <2>1. /\ phase = "feeding" /\ phase' = "saved" /\ UNCHANGED feedVars /\ UNCHANGED loadVars
        /\ file'.specs = blocks /\ file'.stats = stats /\ file'.members = members
    BY <1>3 DEF Save
  <2> QED BY <2>1, StoreStays DEF LoadInv, FileOfStore, loadVars
<1>4. CASE Open
  <2>1. /\ phase = "saved" /\ UNCHANGED feedVars /\ file' = file /\ UNCHANGED loadVars
        /\ phase' = IF file.header THEN "loading" ELSE "raised"
    BY <1>4 DEF Open
  <2>2. FileOfStore /\ lblocks = <<>> /\ lstarts = <<>> /\ llength = 0
    BY <2>1 DEF LoadInv
  <2>3. Front(<<>>, <<>>, 0)
    BY <1>1, StartsOfStore DEF Front
  <2>4. /\ lblocks' = lblocks /\ lstarts' = lstarts /\ llength' = llength
        /\ (phase' = "loading" => file.header) /\ phase' \in {"loading", "raised"}
    BY <2>1 DEF loadVars
  <2>5. 0 <= file.members
    BY <1>1, <2>2 DEF FileOfStore
  <2> QED BY <2>1, <2>2, <2>3, <2>4, <2>5, StoreStays DEF LoadInv, FileOfStore, Front
<1>5. CASE LoadBlock
  <2>1. /\ phase = "loading" /\ UNCHANGED feedVars /\ file' = file /\ phase' = phase
        /\ Replayed < file.members /\ Loaded!AppendBlock(file.specs[Replayed + 1])
    BY <1>5 DEF LoadBlock
  <2>2. FileOfStore /\ file.header
    BY <2>1 DEF LoadInv
  <2>3. ASSUME file.compressed \/ Whole
        PROVE  Front(lblocks, lstarts, llength)' /\ Len(lblocks') <= file.members
    <3>1. Front(lblocks, lstarts, llength)
      BY <2>1, <2>3 DEF LoadInv
    <3>2. PICK n \in Nat : n = Len(lblocks) /\ n < file.members
      BY <2>1, <3>1 DEF Front, Replayed
    <3>3. n < Len(blocks) /\ file.members \in Nat
      BY <1>1, <2>2, <3>2 DEF FileOfStore
    <3>4. Loaded!AppendBlock(blocks[n + 1])
      BY <2>1, <2>2, <3>2 DEF FileOfStore, Replayed
    <3>5. Front(lblocks, lstarts, llength)' /\ Len(lblocks') = n + 1
      BY <1>1, <2>1, <3>1, <3>2, <3>3, <3>4, ReplayKeepsFront, StoreStays
    <3> QED BY <3>2, <3>3, <3>5
  <2>4. file'.compressed \/ Whole' => file.compressed \/ Whole
    BY <2>1 DEF Whole
  <2> QED BY <2>1, <2>2, <2>3, <2>4, StoreStays DEF LoadInv, FileOfStore
<1>6. CASE LoadTorn
  <2>1. /\ phase = "loading" /\ UNCHANGED feedVars /\ file' = file
        /\ file.members <= Replayed /\ Replayed < Len(file.specs)
        /\ \/ phase' = "raised"
           \/ ~file.compressed /\ phase' = phase
    BY <1>6, Zenon DEF LoadTorn
  <2>2. FileOfStore /\ file.header
    BY <2>1 DEF LoadInv
  <2>3. CASE phase' = "raised"
    BY <2>3 DEF LoadInv
  <2>4. CASE ~file.compressed /\ phase' = phase
    <3>1. ~Whole
      <4>1. ASSUME Whole
            PROVE  FALSE
        <5>1. Front(lblocks, lstarts, llength)
          BY <2>1, <4>1 DEF LoadInv
        <5>2. Replayed \in Nat
          BY <5>1 DEF Front, Replayed
        <5>3. file.members = Len(blocks) /\ file.specs = blocks
          BY <2>2, <4>1 DEF Whole, FileOfStore
        <5> QED BY <1>1, <2>1, <5>2, <5>3
      <4> QED BY <4>1
    <3>2. ~Whole' /\ ~file'.compressed
      BY <2>1, <2>4, <3>1 DEF Whole
    <3> QED BY <2>1, <2>2, <2>4, <3>2, StoreStays DEF LoadInv, FileOfStore
  <2> QED BY <2>1, <2>3, <2>4
<1>7. CASE FinishLoad
  <2>1. /\ phase = "loading" /\ phase' = "loaded" /\ UNCHANGED feedVars /\ file' = file
        /\ Replayed = Len(file.specs) /\ lstats' = file.stats
        /\ lblocks' = lblocks /\ lstarts' = lstarts /\ llength' = llength
    BY <1>7 DEF FinishLoad
  <2>2. FileOfStore /\ file.header
    BY <2>1 DEF LoadInv
  <2>3. Len(lblocks') = Len(blocks') /\ lstats' = stats'
    BY <2>1, <2>2, StoreStays DEF FileOfStore, Replayed
  <2>4. (file.compressed \/ Whole)' => file.compressed \/ Whole
    BY <2>1 DEF Whole
  <2>5. file.compressed \/ Whole =>
          Front(lblocks, lstarts, llength) /\ Len(lblocks) <= file.members
    BY <2>1 DEF LoadInv
  <2> QED BY <2>1, <2>2, <2>3, <2>4, <2>5, StoreStays DEF LoadInv, FileOfStore, Front
<1>8. CASE Closed \/ UNCHANGED snapshotVars
  <2>1. UNCHANGED snapshotVars
    BY <1>8, Zenon DEF Closed
  <2> QED BY <2>1 DEF snapshotVars, feedVars, storeVars, loadVars, LoadInv, FileOfStore, Front, Whole
<1> QED BY <1>2, <1>3, <1>4, <1>5, <1>6, <1>7, <1>8 DEF SnapshotNext

(***************************************************************************)
(* describe adds up the lengths of the header; the sums are the indices of *)
(* the table.  Offset is defined by recursion, so that it has a value at   *)
(* all is shown by giving it, and that it is the only one by the least     *)
(* index where another could differ.                                       *)
(***************************************************************************)
LEMMA LeastNatural ==
  ASSUME NEW T, T \subseteq Nat, T # {}
  PROVE  \E x \in T : \A y \in T : x <= y
<1>1. PICK x \in T : \A y \in T : ~(<<y, x>> \in OpToRel(<, Nat))
  BY NatLessThanWellFounded, WFMin
<1>2. ASSUME NEW y \in T
      PROVE  x <= y
  <2>1. x \in Nat /\ y \in Nat /\ <<y, x>> \in Nat \X Nat
    OBVIOUS
  <2>2. ~(y < x)
    BY <1>1, <2>1 DEF OpToRel
  <2> QED BY <2>1, <2>2
<1> QED BY <1>1, <1>2

LEMMA OffsetsAreStarts ==
  ASSUME StoreInv, file.specs = blocks
  PROVE  \A k \in 0 .. Len(blocks) :
           Offset[k] = IF k < Len(blocks) THEN starts[k + 1] ELSE length
<1>1. PICK n \in Nat : n = Len(blocks)
  BY StartsOfStore
<1>2. PICK size \in [1 .. n -> Nat] : size = [i \in 1 .. n |-> blocks[i].n]
  <2>1. [i \in 1 .. n |-> blocks[i].n] \in [1 .. n -> Nat]
    BY <1>1, StartsOfStore
  <2> QED BY <2>1, Zenon
<1>3. PICK g : g = [i \in 0 .. n |-> IF i < n THEN starts[i + 1] ELSE length]
  OBVIOUS
<1>4. /\ n >= 1 => starts[1] = 0
      /\ n = 0 => length = 0
      /\ length \in Nat
      /\ \A p \in 1 .. n :
           /\ starts[p] \in Nat
           /\ starts[p] + size[p] = IF p < n THEN starts[p + 1] ELSE length
  BY <1>1, <1>2, StartsOfStore
<1>5. /\ g[0] = 0
      /\ \A i \in 0 .. n : g[i] \in Nat
      /\ \A i \in 1 .. n : g[i] = g[i - 1] + size[i]
  <2>1. g[0] = 0
    BY <1>3, <1>4
  <2>2. ASSUME NEW i \in 0 .. n
        PROVE  g[i] \in Nat
    <3>1. i < n => i + 1 \in 1 .. n
      OBVIOUS
    <3> QED BY <1>3, <1>4, <3>1
  <2>3. ASSUME NEW i \in 1 .. n
        PROVE  g[i] = g[i - 1] + size[i]
    <3>1. g[i - 1] = starts[i]
      <4>1. i - 1 \in 0 .. n /\ i - 1 < n /\ (i - 1) + 1 = i
        OBVIOUS
      <4> QED BY <1>3, <4>1
    <3>2. g[i] = IF i < n THEN starts[i + 1] ELSE length
      BY <1>3
    <3> QED BY <1>4, <3>1, <3>2
  <2> QED BY <2>1, <2>2, <2>3
<1> DEFINE Sums(f) == f = [i \in 0 .. Len(file.specs) |->
                            IF i = 0 THEN 0 ELSE f[i - 1] + file.specs[i].n]
<1>6. Offset = CHOOSE f : Sums(f)
  BY DEF Offset
<1>7. \A f : Sums(f) <=> f = [i \in 0 .. n |-> IF i = 0 THEN 0 ELSE f[i - 1] + size[i]]
  <2> SUFFICES ASSUME NEW f
               PROVE  [i \in 0 .. Len(file.specs) |->
                         IF i = 0 THEN 0 ELSE f[i - 1] + file.specs[i].n]
                      = [i \in 0 .. n |-> IF i = 0 THEN 0 ELSE f[i - 1] + size[i]]
    BY Zenon
  <2>1. \A i \in 0 .. n : i # 0 => file.specs[i].n = size[i]
    BY <1>1, <1>2
  <2> QED BY <1>1, <2>1
<1>8. Sums(g)
  <2>1. \A i \in 0 .. n : g[i] = IF i = 0 THEN 0 ELSE g[i - 1] + size[i]
    BY <1>5
  <2>2. g = [i \in 0 .. n |-> g[i]]
    BY <1>3
  <2>3. g = [i \in 0 .. n |-> IF i = 0 THEN 0 ELSE g[i - 1] + size[i]]
    BY <2>1, <2>2
  <2> QED BY <1>7, <2>3
<1>9. PICK f : f = Offset
  OBVIOUS
<1>10. Sums(f)
  <2> HIDE DEF Sums
  <2> QED BY <1>6, <1>8, <1>9
<1>11. f = [i \in 0 .. n |-> IF i = 0 THEN 0 ELSE f[i - 1] + size[i]]
  BY <1>7, <1>10
<1>12. f[0] = 0 /\ \A i \in 1 .. n : f[i] = f[i - 1] + size[i]
  <2>1. \A i \in 0 .. n : f[i] = IF i = 0 THEN 0 ELSE f[i - 1] + size[i]
    BY <1>11, Zenon
  <2>2. 0 \in 0 .. n /\ \A i \in 1 .. n : i \in 0 .. n /\ i # 0
    OBVIOUS
  <2> QED BY <2>1, <2>2
<1>13. \A i \in 0 .. n : f[i] = g[i]
  <2> DEFINE T == {i \in 0 .. n : f[i] # g[i]}
  <2> SUFFICES ASSUME T # {}
               PROVE  FALSE
    OBVIOUS
  <2>1. T \subseteq Nat
    OBVIOUS
  <2>2. PICK x \in T : \A y \in T : x <= y
    <3> HIDE DEF T
    <3> QED BY <2>1, LeastNatural
  <2>3. x \in 0 .. n /\ f[x] # g[x] /\ x # 0
    BY <1>5, <1>12
  <2>4. x - 1 \in 0 .. n /\ x - 1 \notin T /\ x \in 1 .. n
    BY <2>2, <2>3
  <2>5. f[x - 1] = g[x - 1]
    BY <2>4
  <2> QED BY <1>5, <1>12, <2>3, <2>4, <2>5
<1> QED BY <1>1, <1>3, <1>9, <1>13

LEMMA LoadsHonestly == FeedInv /\ LoadInv => LoadHonest
<1> SUFFICES ASSUME FeedInv, LoadInv, phase = "loaded"
             PROVE  /\ Whole => <<lblocks, lstarts, llength, lstats>> = <<blocks, starts, length, stats>>
                    /\ Whole => Described = [instructionCount |-> llength,
                                             blockCount |-> Len(lblocks),
                                             boundaries |-> Loaded!Boundaries]
                    /\ file.compressed => Whole
  BY DEF LoadHonest, LoadRestores, DescribeAgrees, TornIsRefused
<1>1. /\ StoreInv /\ FileOfStore /\ file.header /\ Len(lblocks) = Len(blocks) /\ lstats = stats
      /\ file.compressed \/ Whole => Front(lblocks, lstarts, llength)
      /\ file.compressed => Len(lblocks) <= file.members
  BY DEF FeedInv, LoadInv
<1>2. /\ blocks \in Seq(Block) /\ starts \in Seq(Nat) /\ length \in Nat
      /\ Len(blocks) \in Nat /\ Len(starts) = Len(blocks)
  BY <1>1, StartsOfStore
<1>3. file.compressed => Whole
  BY <1>1, <1>2 DEF Whole, FileOfStore
<1>4. ASSUME Whole
      PROVE  lblocks = blocks /\ lstarts = starts /\ llength = length
  <2>1. Front(lblocks, lstarts, llength)
    BY <1>1, <1>4
  <2>2. lblocks = blocks
    BY <1>1, <1>2, <2>1 DEF Front
  <2>3. lstarts = starts
    BY <1>1, <1>2, <2>1 DEF Front
  <2>4. llength = length
    BY <1>1, <1>2, <2>1 DEF Front
  <2> QED BY <2>2, <2>3, <2>4
<1>5. ASSUME Whole
      PROVE  Described = [instructionCount |-> llength, blockCount |-> Len(lblocks),
                          boundaries |-> Loaded!Boundaries]
  <2>1. file.specs = blocks
    BY <1>1 DEF FileOfStore
  <2>2. \A k \in 0 .. Len(blocks) :
          Offset[k] = IF k < Len(blocks) THEN starts[k + 1] ELSE length
    BY <1>1, <2>1, OffsetsAreStarts
  <2>3. PICK count : count = Offset
    OBVIOUS
  <2>4. count[Len(blocks)] = length
    BY <1>2, <2>2, <2>3
  <2>5. \A p \in 1 .. Len(blocks) : count[p - 1] = starts[p]
    BY <1>2, <2>2, <2>3
  <2>6. {count[k - 1] : k \in {j \in 1 .. Len(blocks) : blocks[j].lost > 0 /\ count[j - 1] > 0}}
          = {starts[p] : p \in {q \in 1 .. Len(blocks) : blocks[q].lost > 0 /\ starts[q] > 0}}
    BY <2>5
  <2>7. Loaded!Boundaries
          = {starts[p] : p \in {q \in 1 .. Len(blocks) : blocks[q].lost > 0 /\ starts[q] > 0}}
    BY <1>4, <1>5 DEF Loaded!Boundaries
  <2>8. DOMAIN file.specs = 1 .. Len(blocks)
    BY <1>2, <2>1
  <2>9. Described.boundaries
          = {count[k - 1] : k \in {j \in DOMAIN file.specs :
               file.specs[j].lost > 0 /\ count[j - 1] > 0}}
    BY <2>3, Zenon DEF Described
  <2>10. Described.boundaries = Loaded!Boundaries
    BY <2>1, <2>6, <2>7, <2>8, <2>9
  <2>11. Described = [instructionCount |-> Offset[Len(file.specs)], blockCount |-> Len(file.specs),
                      boundaries |-> Described.boundaries]
    BY DEF Described
  <2>12. Offset[Len(file.specs)] = llength /\ Len(file.specs) = Len(lblocks)
    BY <1>1, <1>4, <1>5, <2>1, <2>3, <2>4
  <2> QED BY <2>10, <2>11, <2>12, Zenon
<1> QED BY <1>1, <1>3, <1>4, <1>5

\* What load returns of a file written whole is what was saved, as describe
\* announces it: blocks, index table and counters, whatever the store went
\* through before; a compressed file is refused wherever its writer died
\* (store.py:464-657).
THEOREM SnapshotsLoadHonestly == SnapshotSpec => []LoadHonest
<1>1. SnapshotSpec => []FeedInv
  BY SnapshotFeeds, FeedSafety, PTL
<1>2. FeedInv /\ LoadInv /\ [SnapshotNext]_snapshotVars => LoadInv'
  BY LoadInvNext
<1>3. FeedInv /\ LoadInv => LoadHonest
  BY LoadsHonestly
<1> QED
  BY <1>1, <1>2, <1>3, LoadInvInit, PTL DEF SnapshotSpec

\* What is proved of any honest caller holds as long as the store is in use,
\* and after it was saved: the index table and the bound, the loss remembered,
\* the boundaries and the items (store.py:218-457).
THEOREM SnapshotKeepsTheStore ==
  SnapshotSpec => [](/\ StartsMatchBlocks /\ CapacityBound /\ LossRemembered
                     /\ ContinuousIsHonest /\ BoundariesExact
                     /\ IndexingMatchesIteration)
BY SnapshotFeeds, IndexTableCorrect, StoreBounded, NothingForgotten, ContinuityIsHonest,
   BoundariesAreExact, IndexingIsIteration, PTL
===============================================================================
