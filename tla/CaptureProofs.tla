----------------------------- MODULE CaptureProofs -----------------------------
(***************************************************************************)
(* Theorems about read_extended for every target, clamp, capacity and      *)
(* slice limit, with steps that raise.  The first part is over any number  *)
(* of calls that share a store, with a counter that wraps or fails to      *)
(* answer; the second, from PosInv on, is about one call.  The third, from *)
(* ReleaseInv on, is about run_capture: however a capture ends, the probe  *)
(* is handed back; and what is returned: the invariants of read_extended   *)
(* hold of a capture that runs in slices, a short one reads one window,    *)
(* and a result that is not marked as truncated is the whole run.          *)
(***************************************************************************)
EXTENDS Capture, TraceStoreProofs

(***************************************************************************)
(* What was read lies before what a read can still reach; and the windows, *)
(* of which those of the store come before those of the stash, lie one     *)
(* after the other, whichever two are compared.                            *)
(***************************************************************************)
OrderInv ==
  /\ \A i \in 1 .. Len(blocks) : blocks[i].first + blocks[i].n <= retired - fresh
  /\ \A i \in 1 .. Len(pending) : pending[i].first + pending[i].n <= retired - fresh
  /\ \A i, j \in 1 .. Len(blocks) : i < j => Follows(blocks[i], blocks[j])
  /\ \A i, j \in 1 .. Len(pending) : i < j => Follows(pending[i], pending[j])
  /\ \A i \in 1 .. Len(blocks), j \in 1 .. Len(pending) : Follows(blocks[i], pending[j])

(***************************************************************************)
(* No window is longer than one read, and the windows of the stash were    *)
(* read one right after the other, the last one last of all.               *)
(***************************************************************************)
StashInv ==
  /\ \A i \in 1 .. Len(blocks) : blocks[i].n <= Clamp
  /\ \A i \in 1 .. Len(pending) : pending[i].n <= Clamp /\ pending[i].at <= drained
  /\ \A i \in 1 .. (Len(pending) - 1) : pending[i + 1].at = pending[i].at + pending[i].n
  /\ pending # <<>> =>
       pending[Len(pending)].at + pending[Len(pending)].n = drained

(***************************************************************************)
(* The bound once more, with the points of the loop where a whole window   *)
(* is still free.                                                          *)
(***************************************************************************)
Bound == AtLeast(Capacity, Clamp)

RoomInv ==
  /\ length + InStash <= Bound + Clamp
  /\ pc \in {"loop", "go", "halt", "drain"} => length + InStash <= Bound
  /\ pc \in {"loop", "go", "halt", "drain", "progress"} => stashed = InStash

ReadInv ==
  /\ ReadTypeOK
  /\ StoreInv
  /\ OrderInv
  /\ StashInv
  /\ RoomInv

(***************************************************************************)
(* What the invariant says of the types, in the form the steps use.        *)
(***************************************************************************)
LEMMA ReadFacts ==
  ASSUME ReadInv
  PROVE  /\ length \in Nat /\ appended \in Nat /\ stashed \in Nat
         /\ retired \in Nat /\ fresh \in Nat /\ drained \in Nat
         /\ fresh <= retired
         /\ blocks \in Seq(Block) /\ pending \in Seq(Block)
         /\ Len(blocks) \in Nat /\ Len(pending) \in Nat
         /\ Clamp \in Nat /\ Capacity \in Nat /\ Bound \in Nat /\ Target \in Nat
         /\ Capacity <= Bound /\ Clamp <= Bound
<1>1. /\ length \in Nat /\ appended \in Nat /\ stashed \in Nat
      /\ retired \in Nat /\ fresh \in Nat /\ drained \in Nat
  BY DEF ReadInv, ReadTypeOK, StoreTypeOK
<1>2. {Clamp, Capacity, Target} \subseteq Nat
  BY ReadAssumption, CapacityAssumption
<1>3. Bound \in Nat /\ Capacity <= Bound /\ Clamp <= Bound
  BY <1>2 DEF Bound, AtLeast
<1> QED
  BY <1>1, <1>2, <1>3 DEF ReadInv, ReadTypeOK, StoreTypeOK

LEMMA BlockFacts ==
  ASSUME ReadInv
  PROVE  /\ \A i \in 1 .. Len(blocks) :
              /\ blocks[i] \in Block
              /\ blocks[i].first \in Nat /\ blocks[i].n \in Nat
         /\ \A i \in 1 .. Len(pending) :
              /\ pending[i] \in Block
              /\ pending[i].first \in Nat /\ pending[i].n \in Nat /\ pending[i].at \in Nat
<1>1. /\ \A i \in 1 .. Len(blocks) : blocks[i] \in Block
      /\ \A i \in 1 .. Len(pending) : pending[i] \in Block
  BY ReadFacts
<1> QED
  BY <1>1 DEF Block

LEMMA StashFacts ==
  ASSUME ReadInv
  PROVE  InStash \in Nat
<1>1. CASE pending = <<>>
  BY <1>1 DEF InStash
<1>2. CASE pending # <<>>
  <2>1. 1 \in 1 .. Len(pending)
    BY <1>2, ReadFacts
  <2>2. pending[1].at \in Nat /\ pending[1].at <= drained /\ drained \in Nat
    BY <2>1, BlockFacts, ReadFacts DEF ReadInv, StashInv
  <2> QED
    BY <1>2, <2>2 DEF InStash
<1> QED
  BY <1>1, <1>2

(***************************************************************************)
(* A store of windows, each no longer than one read, holds at most the     *)
(* capacity or one window.                                                 *)
(***************************************************************************)
LEMMA LengthFits ==
  ASSUME StoreInv, \A i \in 1 .. Len(blocks) : blocks[i].n <= Clamp
  PROVE  length <= Bound
<1>1. {Clamp, Capacity} \subseteq Nat /\ length \in Nat
  BY ReadAssumption, CapacityAssumption DEF StoreInv, StoreTypeOK
<1>2. CASE length <= Capacity
  BY <1>1, <1>2 DEF Bound, AtLeast
<1>3. CASE Len(blocks) = 1
  <2>0. blocks \in Seq(Block) /\ 1 \in 1 .. Len(blocks) /\ blocks # <<>>
    BY <1>3 DEF StoreInv, StoreTypeOK
  <2>1. length = starts[1] + blocks[1].n /\ starts[1] = 0
    BY <2>0, <1>3 DEF StoreInv, StartsMatchBlocks
  <2>2. blocks[1].n \in Nat /\ blocks[1].n <= Clamp
    <3>1. blocks[1] \in Block
      BY <2>0
    <3> QED
      BY <3>1, <2>0 DEF Block
  <2> QED
    BY <1>1, <2>1, <2>2 DEF Bound, AtLeast
<1> QED
  BY <1>2, <1>3 DEF StoreInv, CapacityBound

(***************************************************************************)
(* Steps that read nothing and build nothing.  Some lose the stash.        *)
(***************************************************************************)
LEMMA QuietStep ==
  ASSUME ReadInv, UNCHANGED <<storeVars, pending, drained>>,
         \/ UNCHANGED <<retired, fresh>>
         \/ retired' = retired + 1 /\ fresh' = fresh + 1
  PROVE  /\ StoreInv' /\ OrderInv' /\ StashInv'
         /\ InStash' = InStash /\ length' = length
<1>1. /\ blocks' = blocks /\ pending' = pending /\ drained' = drained
      /\ length' = length
  BY DEF storeVars
<1>2. StoreInv'
  BY UnchangedKeepsStoreInv DEF ReadInv
<1>3. retired' - fresh' = retired - fresh
  <2>1. retired \in Nat /\ fresh \in Nat
    BY ReadFacts
  <2> QED
    BY <2>1
<1>4. OrderInv'
  BY <1>1, <1>3 DEF ReadInv, OrderInv
<1>5. StashInv' /\ InStash' = InStash
  BY <1>1 DEF ReadInv, StashInv, InStash
<1> QED
  BY <1>1, <1>2, <1>4, <1>5

LEMMA LosingStep ==
  ASSUME ReadInv, UNCHANGED <<storeVars, drained, retired, fresh>>, pending' = <<>>
  PROVE  /\ StoreInv' /\ OrderInv' /\ StashInv'
         /\ InStash' = 0 /\ length' = length
         /\ length' <= Bound
<1>1. /\ blocks' = blocks /\ drained' = drained /\ length' = length
      /\ retired' = retired /\ fresh' = fresh
      /\ Len(pending') = 0
  BY DEF storeVars
<1>2. StoreInv'
  BY UnchangedKeepsStoreInv DEF ReadInv
<1>3. 1 .. Len(pending') = {} /\ 1 .. (Len(pending') - 1) = {}
  BY <1>1
<1>4. OrderInv'
  BY <1>1, <1>3 DEF ReadInv, OrderInv
<1>5. StashInv' /\ InStash' = 0
  BY <1>1, <1>3 DEF ReadInv, StashInv, InStash
<1>6. length <= Bound
  BY LengthFits DEF ReadInv, StashInv
<1> QED
  BY <1>1, <1>2, <1>4, <1>5, <1>6

(***************************************************************************)
(* A read: the window goes to the end of the stash.                        *)
(***************************************************************************)
LEMMA WindowFacts ==
  ASSUME ReadInv, NEW lost \in Nat
  PROVE  /\ WindowLen \in Nat /\ WindowLen <= Clamp /\ WindowLen <= fresh
         /\ Window(lost) \in Block
         /\ Window(lost).first = retired - WindowLen
         /\ Window(lost).n = WindowLen
         /\ Window(lost).at = drained
<1>1. /\ retired \in Nat /\ fresh \in Nat /\ fresh <= retired /\ Clamp \in Nat
      /\ drained \in Nat
  BY ReadFacts
<1>2. WindowLen \in Nat /\ WindowLen <= Clamp /\ WindowLen <= fresh
  BY <1>1 DEF WindowLen, AtMost
<1>3. retired - WindowLen \in Nat
  BY <1>1, <1>2
<1>4. Len(haltAt) \in Nat
  BY DEF ReadInv, ReadTypeOK
<1> QED
  BY <1>1, <1>2, <1>3, <1>4 DEF Window, Block

LEMMA StashWindow ==
  ASSUME ReadInv, NEW lost \in Nat,
         UNCHANGED storeVars, retired' = retired, fresh' = 0,
         pending' = Append(pending, Window(lost)),
         drained' = drained + WindowLen
  PROVE  /\ StoreInv' /\ OrderInv' /\ StashInv'
         /\ pending' \in Seq(Block)
         /\ InStash' = InStash + WindowLen
<1> DEFINE w == Window(lost)
<1>1. /\ WindowLen \in Nat /\ WindowLen <= Clamp /\ WindowLen <= fresh
      /\ w \in Block /\ w.first = retired - WindowLen /\ w.n = WindowLen
      /\ w.at = drained
  BY WindowFacts
<1>2. /\ retired \in Nat /\ fresh \in Nat /\ fresh <= retired /\ drained \in Nat
      /\ pending \in Seq(Block) /\ Len(pending) \in Nat
  BY ReadFacts
<1>3. pending' = Append(pending, w)
  OBVIOUS
<1> HIDE DEF w
<1>4. /\ pending' \in Seq(Block) /\ Len(pending') = Len(pending) + 1
      /\ \A i \in 1 .. Len(pending) : pending'[i] = pending[i]
      /\ pending'[Len(pending) + 1] = w
  BY <1>1, <1>2, <1>3
<1>5. ASSUME NEW i \in 1 .. Len(pending')
      PROVE  \/ i \in 1 .. Len(pending) /\ pending'[i] = pending[i]
             \/ i = Len(pending) + 1 /\ pending'[i] = w
  BY <1>2, <1>4
<1>6. blocks' = blocks
  BY DEF storeVars
<1>7. StoreInv'
  BY UnchangedKeepsStoreInv DEF ReadInv
<1>8. retired' - fresh' = retired /\ retired - fresh <= retired
  BY <1>2
<1>9. w.first + w.n = retired /\ retired - fresh <= w.first
  BY <1>1, <1>2
<1>10. OrderInv'
  <2>1. ASSUME NEW i \in 1 .. Len(blocks)
        PROVE  blocks[i].first + blocks[i].n <= retired' - fresh' /\ Follows(blocks[i], w)
    <3>1. blocks[i].first + blocks[i].n <= retired - fresh
      BY DEF ReadInv, OrderInv
    <3>2. blocks[i].first \in Nat /\ blocks[i].n \in Nat
      BY BlockFacts
    <3> QED
      BY <3>1, <3>2, <1>1, <1>2, <1>8, <1>9 DEF Follows
  <2>2. ASSUME NEW i \in 1 .. Len(pending)
        PROVE  pending[i].first + pending[i].n <= retired' - fresh' /\ Follows(pending[i], w)
    <3>1. pending[i].first + pending[i].n <= retired - fresh
      BY DEF ReadInv, OrderInv
    <3>2. pending[i].first \in Nat /\ pending[i].n \in Nat
      BY BlockFacts
    <3> QED
      BY <3>1, <3>2, <1>1, <1>2, <1>8, <1>9 DEF Follows
  <2>3. ASSUME NEW i \in 1 .. Len(pending')
        PROVE  pending'[i].first + pending'[i].n <= retired' - fresh'
    BY <1>5, <1>8, <1>9, <1>2, <2>2
  <2>4. ASSUME NEW i \in 1 .. Len(pending'), NEW j \in 1 .. Len(pending'), i < j
        PROVE  Follows(pending'[i], pending'[j])
    <3>1. i \in 1 .. Len(pending) /\ pending'[i] = pending[i]
      BY <1>2, <1>4, <1>5, <2>4
    <3>2. CASE j \in 1 .. Len(pending) /\ pending'[j] = pending[j]
      BY <3>1, <3>2, <2>4 DEF ReadInv, OrderInv
    <3>3. CASE pending'[j] = w
      BY <3>1, <3>3, <2>2
    <3> QED
      BY <1>5, <3>2, <3>3
  <2>5. ASSUME NEW i \in 1 .. Len(blocks), NEW j \in 1 .. Len(pending')
        PROVE  Follows(blocks[i], pending'[j])
    <3>1. CASE j \in 1 .. Len(pending) /\ pending'[j] = pending[j]
      BY <3>1 DEF ReadInv, OrderInv
    <3>2. CASE pending'[j] = w
      BY <3>2, <2>1
    <3> QED
      BY <1>5, <3>1, <3>2
  <2> QED
    BY <1>6, <2>1, <2>3, <2>4, <2>5 DEF ReadInv, OrderInv
<1>11. StashInv'
  <2>1. \A i \in 1 .. Len(blocks') : blocks'[i].n <= Clamp
    BY <1>6 DEF ReadInv, StashInv
  <2>2. ASSUME NEW i \in 1 .. Len(pending')
        PROVE  pending'[i].n <= Clamp /\ pending'[i].at <= drained'
    <3>1. CASE i \in 1 .. Len(pending) /\ pending'[i] = pending[i]
      <4>1. pending[i].n <= Clamp /\ pending[i].at <= drained
        BY <3>1 DEF ReadInv, StashInv
      <4>2. pending[i].at \in Nat
        BY <3>1, BlockFacts
      <4> QED
        BY <3>1, <4>1, <4>2, <1>1, <1>2
    <3>2. CASE pending'[i] = w
      BY <3>2, <1>1, <1>2
    <3> QED
      BY <1>5, <3>1, <3>2
  <2>3. ASSUME NEW i \in 1 .. (Len(pending') - 1)
        PROVE  pending'[i + 1].at = pending'[i].at + pending'[i].n
    <3>1. i \in 1 .. Len(pending) /\ pending'[i] = pending[i]
      BY <1>2, <1>4
    <3>2. CASE i < Len(pending)
      <4>1. i \in 1 .. (Len(pending) - 1) /\ i + 1 \in 1 .. Len(pending)
        BY <1>2, <3>1, <3>2
      <4>2. pending'[i + 1] = pending[i + 1]
        BY <1>4, <4>1
      <4> QED
        BY <3>1, <4>1, <4>2 DEF ReadInv, StashInv
    <3>3. CASE i = Len(pending)
      <4>1. pending'[i + 1] = w
        BY <1>4, <3>3
      <4>2. pending[i].at + pending[i].n = drained
        BY <3>1, <3>3 DEF ReadInv, StashInv
      <4> QED
        BY <3>1, <4>1, <4>2, <1>1
    <3> QED
      BY <1>2, <1>4, <3>1, <3>2, <3>3
  <2>4. pending'[Len(pending')].at + pending'[Len(pending')].n = drained'
    BY <1>1, <1>4
  <2> QED
    BY <2>1, <2>2, <2>3, <2>4 DEF StashInv
<1>12. InStash' = InStash + WindowLen
  <2>1. pending' # <<>>
    BY <1>2, <1>4
  <2>2. InStash' = drained' - pending'[1].at
    BY <2>1 DEF InStash
  <2>3. CASE pending = <<>>
    <3>1. pending'[1] = w /\ InStash = 0
      BY <2>3, <1>4 DEF InStash
    <3> QED
      BY <3>1, <2>2, <1>1, <1>2
  <2>4. CASE pending # <<>>
    <3>1. 1 \in 1 .. Len(pending)
      BY <2>4, <1>2
    <3>2. pending'[1] = pending[1] /\ pending[1].at \in Nat
      BY <3>1, <1>4, BlockFacts
    <3>3. InStash = drained - pending[1].at
      BY <2>4 DEF InStash
    <3>4. InStash' = (drained + WindowLen) - pending[1].at
      BY <3>2, <2>2
    <3> QED
      BY <3>2, <3>3, <3>4, <1>1, <1>2
  <2> QED
    BY <2>3, <2>4
<1> QED
  BY <1>4, <1>7, <1>10, <1>11, <1>12

(***************************************************************************)
(* A block is built: the oldest window of the stash goes to the end of the *)
(* store, and what the two hold together does not grow.                    *)
(***************************************************************************)
LEMMA BuildWindow ==
  ASSUME ReadInv, pending # <<>>, AppendBlock(Head(pending)),
         pending' = Tail(pending), UNCHANGED <<drained, retired, fresh>>
  PROVE  /\ StoreInv' /\ OrderInv' /\ StashInv'
         /\ pending' \in Seq(Block)
         /\ length' + InStash' <= length + InStash
<1> DEFINE w == Head(pending)
<1>1. /\ length \in Nat /\ drained \in Nat
      /\ blocks \in Seq(Block) /\ pending \in Seq(Block)
      /\ Len(blocks) \in Nat /\ Len(pending) \in Nat /\ Len(pending) >= 1
  BY ReadFacts
<1>2. w = pending[1] /\ 1 \in 1 .. Len(pending)
  BY <1>1
<1>3. w \in Block /\ w.first \in Nat /\ w.n \in Nat /\ w.at \in Nat
  BY <1>2, BlockFacts
<1>4. /\ pending' \in Seq(Block) /\ Len(pending') = Len(pending) - 1
      /\ \A i \in 1 .. Len(pending') : i + 1 \in 1 .. Len(pending) /\ pending'[i] = pending[i + 1]
  BY <1>1
<1>5. AppendBlock(w) /\ StoreInv
  BY DEF ReadInv
<1> HIDE DEF w
<1>6. StoreInv'
  BY <1>3, <1>5, AppendKeepsStoreInv
<1>7. length' <= length + w.n
  BY <1>3, <1>5, AppendWindows
<1>8. PICK k \in Nat :
        \A i \in 1 .. Len(blocks') :
          \/ i + k \in 1 .. Len(blocks) /\ blocks'[i] = blocks[i + k]
          \/ i + k = Len(blocks) + 1 /\ blocks'[i] = w
  BY <1>3, <1>5, AppendWindows
<1>9. drained' = drained /\ retired' = retired /\ fresh' = fresh
  OBVIOUS
<1>10. OrderInv'
  <2>1. ASSUME NEW i \in 1 .. Len(blocks')
        PROVE  blocks'[i].first + blocks'[i].n <= retired' - fresh'
    BY <1>2, <1>8, <1>9 DEF ReadInv, OrderInv
  <2>2. ASSUME NEW i \in 1 .. Len(pending')
        PROVE  pending'[i].first + pending'[i].n <= retired' - fresh'
    BY <1>4, <1>9 DEF ReadInv, OrderInv
  <2>3. ASSUME NEW i \in 1 .. Len(blocks'), NEW j \in 1 .. Len(blocks'), i < j
        PROVE  Follows(blocks'[i], blocks'[j])
    <3>1. i + k < j + k /\ i + k \in Nat /\ j + k \in Nat
      BY <2>3
    <3>2. i + k \in 1 .. Len(blocks) /\ blocks'[i] = blocks[i + k]
      <4>1. i + k # Len(blocks) + 1
        <5>1. j + k \in 1 .. Len(blocks) \/ j + k = Len(blocks) + 1
          BY <1>8
        <5> QED
          BY <5>1, <3>1, <1>1
      <4> QED
        BY <4>1, <1>8
    <3>3. CASE j + k \in 1 .. Len(blocks) /\ blocks'[j] = blocks[j + k]
      BY <3>1, <3>2, <3>3 DEF ReadInv, OrderInv
    <3>4. CASE blocks'[j] = w
      BY <3>2, <3>4, <1>2 DEF ReadInv, OrderInv
    <3> QED
      BY <1>8, <3>3, <3>4
  <2>4. ASSUME NEW i \in 1 .. Len(pending'), NEW j \in 1 .. Len(pending'), i < j
        PROVE  Follows(pending'[i], pending'[j])
    <3>1. i + 1 < j + 1
      BY <2>4
    <3> QED
      BY <3>1, <1>4 DEF ReadInv, OrderInv
  <2>5. ASSUME NEW i \in 1 .. Len(blocks'), NEW j \in 1 .. Len(pending')
        PROVE  Follows(blocks'[i], pending'[j])
    <3>1. j + 1 \in 1 .. Len(pending) /\ pending'[j] = pending[j + 1] /\ 1 < j + 1
      BY <1>4
    <3>2. CASE i + k \in 1 .. Len(blocks) /\ blocks'[i] = blocks[i + k]
      BY <3>1, <3>2 DEF ReadInv, OrderInv
    <3>3. CASE blocks'[i] = w
      BY <3>1, <3>3, <1>2 DEF ReadInv, OrderInv
    <3> QED
      BY <1>8, <3>2, <3>3
  <2> QED
    BY <2>1, <2>2, <2>3, <2>4, <2>5 DEF OrderInv
<1>11. StashInv'
  <2>1. ASSUME NEW i \in 1 .. Len(blocks')
        PROVE  blocks'[i].n <= Clamp
    BY <1>2, <1>8 DEF ReadInv, StashInv
  <2>2. ASSUME NEW i \in 1 .. Len(pending')
        PROVE  pending'[i].n <= Clamp /\ pending'[i].at <= drained'
    BY <1>4, <1>9 DEF ReadInv, StashInv
  <2>3. ASSUME NEW i \in 1 .. (Len(pending') - 1)
        PROVE  pending'[i + 1].at = pending'[i].at + pending'[i].n
    <3>1. i + 1 \in 1 .. (Len(pending) - 1) /\ i \in 1 .. Len(pending') /\ i + 1 \in 1 .. Len(pending')
      BY <1>1, <1>4
    <3>2. pending'[i] = pending[i + 1] /\ pending'[i + 1] = pending[(i + 1) + 1]
      BY <3>1, <1>4
    <3> QED
      BY <3>1, <3>2 DEF ReadInv, StashInv
  <2>4. ASSUME pending' # <<>>
        PROVE  pending'[Len(pending')].at + pending'[Len(pending')].n = drained'
    <3>1. Len(pending') \in 1 .. Len(pending') /\ Len(pending') + 1 = Len(pending)
      BY <2>4, <1>1, <1>4
    <3>2. pending'[Len(pending')] = pending[Len(pending)]
      BY <3>1, <1>4
    <3> QED
      BY <3>2, <1>9 DEF ReadInv, StashInv
  <2> QED
    BY <2>1, <2>2, <2>3, <2>4 DEF StashInv
<1>12. InStash = InStash' + w.n
  <2>1. InStash = drained - w.at
    BY <1>2 DEF InStash
  <2>2. CASE pending' = <<>>
    <3>4. InStash' = 0
      BY <2>2, Zenon DEF InStash
    <3>1. Len(<<>>) = 0
      OBVIOUS
    <3>2. Len(pending') = 0
      BY <2>2, <3>1, Zenon
    <3>3. Len(pending) = 1
      BY <3>2, <1>1, <1>4
    <3>5. w.at + w.n = drained
      BY <3>3, <1>2 DEF ReadInv, StashInv
    <3>6. drained - w.at = 0 + w.n
      BY <3>5, <1>1, <1>3
    <3> QED
      BY <2>1, <3>4, <3>6, Zenon
  <2>3. CASE pending' # <<>>
    <3>1. 1 \in 1 .. Len(pending') /\ 1 \in 1 .. (Len(pending) - 1)
      BY <2>3, <1>1, <1>4
    <3>2. pending'[1] = pending[1 + 1] /\ pending[1 + 1].at = pending[1].at + pending[1].n
      BY <3>1, <1>4 DEF ReadInv, StashInv
    <3>3. InStash' = drained - pending'[1].at
      BY <2>3, <1>9 DEF InStash
    <3>4. pending'[1].at = w.at + w.n
      BY <1>2, <3>2, Zenon
    <3>5. drained - w.at = (drained - (w.at + w.n)) + w.n
      BY <1>1, <1>3
    <3> QED
      BY <2>1, <3>3, <3>4, <3>5, Zenon
  <2> QED
    BY <2>2, <2>3
<1>13. length' \in Nat /\ InStash' \in Int
  <2>1. length' \in Nat
    BY <1>6 DEF StoreInv, StoreTypeOK
  <2>2. CASE pending' = <<>>
    <3>1. InStash' = 0
      BY <2>2, Zenon DEF InStash
    <3> QED
      BY <2>1, <3>1
  <2>3. CASE pending' # <<>>
    <3>1. 1 \in 1 .. Len(pending') /\ 1 + 1 \in 1 .. Len(pending) /\ pending'[1] = pending[1 + 1]
      BY <2>3, <1>1, <1>4
    <3>2. pending[1 + 1].at \in Nat
      BY <3>1, BlockFacts
    <3>3. InStash' = drained - pending'[1].at
      BY <2>3, <1>9 DEF InStash
    <3> QED
      BY <2>1, <3>1, <3>2, <3>3, <1>1
  <2> QED
    BY <2>1, <2>2, <2>3
<1>14. length' + InStash' <= length + InStash
  <2>1. PICK l \in Nat : l = length'
    BY <1>13, Zenon
  <2>2. PICK i \in Int : i = InStash'
    BY <1>13, Zenon
  <2>3. l <= length + w.n /\ InStash = i + w.n
    BY <1>7, <1>12, <2>1, <2>2, Zenon
  <2>4. l + i <= length + InStash
    BY <1>1, <1>3, <2>3
  <2> QED
    BY <2>1, <2>2, <2>4, Zenon
<1> QED
  BY <1>4, <1>6, <1>10, <1>11, <1>14

(***************************************************************************)
(* The cut at the end of a call.                                           *)
(***************************************************************************)
LEMMA CutAtEnd ==
  ASSUME ReadInv, pending = <<>>, TruncateTo(Target),
         UNCHANGED <<pending, drained, retired, fresh>>
  PROVE  /\ StoreInv' /\ OrderInv' /\ StashInv'
         /\ length' <= length /\ InStash' = InStash
<1>1. StoreInv /\ Target \in Int
  BY ReadFacts DEF ReadInv
<1>2. StoreInv'
  BY <1>1, TruncateKeepsStoreInv
<1>3. /\ length' <= length
      /\ \A i \in 1 .. Len(blocks') :
           /\ i \in 1 .. Len(blocks)
           /\ blocks'[i].first = blocks[i].first
           /\ blocks'[i].n <= blocks[i].n
  BY <1>1, CutWindows
<1>4. /\ pending' = <<>> /\ drained' = drained /\ retired' = retired /\ fresh' = fresh
      /\ InStash' = InStash
  BY DEF InStash
<1>5. 1 .. Len(pending') = {} /\ 1 .. (Len(pending') - 1) = {}
  BY <1>4
<1>6. ASSUME NEW i \in 1 .. Len(blocks')
      PROVE  /\ i \in 1 .. Len(blocks)
             /\ blocks'[i].first = blocks[i].first
             /\ blocks'[i].n <= blocks[i].n
             /\ blocks[i].first \in Nat /\ blocks[i].n \in Nat /\ blocks'[i].n \in Nat
  <2>1. blocks' \in Seq(Block)
    BY <1>2 DEF StoreInv, StoreTypeOK
  <2>2. blocks'[i] \in Block
    BY <2>1
  <2>3. blocks'[i].n \in Nat
    BY <2>2 DEF Block
  <2> QED
    BY <2>3, <1>3, BlockFacts
<1>7. OrderInv'
  <2>1. ASSUME NEW i \in 1 .. Len(blocks')
        PROVE  blocks'[i].first + blocks'[i].n <= retired' - fresh'
    <3>1. blocks[i].first + blocks[i].n <= retired - fresh
      BY <1>6 DEF ReadInv, OrderInv
    <3>2. retired \in Nat /\ fresh \in Nat /\ retired' = retired /\ fresh' = fresh
      BY <1>4, ReadFacts
    <3> QED
      BY <3>1, <3>2, <1>6
  <2>2. ASSUME NEW i \in 1 .. Len(blocks'), NEW j \in 1 .. Len(blocks'), i < j
        PROVE  Follows(blocks'[i], blocks'[j])
    <3>1. Follows(blocks[i], blocks[j])
      BY <1>6, <2>2 DEF ReadInv, OrderInv
    <3>2. /\ blocks'[i].first = blocks[i].first /\ blocks'[i].n <= blocks[i].n
          /\ blocks[i].first \in Nat /\ blocks[i].n \in Nat /\ blocks'[i].n \in Nat
      BY <1>6
    <3>3. blocks'[j].first = blocks[j].first /\ blocks[j].first \in Nat
      BY <1>6
    <3> QED
      BY <3>1, <3>2, <3>3 DEF Follows
  <2> QED
    BY <1>5, <2>1, <2>2 DEF OrderInv
<1>8. StashInv'
  <2>1. ASSUME NEW i \in 1 .. Len(blocks')
        PROVE  blocks'[i].n <= Clamp
    <3>1. blocks[i].n <= Clamp
      BY <1>6 DEF ReadInv, StashInv
    <3>2. blocks'[i].n <= blocks[i].n /\ blocks'[i].n \in Nat /\ blocks[i].n \in Nat
      BY <1>6
    <3>3. Clamp \in Nat
      BY ReadFacts
    <3> QED
      BY <3>1, <3>2, <3>3
  <2> QED
    BY <1>4, <1>5, <2>1 DEF StashInv
<1> QED
  BY <1>2, <1>3, <1>4, <1>7, <1>8

LEMMA CounterFacts ==
  ASSUME ReadInv, NEW sample \in TotalExecuted
  PROVE  sample \in Nat
<1>1. retired \in Nat /\ CounterModulus \in Nat \ {0}
  BY ReadFacts, ReadAssumption
<1>2. retired % CounterModulus \in Nat
  BY <1>1
<1>3. sample = retired % CounterModulus \/ sample = 0
  BY DEF TotalExecuted
<1> QED
  BY <1>2, <1>3

(***************************************************************************)
(* Every step keeps the invariant.                                         *)
(***************************************************************************)
LEMMA ReadInvInit == ReadInit => ReadInv
<1> SUFFICES ASSUME ReadInit PROVE ReadInv
  OBVIOUS
<1>1. StoreInv
  BY InitHasStoreInv DEF ReadInit
<1>2. /\ blocks = <<>> /\ pending = <<>> /\ length = 0 /\ stashed = 0
      /\ retired = 0 /\ fresh = 0 /\ drained = 0 /\ haltAt = <<>>
      /\ pc = "loop" /\ before = 0 /\ appended = 0 /\ slices = 0 /\ calls = 1
      /\ expired = FALSE /\ running \in BOOLEAN
  BY DEF ReadInit, StoreInit
<1>3. ReadTypeOK
  <2>1. expired \in BOOLEAN /\ running \in BOOLEAN
    BY <1>2, Zenon
  <2>2. StoreTypeOK
    BY <1>1 DEF StoreInv
  <2>3. pending \in Seq(Block) /\ haltAt \in Seq(Nat)
    BY <1>2
  <2> QED
    BY <1>2, <2>1, <2>2, <2>3 DEF ReadTypeOK
<1>4. 1 .. Len(blocks) = {} /\ 1 .. Len(pending) = {} /\ 1 .. (Len(pending) - 1) = {}
  BY <1>2
<1>5. OrderInv /\ StashInv
  BY <1>2, <1>4 DEF OrderInv, StashInv
<1>6. InStash = 0
  BY <1>2 DEF InStash
<1>7. Bound \in Nat /\ Clamp \in Nat
  BY ReadAssumption, CapacityAssumption DEF Bound, AtLeast
<1>8. RoomInv
  BY <1>2, <1>6, <1>7 DEF RoomInv
<1> QED
  BY <1>1, <1>3, <1>5, <1>8 DEF ReadInv

LEMMA HostKeepsReadInv ==
  ASSUME ReadInv, Host
  PROVE  ReadInv'
<1>1. /\ length \in Nat /\ appended \in Nat /\ stashed \in Nat
      /\ retired \in Nat /\ fresh \in Nat /\ drained \in Nat
      /\ fresh <= retired
      /\ Clamp \in Nat /\ Capacity \in Nat /\ Bound \in Nat
      /\ Capacity <= Bound /\ Clamp <= Bound
      /\ InStash \in Nat
  BY ReadFacts, StashFacts
<1>2. CASE LeaveLoop
  <2>1. StoreInv' /\ OrderInv' /\ StashInv' /\ InStash' = InStash /\ length' = length
    BY <1>2, QuietStep DEF LeaveLoop, targetVars
  <2>2. ReadTypeOK'
    BY <1>2, <2>1 DEF LeaveLoop, targetVars, ReadInv, ReadTypeOK, StoreInv
  <2>3. RoomInv'
    BY <1>2, <2>1 DEF LeaveLoop, ReadInv, RoomInv
  <2> QED
    BY <2>1, <2>2, <2>3 DEF ReadInv
<1>3. CASE StartSlice
  <2>1. StoreInv' /\ OrderInv' /\ StashInv' /\ InStash' = InStash /\ length' = length
    BY <1>3, QuietStep DEF StartSlice, targetVars
  <2>2. before' \in Nat
    BY <1>3, CounterFacts DEF StartSlice
  <2>3. ReadTypeOK'
    BY <1>3, <2>1, <2>2 DEF StartSlice, targetVars, ReadInv, ReadTypeOK, StoreInv
  <2>4. RoomInv'
    BY <1>3, <2>1 DEF StartSlice, ReadInv, RoomInv
  <2> QED
    BY <2>1, <2>3, <2>4 DEF ReadInv
<1>4. CASE Go
  <2>1. StoreInv' /\ OrderInv' /\ StashInv' /\ InStash' = InStash /\ length' = length
    BY <1>4, QuietStep DEF Go
  <2>2. ReadTypeOK'
    BY <1>4, <2>1 DEF Go, ReadInv, ReadTypeOK, StoreInv
  <2>3. RoomInv'
    BY <1>4, <2>1 DEF Go, ReadInv, RoomInv
  <2> QED
    BY <2>1, <2>2, <2>3 DEF ReadInv
<1>5. CASE Halt
  <2>1. StoreInv' /\ OrderInv' /\ StashInv' /\ InStash' = InStash /\ length' = length
    BY <1>5, QuietStep DEF Halt
  <2>2. haltAt' \in Seq(Nat)
    BY <1>1, <1>5 DEF Halt, ReadInv, ReadTypeOK
  <2>3. ReadTypeOK'
    BY <1>5, <2>1, <2>2 DEF Halt, ReadInv, ReadTypeOK, StoreInv
  <2>4. RoomInv'
    BY <1>5, <2>1 DEF Halt, ReadInv, RoomInv
  <2> QED
    BY <2>1, <2>3, <2>4 DEF ReadInv
<1>6. CASE Drain
  <2>1. PICK after \in TotalExecuted :
          LET lost == NonNeg(after - before - WindowLen)
          IN  \/ /\ WindowLen > 0 \/ lost > 0
                 /\ pending' = Append(pending, Window(lost))
                 /\ appended' = appended + WindowLen
                 /\ stashed' = stashed + WindowLen
                 /\ UNCHANGED storeVars
              \/ /\ WindowLen = 0 /\ lost = 0
                 /\ NoteIdlePoll
                 /\ UNCHANGED <<pending, appended, stashed>>
    BY <1>6 DEF Drain
  <2> DEFINE lost == NonNeg(after - before - WindowLen)
  <2>2. /\ fresh' = 0 /\ drained' = drained + WindowLen /\ pc' = "progress"
        /\ UNCHANGED <<before, slices, expired, calls, running, retired, haltAt>>
        /\ pc = "drain"
    BY <1>6 DEF Drain
  <2>3. WindowLen \in Nat /\ WindowLen <= Clamp
    BY WindowFacts
  <2>4. lost \in Nat
    <3>1. after \in Nat /\ before \in Nat
      BY CounterFacts DEF ReadInv, ReadTypeOK
    <3> QED
      BY <3>1, <2>3 DEF NonNeg
  <2> HIDE DEF lost
  <2>5. length + InStash <= Bound /\ stashed = InStash
    BY <2>2 DEF ReadInv, RoomInv
  <2>6. CASE /\ pending' = Append(pending, Window(lost))
             /\ appended' = appended + WindowLen
             /\ stashed' = stashed + WindowLen
             /\ UNCHANGED storeVars
    <3>1. /\ StoreInv' /\ OrderInv' /\ StashInv' /\ pending' \in Seq(Block)
          /\ InStash' = InStash + WindowLen
      BY <2>2, <2>4, <2>6, StashWindow
    <3>2. appended' \in Nat /\ stashed' \in Nat /\ drained' \in Nat /\ fresh' <= retired'
      BY <1>1, <2>2, <2>3, <2>6
    <3>3. ReadTypeOK'
      BY <2>2, <3>1, <3>2 DEF ReadInv, ReadTypeOK, StoreInv
    <3>4. length' = length
      BY <2>6 DEF storeVars
    <3>5. length' + InStash' <= Bound + Clamp /\ stashed' = InStash'
      BY <1>1, <2>3, <2>5, <2>6, <3>1, <3>4
    <3>6. RoomInv'
      BY <2>2, <3>5 DEF RoomInv, Bound
    <3> QED
      BY <3>1, <3>3, <3>6 DEF ReadInv
  <2>7. CASE /\ WindowLen = 0
             /\ NoteIdlePoll
             /\ UNCHANGED <<pending, appended, stashed>>
    <3>1. StoreInv'
      BY <2>7, IdlePollKeepsStoreInv DEF ReadInv
    <3>2. /\ blocks' = blocks /\ length' = length /\ pending' = pending
          /\ stashed' = stashed /\ drained' = drained
      BY <1>1, <2>2, <2>7 DEF NoteIdlePoll
    <3>3. retired' - fresh' >= retired - fresh /\ retired - fresh \in Int /\ retired' - fresh' \in Int
      BY <1>1, <2>2
    <3>4. OrderInv'
      <4>1. ASSUME NEW i \in 1 .. Len(blocks)
            PROVE  blocks[i].first + blocks[i].n <= retired' - fresh'
        <5>1. /\ blocks[i].first + blocks[i].n <= retired - fresh
              /\ blocks[i].first \in Nat /\ blocks[i].n \in Nat
          BY BlockFacts DEF ReadInv, OrderInv
        <5> QED
          BY <5>1, <3>3
      <4>2. ASSUME NEW i \in 1 .. Len(pending)
            PROVE  pending[i].first + pending[i].n <= retired' - fresh'
        <5>1. /\ pending[i].first + pending[i].n <= retired - fresh
              /\ pending[i].first \in Nat /\ pending[i].n \in Nat
          BY BlockFacts DEF ReadInv, OrderInv
        <5> QED
          BY <5>1, <3>3
      <4> QED
        BY <3>2, <4>1, <4>2 DEF ReadInv, OrderInv
    <3>5. StashInv' /\ InStash' = InStash
      BY <3>2 DEF ReadInv, StashInv, InStash
    <3>6. appended' = appended /\ fresh' <= retired'
      BY <1>1, <2>2, <2>7
    <3>7. ReadTypeOK'
      BY <2>2, <3>1, <3>2, <3>6 DEF ReadInv, ReadTypeOK, StoreInv
    <3>8. RoomInv'
      BY <1>1, <2>2, <2>5, <3>2, <3>5 DEF RoomInv, Bound
    <3> QED
      BY <3>1, <3>4, <3>5, <3>7, <3>8 DEF ReadInv
  <2> QED
    BY <2>1, <2>6, <2>7 DEF lost
<1>7. CASE Progress
  <2>1. StoreInv' /\ OrderInv' /\ StashInv' /\ InStash' = InStash /\ length' = length
    BY <1>7, QuietStep DEF Progress, targetVars
  <2>2. pc = "progress" /\ pc' = (IF length + stashed > Capacity THEN "flush" ELSE "loop")
        /\ stashed' = stashed
    BY <1>7 DEF Progress
  <2>3. ReadTypeOK'
    BY <1>7, <2>1, <2>2 DEF Progress, targetVars, ReadInv, ReadTypeOK, StoreInv
  <2>4. RoomInv'
    <3>1. length + InStash <= Bound + Clamp /\ stashed = InStash
      BY <2>2 DEF ReadInv, RoomInv
    <3>2. CASE length + stashed > Capacity
      <4>1. pc' = "flush"
        BY <2>2, <3>2
      <4> QED
        BY <4>1, <2>1, <3>1 DEF RoomInv, Bound
    <3>3. CASE ~(length + stashed > Capacity)
      <4>1. pc' = "loop" /\ length + InStash <= Bound
        BY <1>1, <2>2, <3>1, <3>3
      <4> QED
        BY <4>1, <2>1, <2>2, <3>1 DEF RoomInv, Bound
    <3> QED
      BY <3>2, <3>3
  <2> QED
    BY <2>1, <2>3, <2>4 DEF ReadInv
<1>8. CASE BuildBlock
  <2>1. /\ StoreInv' /\ OrderInv' /\ StashInv' /\ pending' \in Seq(Block)
        /\ length' + InStash' <= length + InStash
    BY <1>8, BuildWindow DEF BuildBlock, targetVars
  <2>2. pc' \in {"flush", "final"}
    BY <1>8 DEF BuildBlock
  <2>3. ReadTypeOK'
    BY <1>8, <2>1 DEF BuildBlock, targetVars, ReadInv, ReadTypeOK, StoreInv
  <2>4. length' + InStash' <= Bound + Clamp
    <3>1. length + InStash <= Bound + Clamp
      BY DEF ReadInv, RoomInv
    <3>2. length' \in Nat /\ InStash' \in Nat
      <4>1. length' \in Nat
        BY <2>1 DEF StoreInv, StoreTypeOK
      <4>2. CASE pending' = <<>>
        BY <4>1, <4>2, Zenon DEF InStash
      <4>3. CASE pending' # <<>>
        <5>1. 1 \in 1 .. Len(pending') /\ pending'[1] \in Block
          BY <2>1, <4>3
        <5>2. pending'[1].at \in Nat /\ pending'[1].at <= drained'
          BY <2>1, <5>1 DEF StashInv, Block
        <5>3. drained' = drained
          BY <1>8 DEF BuildBlock
        <5>4. InStash' = drained' - pending'[1].at
          BY <4>3 DEF InStash
        <5> QED
          BY <1>1, <4>1, <5>2, <5>3, <5>4
      <4> QED
        BY <4>1, <4>2, <4>3
    <3>3. PICK l \in Nat : l = length'
      BY <3>2, Zenon
    <3>4. PICK i \in Nat : i = InStash'
      BY <3>2, Zenon
    <3>5. l + i <= length + InStash
      BY <2>1, <3>3, <3>4, Zenon
    <3>6. l + i <= Bound + Clamp
      BY <1>1, <3>1, <3>5
    <3> QED
      BY <3>3, <3>4, <3>6, Zenon
  <2>5. RoomInv'
    BY <2>2, <2>4 DEF RoomInv, Bound
  <2> QED
    BY <2>1, <2>3, <2>5 DEF ReadInv
<1>9. CASE EndFlush
  <2>1. StoreInv' /\ OrderInv' /\ StashInv' /\ InStash' = InStash /\ length' = length
    BY <1>9, QuietStep DEF EndFlush, targetVars
  <2>2. pending = <<>> /\ stashed' = 0 /\ pc' = "loop"
    BY <1>9 DEF EndFlush
  <2>3. ReadTypeOK'
    BY <1>9, <2>1 DEF EndFlush, targetVars, ReadInv, ReadTypeOK, StoreInv
  <2>4. InStash = 0 /\ length <= Bound
    BY <2>2, LengthFits DEF ReadInv, StashInv, InStash
  <2>5. RoomInv'
    BY <1>1, <2>1, <2>2, <2>4 DEF RoomInv, Bound
  <2> QED
    BY <2>1, <2>3, <2>5 DEF ReadInv
<1>10. CASE Return
  <2>1. /\ StoreInv' /\ OrderInv' /\ StashInv'
        /\ length' <= length /\ InStash' = InStash
    BY <1>10, CutAtEnd DEF Return, targetVars
  <2>2. pc' = "done"
    BY <1>10 DEF Return
  <2>3. ReadTypeOK'
    BY <1>10, <2>1 DEF Return, targetVars, ReadInv, ReadTypeOK, StoreInv
  <2>4. length' + InStash' <= Bound + Clamp
    <3>1. length + InStash <= Bound + Clamp
      BY DEF ReadInv, RoomInv
    <3>2. length' \in Nat
      BY <2>1 DEF StoreInv, StoreTypeOK
    <3>3. /\ length \in Nat /\ InStash \in Nat /\ Bound + Clamp \in Nat
          /\ length' <= length /\ InStash' = InStash
      BY <1>1, <2>1
    <3> QED
      BY <3>1, <3>2, <3>3
  <2>5. RoomInv'
    BY <2>2, <2>4 DEF RoomInv, Bound
  <2> QED
    BY <2>1, <2>3, <2>5 DEF ReadInv
<1> QED
  BY <1>2, <1>3, <1>4, <1>5, <1>6, <1>7, <1>8, <1>9, <1>10 DEF Host

LEMMA ReadInvNext ==
  ASSUME ReadInv, [ReadNext]_readVars
  PROVE  ReadInv'
<1>1. /\ length \in Nat /\ retired \in Nat /\ fresh \in Nat /\ drained \in Nat
      /\ fresh <= retired /\ Bound \in Nat /\ Clamp \in Nat
  BY ReadFacts
<1>2. CASE Host
  BY <1>2, HostKeepsReadInv
<1>3. CASE Raise
  <2>1. /\ StoreInv' /\ OrderInv' /\ StashInv'
        /\ InStash' = 0 /\ length' = length /\ length' <= Bound
    BY <1>3, LosingStep DEF Raise, targetVars
  <2>2. pc' = "raised" /\ pending' = <<>>
    BY <1>3 DEF Raise
  <2>3. ReadTypeOK'
    BY <1>3, <2>1, <2>2 DEF Raise, targetVars, ReadInv, ReadTypeOK, StoreInv
  <2>4. RoomInv'
    BY <1>1, <2>1, <2>2 DEF RoomInv, Bound
  <2> QED
    BY <2>1, <2>3, <2>4 DEF ReadInv
<1>4. CASE Resume
  <2>1. StoreInv' /\ OrderInv' /\ StashInv' /\ InStash' = InStash /\ length' = length
    BY <1>4, QuietStep DEF Resume, hostVars
  <2>2. ReadTypeOK'
    BY <1>4, <2>1 DEF Resume, hostVars, ReadInv, ReadTypeOK, StoreInv
  <2>3. RoomInv'
    BY <1>4, <2>1 DEF Resume, hostVars, ReadInv, RoomInv
  <2> QED
    BY <2>1, <2>2, <2>3 DEF ReadInv
<1>5. CASE CallAgain
  <2>1. /\ StoreInv' /\ OrderInv' /\ StashInv'
        /\ InStash' = 0 /\ length' = length /\ length' <= Bound
    BY <1>5, LosingStep DEF CallAgain, targetVars
  <2>2. /\ pc' = "loop" /\ pending' = <<>> /\ stashed' = 0
        /\ appended' = 0 /\ slices' = 0 /\ calls' \in Nat
    BY <1>5 DEF CallAgain, ReadInv, ReadTypeOK
  <2>3. expired' \in BOOLEAN
    BY <1>5, Zenon DEF CallAgain
  <2>4. ReadTypeOK'
    BY <1>5, <2>1, <2>2, <2>3 DEF CallAgain, targetVars, ReadInv, ReadTypeOK, StoreInv
  <2>5. RoomInv'
    BY <1>1, <2>1, <2>2 DEF RoomInv, Bound
  <2> QED
    BY <2>1, <2>4, <2>5 DEF ReadInv
<1>6. CASE Retire
  <2>1. StoreInv' /\ OrderInv' /\ StashInv' /\ InStash' = InStash /\ length' = length
    BY <1>6, QuietStep DEF Retire, hostVars
  <2>2. retired' \in Nat /\ fresh' \in Nat /\ fresh' <= retired'
    BY <1>1, <1>6 DEF Retire
  <2>3. ReadTypeOK'
    BY <1>6, <2>1, <2>2 DEF Retire, hostVars, ReadInv, ReadTypeOK, StoreInv
  <2>4. RoomInv'
    BY <1>6, <2>1 DEF Retire, hostVars, ReadInv, RoomInv
  <2> QED
    BY <2>1, <2>3, <2>4 DEF ReadInv
<1>7. CASE Expire
  <2>1. StoreInv' /\ OrderInv' /\ StashInv' /\ InStash' = InStash /\ length' = length
    BY <1>7, QuietStep DEF Expire, targetVars
  <2>2. expired' \in BOOLEAN
    BY <1>7, Zenon DEF Expire
  <2>3. ReadTypeOK'
    BY <1>7, <2>1, <2>2 DEF Expire, targetVars, ReadInv, ReadTypeOK, StoreInv
  <2>4. RoomInv'
    BY <1>7, <2>1 DEF Expire, ReadInv, RoomInv
  <2> QED
    BY <2>1, <2>3, <2>4 DEF ReadInv
<1>8. CASE UNCHANGED readVars
  <2>1. StoreInv' /\ OrderInv' /\ StashInv' /\ InStash' = InStash /\ length' = length
    BY <1>8, QuietStep DEF readVars, hostVars, targetVars
  <2>2. ReadTypeOK'
    BY <1>8, <2>1 DEF readVars, hostVars, targetVars, ReadInv, ReadTypeOK, StoreInv
  <2>3. RoomInv'
    BY <1>8, <2>1 DEF readVars, hostVars, ReadInv, RoomInv
  <2> QED
    BY <2>1, <2>2, <2>3 DEF ReadInv
<1> QED
  BY <1>2, <1>3, <1>4, <1>5, <1>6, <1>7, <1>8 DEF ReadNext, Ended

(***************************************************************************)
(* The invariant holds throughout: whatever the counter answers, whichever *)
(* step raises and however many calls share the store.                     *)
(***************************************************************************)
THEOREM ReadInvariant == ReadSpec => []ReadInv
<1>1. ReadInit => ReadInv
  BY ReadInvInit
<1>2. ReadInv /\ [ReadNext]_readVars => ReadInv'
  BY ReadInvNext
<1> QED
  BY <1>1, <1>2, PTL DEF ReadSpec

(***************************************************************************)
(* Every variable of the loop, the target and the store keeps its type,    *)
(* and a read never reaches past what the core retired.                    *)
(***************************************************************************)
THEOREM ReadTypesCorrect == ReadSpec => []ReadTypeOK
<1>1. ReadInv => ReadTypeOK
  BY DEF ReadInv
<1> QED
  BY <1>1, ReadInvariant, PTL

(***************************************************************************)
(* Windows of the store and the stash never overlap and are never          *)
(* reordered (strace.py:468-470), whatever wraps, fails or raises.         *)
(***************************************************************************)
THEOREM WindowsInOrder == ReadSpec => []StreamOrdered
<1>1. ASSUME ReadInv
      PROVE  StreamOrdered
  <2>1. /\ blocks \in Seq(Block) /\ pending \in Seq(Block)
        /\ Len(blocks) \in Nat /\ Len(pending) \in Nat
    BY <1>1, ReadFacts
  <2>2. Ordered(blocks)
    <3> SUFFICES ASSUME NEW i \in 1 .. (Len(blocks) - 1)
                 PROVE  Follows(blocks[i], blocks[i + 1])
      BY DEF Ordered
    <3>1. i \in 1 .. Len(blocks) /\ i + 1 \in 1 .. Len(blocks) /\ i < i + 1
      BY <2>1
    <3> QED
      BY <1>1, <3>1 DEF ReadInv, OrderInv
  <2>3. Ordered(pending)
    <3> SUFFICES ASSUME NEW i \in 1 .. (Len(pending) - 1)
                 PROVE  Follows(pending[i], pending[i + 1])
      BY DEF Ordered
    <3>1. i \in 1 .. Len(pending) /\ i + 1 \in 1 .. Len(pending) /\ i < i + 1
      BY <2>1
    <3> QED
      BY <1>1, <3>1 DEF ReadInv, OrderInv
  <2>4. ASSUME blocks # <<>>, pending # <<>>
        PROVE  Follows(blocks[Len(blocks)], pending[1])
    <3>1. Len(blocks) \in 1 .. Len(blocks) /\ 1 \in 1 .. Len(pending)
      BY <2>1, <2>4
    <3> QED
      BY <1>1, <3>1 DEF ReadInv, OrderInv
  <2> QED
    BY <2>2, <2>3, <2>4 DEF StreamOrdered
<1> QED
  BY <1>1, ReadInvariant, PTL

(***************************************************************************)
(* Deferring the blocks does not defeat the store's bound                  *)
(* (strace.py:624-628), for every capacity and every clamp.                *)
(***************************************************************************)
THEOREM HeldWithinBound == ReadSpec => []HeldBounded
<1>1. ReadInv => HeldBounded
  BY DEF ReadInv, RoomInv, HeldBounded, Bound
<1> QED
  BY <1>1, ReadInvariant, PTL

-------------------------------------------------------------------------------
(***************************************************************************)
(* One call on a store of its own.  Where the core and the reads are at    *)
(* each statement of the loop: between a read and the next go the core     *)
(* stands where the last halt left it and nothing is unread.               *)
(***************************************************************************)
Resting == {"loop", "go", "progress", "flush", "final", "done"}

PosInv ==
  /\ calls = 1
  /\ pc = "drain" => /\ haltAt # <<>> /\ ~running
                     /\ haltAt[Len(haltAt)] = retired
                     /\ HaltedAt(Len(haltAt) - 1) <= retired - fresh
  /\ haltAt # <<>> /\ (pc \in Resting \/ pc = "halt") => retired - fresh = haltAt[Len(haltAt)]
  /\ haltAt # <<>> /\ pc \in Resting => ~running /\ fresh = 0
  /\ haltAt = <<>> => blocks = <<>> /\ pending = <<>> /\ pc \notin {"drain", "progress", "flush"}
  /\ pc \in {"done", "raised"} => pending = <<>>

LEMMA PosSteps ==
  ASSUME MaxCalls = 1, ReadInv, PosInv, [ReadNext]_readVars
  PROVE  PosInv'
<1>1. /\ retired \in Nat /\ fresh \in Nat /\ fresh <= retired
      /\ haltAt \in Seq(Nat) /\ Len(haltAt) \in Nat /\ calls = 1
  BY ReadFacts DEF ReadInv, ReadTypeOK, PosInv
<1>2. CASE LeaveLoop
  BY <1>2 DEF LeaveLoop, PosInv, Resting, storeVars, targetVars, HaltedAt
<1>3. CASE StartSlice
  BY <1>3 DEF StartSlice, PosInv, Resting, storeVars, targetVars, HaltedAt
<1>4. CASE Go
  BY <1>4 DEF Go, PosInv, Resting, storeVars, targetVars, HaltedAt
<1>5. CASE Halt
  <2>1. /\ pc = "halt" /\ pc' = "drain" /\ haltAt' = Append(haltAt, retired)
        /\ calls' = calls /\ retired' = retired /\ fresh' = fresh
    BY <1>5 DEF Halt
  <2>2. ~running'
    BY <1>5, Zenon DEF Halt
  <2>3. haltAt' # <<>> /\ Len(haltAt') = Len(haltAt) + 1 /\ haltAt'[Len(haltAt')] = retired
        /\ \A h \in 1 .. Len(haltAt) : haltAt'[h] = haltAt[h]
    BY <1>1, <2>1
  <2>4. HaltedAt(Len(haltAt) - 1)' <= retired - fresh
    <3>1. CASE haltAt = <<>>
      BY <1>1, <2>3, <3>1 DEF HaltedAt
    <3>2. CASE haltAt # <<>>
      <4>1. Len(haltAt) \in 1 .. Len(haltAt) /\ Len(haltAt') - 1 = Len(haltAt) /\ Len(haltAt) # 0
        BY <1>1, <2>3, <3>2
      <4>2. retired - fresh = haltAt[Len(haltAt)]
        BY <2>1, <3>2 DEF PosInv
      <4>3. HaltedAt(Len(haltAt) - 1)' = haltAt[Len(haltAt)]
        BY <2>3, <4>1 DEF HaltedAt
      <4> QED BY <1>1, <4>2, <4>3
    <3> QED BY <3>1, <3>2
  <2> QED BY <1>1, <2>1, <2>2, <2>3, <2>4 DEF PosInv, Resting, HaltedAt
<1>6. CASE Drain
  <2>1. /\ pc = "drain" /\ pc' = "progress" /\ fresh' = 0 /\ calls' = calls
        /\ retired' = retired /\ haltAt' = haltAt
    BY <1>6 DEF Drain
  <2>2. running' = running
    BY <1>6, Zenon DEF Drain
  <2>3. haltAt # <<>> /\ ~running /\ haltAt[Len(haltAt)] = retired
    BY <2>1 DEF PosInv
  <2>4. retired' - fresh' = haltAt'[Len(haltAt')]
    BY <1>1, <2>1, <2>3
  <2>5. ~running'
    BY <2>2, <2>3, Zenon
  <2> QED BY <1>1, <2>1, <2>3, <2>4, <2>5 DEF PosInv, Resting
<1>7. CASE Progress
  <2>1. haltAt # <<>> /\ (pc' = "flush" \/ pc' = "loop") /\ pc = "progress"
    BY <1>7 DEF Progress, PosInv
  <2> QED BY <1>7, <2>1 DEF Progress, PosInv, Resting, storeVars, targetVars
<1>8. CASE BuildBlock
  <2>1. haltAt # <<>>
    BY <1>8 DEF BuildBlock, PosInv
  <2> QED BY <1>8, <2>1 DEF BuildBlock, PosInv, Resting, targetVars
<1>9. CASE EndFlush
  BY <1>9 DEF EndFlush, PosInv, Resting, storeVars, targetVars, HaltedAt
<1>10. CASE Return
  <2>1. /\ pc = "final" /\ pc' = "done" /\ pending = <<>> /\ pending' = <<>>
        /\ calls' = calls /\ retired' = retired /\ fresh' = fresh /\ haltAt' = haltAt
        /\ TruncateTo(Target)
    BY <1>10 DEF Return, targetVars
  <2>2. running' = running
    BY <1>10 DEF Return, targetVars
  <2>3. haltAt = <<>> => blocks' = <<>>
    <3>1. haltAt = <<>> => blocks = <<>>
      BY DEF PosInv
    <3>2. StoreInv /\ Target \in Int
      BY ReadFacts DEF ReadInv
    <3>3. Len(blocks') <= Len(blocks)
      BY <2>1, <3>2, CutWindows
    <3>4. blocks' \in Seq(Block)
      BY <2>1, <3>2, TruncateKeepsStoreInv DEF StoreInv, StoreTypeOK
    <3> QED BY <3>1, <3>3, <3>4
  <2> QED BY <2>1, <2>2, <2>3 DEF PosInv, Resting
<1>11. CASE Raise
  BY <1>11 DEF Raise, PosInv, Resting, storeVars, targetVars
<1>12. CASE Retire
  <2>1. retired' = retired + 1 /\ fresh' = fresh + 1 /\ pc' = pc /\ pending' = pending
        /\ blocks' = blocks /\ haltAt' = haltAt /\ calls' = calls
    BY <1>12 DEF Retire, hostVars, storeVars
  <2>2. running /\ running' = running
    BY <1>12, Zenon DEF Retire
  <2>3. retired' - fresh' = retired - fresh
    BY <1>1, <2>1
  <2>4. pc # "drain" /\ ~(haltAt # <<>> /\ pc \in Resting)
    BY <2>2, Zenon DEF PosInv
  <2> QED BY <2>1, <2>3, <2>4 DEF PosInv
<1>13. CASE Expire
  BY <1>13 DEF Expire, PosInv, Resting, storeVars, targetVars, HaltedAt
<1>14. CASE UNCHANGED readVars
  BY <1>14 DEF readVars, hostVars, storeVars, targetVars, PosInv, HaltedAt
<1>15. ~Resume /\ ~CallAgain
  BY <1>1 DEF Resume, CallAgain
<1> QED
  BY <1>2, <1>3, <1>4, <1>5, <1>6, <1>7, <1>8, <1>9, <1>10, <1>11, <1>12, <1>13,
     <1>14, <1>15 DEF ReadNext, Host, Ended

(***************************************************************************)
(* The windows of the store and the stash, as one sequence.  A read adds   *)
(* one at the end, building a block drops some of the first, the cut drops *)
(* some of the last and shortens one.                                      *)
(***************************************************************************)
Windows == blocks \o pending

LEMMA Joined ==
  ASSUME NEW S, NEW s \in Seq(S), NEW t \in Seq(S)
  PROVE  /\ s \o t \in Seq(S) /\ Len(s \o t) = Len(s) + Len(t)
         /\ \A i \in 1 .. Len(s) : (s \o t)[i] = s[i]
         /\ \A i \in 1 .. Len(t) : (s \o t)[Len(s) + i] = t[i]
         /\ \A i \in 1 .. Len(s \o t) : i \in 1 .. Len(s) \/ i - Len(s) \in 1 .. Len(t)
OBVIOUS

LEMMA JoinedAppend ==
  ASSUME NEW S, NEW s \in Seq(S), NEW t \in Seq(S), NEW w \in S
  PROVE  s \o Append(t, w) = Append(s \o t, w)
OBVIOUS

LEMMA JoinedNothing ==
  ASSUME NEW S, NEW s \in Seq(S)
  PROVE  s \o <<>> = s
OBVIOUS

LEMMA WindowsFacts ==
  ASSUME ReadInv
  PROVE  /\ Windows \in Seq(Block) /\ Len(Windows) = Len(blocks) + Len(pending)
         /\ Len(Windows) \in Nat
         /\ \A i \in 1 .. Len(blocks) : Windows[i] = blocks[i]
         /\ \A i \in 1 .. Len(pending) : Windows[Len(blocks) + i] = pending[i]
         /\ \A i \in 1 .. Len(Windows) :
              Windows[i] \in Block /\ Windows[i].first \in Nat /\ Windows[i].n \in Nat
<1>1. blocks \in Seq(Block) /\ pending \in Seq(Block)
  BY ReadFacts
<1>2. /\ Windows \in Seq(Block) /\ Len(Windows) = Len(blocks) + Len(pending)
      /\ \A i \in 1 .. Len(blocks) : Windows[i] = blocks[i]
      /\ \A i \in 1 .. Len(pending) : Windows[Len(blocks) + i] = pending[i]
  BY <1>1, Joined DEF Windows
<1>3. Len(Windows) \in Nat /\ \A i \in 1 .. Len(Windows) : Windows[i] \in Block
  BY <1>2
<1>4. \A b \in Block : b.first \in Nat /\ b.n \in Nat
  BY DEF Block
<1> QED BY <1>2, <1>3, <1>4, Zenon

LEMMA KeptOrNew ==
  ASSUME NEW n \in Nat, NEW k \in Nat, NEW m \in Nat, m = n + 1 - k, NEW i \in 1 .. m
  PROVE  i + k \in 1 .. n \/ i + k = n + 1
OBVIOUS

LEMMA BuildDropsFirst ==
  ASSUME ReadInv, pending # <<>>, AppendBlock(Head(pending)), pending' = Tail(pending)
  PROVE  \E k \in 0 .. Len(blocks) :
           /\ Windows' \in Seq(Block) /\ Len(Windows') = Len(Windows) - k
           /\ \A i \in 1 .. Len(Windows') : Windows'[i] = Windows[i + k]
<1>1. /\ blocks \in Seq(Block) /\ pending \in Seq(Block) /\ StoreInv
      /\ Len(blocks) \in Nat /\ Len(pending) \in Nat /\ Len(pending) >= 1
  BY ReadFacts DEF ReadInv
<1>2. PICK b \in Block : b = Head(pending) /\ b = pending[1]
  BY <1>1
<1>3. AppendBlock(b)
  BY <1>2
<1>4. PICK k \in 0 .. Len(blocks), bs \in Seq(Block), ss \in Seq(Nat), d \in Nat :
        /\ bs = Append(blocks, b) /\ ss = Append(starts, length) /\ d = ss[k + 1]
        /\ (length + b.n) - d <= Capacity \/ k + 1 = Len(bs)
        /\ \A j \in 0 .. (k - 1) : (length + b.n) - ss[j + 1] > Capacity
        /\ Len(blocks') = Len(blocks) + 1 - k
        /\ \A p \in 1 .. Len(blocks') : blocks'[p] = bs[p + k]
        /\ \A p \in 1 .. Len(blocks') : starts'[p] = ss[p + k] - d
        /\ length' = (length + b.n) - d
        /\ stats' = Dropped(Counted(b), k, d)
  BY <1>1, <1>3, AppendedParts, Zenon
<1>5. /\ bs = Append(blocks, b) /\ Len(blocks') = Len(blocks) + 1 - k
      /\ \A p \in 1 .. Len(blocks') : blocks'[p] = bs[p + k]
  BY <1>4, Zenon
<1>6. blocks' \in Seq(Block)
  BY <1>1, <1>3, AppendKeepsStoreInv DEF StoreInv, StoreTypeOK
<1>7. /\ pending' \in Seq(Block) /\ Len(pending') = Len(pending) - 1
      /\ \A i \in 1 .. Len(pending') : pending'[i] = pending[i + 1] /\ i + 1 \in 1 .. Len(pending)
  BY <1>1
<1>8. /\ Windows' \in Seq(Block) /\ Len(Windows') = Len(blocks') + Len(pending')
      /\ \A i \in 1 .. Len(blocks') : Windows'[i] = blocks'[i]
      /\ \A i \in 1 .. Len(pending') : Windows'[Len(blocks') + i] = pending'[i]
  BY <1>6, <1>7, Joined DEF Windows
<1>9. k \in Nat /\ Len(Windows') = Len(Windows) - k /\ Len(blocks') \in Nat
  <2>1. k \in Nat /\ Len(blocks') \in Nat
    BY <1>1, <1>6
  <2>2. (Len(blocks) + 1 - k) + (Len(pending) - 1) = (Len(blocks) + Len(pending)) - k
    BY <1>1, <2>1
  <2>3. Len(Windows) = Len(blocks) + Len(pending)
    BY WindowsFacts
  <2> QED BY <1>5, <1>7, <1>8, <2>1, <2>2, <2>3, Zenon
<1>10. ASSUME NEW i \in 1 .. Len(Windows')
       PROVE  Windows'[i] = Windows[i + k]
  <2>1. i \in Int /\ Len(pending') \in Nat
    BY <1>7
  <2>2. CASE i \in 1 .. Len(blocks')
    <3>1. Windows'[i] = bs[i + k]
      BY <1>5, <1>8, <2>2, Zenon
    <3>2. i + k \in 1 .. Len(blocks) \/ i + k = Len(blocks) + 1
      BY <1>1, <1>5, <1>9, <2>2, KeptOrNew, Zenon
    <3>3. CASE i + k \in 1 .. Len(blocks)
      <4>1. bs[i + k] = blocks[i + k]
        BY <1>1, <1>5, <3>3
      <4>2. Windows[i + k] = blocks[i + k]
        BY <3>3, WindowsFacts
      <4> QED BY <3>1, <4>1, <4>2
    <3>4. CASE i + k = Len(blocks) + 1
      <4>1. bs[i + k] = b
        BY <1>1, <1>5, <3>4
      <4>2. Windows[Len(blocks) + 1] = pending[1]
        <5>1. 1 \in 1 .. Len(pending)
          BY <1>1
        <5> QED BY <5>1, WindowsFacts
      <4> QED BY <1>2, <3>1, <3>4, <4>1, <4>2
    <3> QED BY <3>2, <3>3, <3>4
  <2>3. CASE ~(i \in 1 .. Len(blocks'))
    <3>1. PICK j \in 1 .. Len(pending') : i = Len(blocks') + j
      <4>1. i - Len(blocks') \in 1 .. Len(pending')
        BY <1>8, <1>9, <2>1, <2>3
      <4>2. i = Len(blocks') + (i - Len(blocks'))
        BY <1>9, <2>1
      <4> QED BY <4>1, <4>2
    <3>2. Windows'[i] = pending[j + 1] /\ j + 1 \in 1 .. Len(pending)
      BY <1>7, <1>8, <3>1, Zenon
    <3>3. Windows[Len(blocks) + (j + 1)] = pending[j + 1]
      BY <3>2, WindowsFacts
    <3>4. i + k = Len(blocks) + (j + 1)
      BY <1>1, <1>5, <1>9, <2>1, <3>1
    <3> QED BY <3>2, <3>3, <3>4
  <2> QED BY <2>2, <2>3
<1> QED BY <1>8, <1>9, <1>10

LEMMA CutDropsLast ==
  ASSUME StoreInv, NEW count \in Int, TruncateTo(count)
  PROVE  /\ blocks' \in Seq(Block) /\ Len(blocks') <= Len(blocks)
         /\ \A i \in 1 .. Len(blocks') :
              /\ i \in 1 .. Len(blocks)
              /\ blocks'[i].first = blocks[i].first /\ blocks'[i].n <= blocks[i].n
              /\ blocks'[i].halt = blocks[i].halt /\ blocks'[i].lost = blocks[i].lost
              /\ blocks'[i].at = blocks[i].at /\ starts'[i] = starts[i]
              /\ i < Len(blocks') => blocks'[i].n = blocks[i].n
<1>1. blocks \in Seq(Block) /\ Len(blocks) \in Nat
  BY StoreFacts
<1>2. \A i \in 1 .. Len(blocks) : blocks[i] \in Block /\ blocks[i].n \in Nat
  BY StoreFacts
<1>3. blocks' \in Seq(Block)
  BY TruncateKeepsStoreInv DEF StoreInv, StoreTypeOK
<1>4. CASE UNCHANGED storeVars
  BY <1>1, <1>2, <1>3, <1>4 DEF storeVars
<1>5. CASE blocks' = <<>>
  BY <1>1, <1>3, <1>5
<1>6. ASSUME count < length, NEW m \in 1 .. Len(blocks),
             starts[m] < count,
             count <= starts[m] + blocks[m].n,
             blocks' = Append(SubSeq(blocks, 1, m - 1),
                              [blocks[m] EXCEPT !.n = count - starts[m]]),
             starts' = SubSeq(starts, 1, m),
             length' = count
      PROVE  /\ Len(blocks') <= Len(blocks)
             /\ \A i \in 1 .. Len(blocks') :
                  /\ i \in 1 .. Len(blocks)
                  /\ blocks'[i].first = blocks[i].first /\ blocks'[i].n <= blocks[i].n
                  /\ blocks'[i].halt = blocks[i].halt /\ blocks'[i].lost = blocks[i].lost
                  /\ blocks'[i].at = blocks[i].at /\ starts'[i] = starts[i]
                  /\ i < Len(blocks') => blocks'[i].n = blocks[i].n
  <2>1. Len(starts) = Len(blocks) /\ starts[m] \in Nat
    BY StoreFacts
  <2>2. count \in Nat
    BY <1>6, <2>1
  <2>3. CutAt(m, count)
    BY <1>6, <2>1, <2>2, CutStore DEF StoreInv
  <2>4. Len(blocks') = m /\ m <= Len(blocks) /\ m \in Nat
    BY <1>1, <2>3 DEF CutAt
  <2>5. ASSUME NEW i \in 1 .. m
        PROVE  /\ i \in 1 .. Len(blocks)
               /\ blocks'[i].first = blocks[i].first /\ blocks'[i].n <= blocks[i].n
               /\ blocks'[i].halt = blocks[i].halt /\ blocks'[i].lost = blocks[i].lost
               /\ blocks'[i].at = blocks[i].at /\ starts'[i] = starts[i]
               /\ i < Len(blocks') => blocks'[i].n = blocks[i].n
    <3>1. i \in 1 .. Len(blocks) /\ blocks[i] \in Block /\ blocks[i].n \in Nat
      BY <1>1, <1>2
    <3>2. /\ blocks'[i] = IF i = m THEN [blocks[m] EXCEPT !.n = count - starts[m]]
                          ELSE blocks[i]
          /\ starts'[i] = starts[i]
      BY <2>3 DEF CutAt
    <3>3. CASE i # m
      BY <3>1, <3>2, <3>3
    <3>4. CASE i = m
      <4>1. /\ blocks'[i].first = blocks[i].first /\ blocks'[i].n = count - starts[m]
            /\ blocks'[i].halt = blocks[i].halt /\ blocks'[i].lost = blocks[i].lost
            /\ blocks'[i].at = blocks[i].at
        BY <3>1, <3>2, <3>4 DEF Block
      <4>2. count - starts[m] <= blocks[m].n
        BY <1>6, <1>2, <2>1, <2>2
      <4>3. ~(i < Len(blocks'))
        BY <2>4, <3>4
      <4> QED BY <3>1, <3>2, <3>4, <4>1, <4>2, <4>3
    <3> QED BY <3>3, <3>4
  <2> QED BY <1>1, <1>6, <2>4, <2>5
<1> QED
  BY <1>3, <1>4, <1>5, <1>6 DEF TruncateTo

(***************************************************************************)
(* What one call does to its windows, whichever statement it is at.        *)
(***************************************************************************)
LEMMA WindowSteps ==
  ASSUME MaxCalls = 1, ReadInv, PosInv, [ReadNext]_readVars
  PROVE  \/ /\ UNCHANGED <<Windows, length>> /\ retired' - fresh' = retired - fresh
            /\ haltAt' = haltAt \/ haltAt' = Append(haltAt, retired)
            /\ pc \in {"done", "raised"} \/ pc' \in {"done", "raised"} => pc' = pc
         \/ /\ Drain
            /\ \/ Windows' = Windows /\ WindowLen = 0 /\ length' = length
               \/ \E after \in TotalExecuted :
                    Windows' = Append(Windows, Window(NonNeg(after - before - WindowLen)))
         \/ /\ BuildBlock
            /\ \E k \in 0 .. Len(blocks) :
                 /\ Windows' \in Seq(Block) /\ Len(Windows') = Len(Windows) - k
                 /\ \A i \in 1 .. Len(Windows') : Windows'[i] = Windows[i + k]
         \/ /\ Return
            /\ Windows = blocks /\ Windows' = blocks'
            /\ length' < Target => Windows' = Windows
         \/ Raise /\ Windows' = blocks
<1>1. /\ blocks \in Seq(Block) /\ pending \in Seq(Block) /\ StoreInv
      /\ length \in Nat /\ Target \in Nat /\ calls = 1
  BY ReadFacts DEF ReadInv, PosInv
<1>2. CASE Drain
  <2>1. PICK after \in TotalExecuted :
          LET lost == NonNeg(after - before - WindowLen)
          IN  \/ /\ WindowLen > 0 \/ lost > 0
                 /\ pending' = Append(pending, Window(lost))
                 /\ appended' = appended + WindowLen
                 /\ stashed' = stashed + WindowLen
                 /\ UNCHANGED storeVars
              \/ /\ WindowLen = 0 /\ lost = 0
                 /\ NoteIdlePoll
                 /\ UNCHANGED <<pending, appended, stashed>>
    BY <1>2 DEF Drain
  <2>2. PICK lost : lost = NonNeg(after - before - WindowLen)
    OBVIOUS
  <2>3. lost \in Nat
    <3>1. after \in Nat /\ before \in Nat /\ WindowLen \in Nat
      <4>1. WindowLen \in Nat
        BY WindowFacts
      <4> QED BY <4>1, CounterFacts DEF ReadInv, ReadTypeOK
    <3> QED BY <2>2, <3>1 DEF NonNeg
  <2>4. CASE pending' = Append(pending, Window(lost)) /\ UNCHANGED storeVars
    <3>1. Window(lost) \in Block
      BY <2>3, WindowFacts
    <3>2. blocks' = blocks
      BY <2>4 DEF storeVars
    <3>3. Windows' = Append(Windows, Window(lost))
      BY <1>1, <2>4, <3>1, <3>2, JoinedAppend DEF Windows
    <3> QED BY <1>2, <2>2, <3>3
  <2>5. CASE WindowLen = 0 /\ NoteIdlePoll /\ UNCHANGED <<pending, appended, stashed>>
    <3>1. Windows' = Windows /\ length' = length
      BY <2>5 DEF Windows, NoteIdlePoll
    <3> QED BY <1>2, <2>5, <3>1
  <2> QED BY <2>1, <2>2, <2>4, <2>5
<1>3. CASE BuildBlock
  <2>1. pending # <<>> /\ AppendBlock(Head(pending)) /\ pending' = Tail(pending)
    BY <1>3 DEF BuildBlock
  <2> QED BY <1>3, <2>1, BuildDropsFirst
<1>4. CASE Return
  <2>1. pending = <<>> /\ pending' = <<>> /\ TruncateTo(Target)
    BY <1>4 DEF Return
  <2>2. Windows = blocks
    BY <1>1, <2>1, JoinedNothing DEF Windows
  <2>3. blocks' \in Seq(Block)
    BY <1>1, <2>1, CutDropsLast
  <2>4. Windows' = blocks'
    BY <2>1, <2>3, JoinedNothing DEF Windows
  <2>5. length' < Target => blocks' = blocks
    <3>1. UNCHANGED storeVars => blocks' = blocks
      BY DEF storeVars
    <3>2. length' = Target => ~(length' < Target)
      BY <1>1
    <3>3. Target <= 0 /\ length' = 0 => ~(length' < Target)
      BY <1>1
    <3> QED BY <2>1, <3>1, <3>2, <3>3 DEF TruncateTo
  <2> QED BY <1>4, <2>2, <2>4, <2>5
<1>5. CASE Raise
  <2>1. pending' = <<>> /\ blocks' = blocks
    BY <1>5 DEF Raise, storeVars
  <2>2. Windows' = blocks
    BY <1>1, <2>1, JoinedNothing DEF Windows
  <2> QED BY <1>5, <2>2
<1>6. CASE LeaveLoop \/ StartSlice \/ Go \/ Halt \/ Progress \/ EndFlush
  <2>1. /\ blocks' = blocks /\ pending' = pending /\ length' = length
        /\ retired' = retired /\ fresh' = fresh
        /\ haltAt' = haltAt \/ haltAt' = Append(haltAt, retired)
    BY <1>6 DEF LeaveLoop, StartSlice, Go, Halt, Progress, EndFlush, storeVars, targetVars
  <2>2. pc \notin {"done", "raised"} /\ pc' \notin {"done", "raised"}
    BY <1>6 DEF LeaveLoop, StartSlice, Go, Halt, Progress, EndFlush
  <2> QED BY <2>1, <2>2 DEF Windows
<1>7. CASE Retire
  <2>1. /\ blocks' = blocks /\ pending' = pending /\ length' = length /\ pc' = pc
        /\ haltAt' = haltAt /\ retired' = retired + 1 /\ fresh' = fresh + 1
    BY <1>7 DEF Retire, hostVars, storeVars
  <2>2. retired' - fresh' = retired - fresh
    BY <2>1, ReadFacts
  <2> QED BY <2>1, <2>2 DEF Windows
<1>8. CASE Expire \/ UNCHANGED readVars
  <2>1. /\ blocks' = blocks /\ pending' = pending /\ length' = length /\ pc' = pc
        /\ haltAt' = haltAt /\ retired' = retired /\ fresh' = fresh
    BY <1>8 DEF Expire, readVars, hostVars, storeVars, targetVars
  <2> QED BY <2>1 DEF Windows
<1>9. ~Resume /\ ~CallAgain
  BY <1>1 DEF Resume, CallAgain
<1> QED
  BY <1>2, <1>3, <1>4, <1>5, <1>6, <1>7, <1>8, <1>9 DEF ReadNext, Host, Ended

(***************************************************************************)
(* Every window was retired between two halts, and the last one ends with  *)
(* the last instruction that was read.                                     *)
(***************************************************************************)
AtHalt(halts, h) == IF h = 0 THEN 0 ELSE halts[h]

WithinHalt(w, halts) ==
  /\ w.halt \in 1 .. Len(halts)
  /\ AtHalt(halts, w.halt - 1) <= w.first
  /\ w.first + w.n <= AtHalt(halts, w.halt)

EndsAt(s, end) == s # <<>> => s[Len(s)].first + s[Len(s)].n = end

WindowInv ==
  /\ \A i \in 1 .. Len(Windows) : WithinHalt(Windows[i], haltAt)
  /\ pc \notin {"done", "raised"} \/ (pc = "done" /\ length < Target)
       => EndsAt(Windows, retired - fresh)

LEMMA HaltsKept ==
  ASSUME NEW halts \in Seq(Nat), NEW n \in Nat, NEW later,
         later = halts \/ later = Append(halts, n),
         NEW w, WithinHalt(w, halts)
  PROVE  WithinHalt(w, later)
<1>1. Len(halts) <= Len(later) /\ \A h \in 1 .. Len(halts) : later[h] = halts[h]
  OBVIOUS
<1>2. w.halt \in 1 .. Len(halts) /\ Len(halts) \in Nat /\ Len(later) \in Nat
  BY DEF WithinHalt
<1>3. w.halt \in 1 .. Len(later)
  BY <1>1, <1>2
<1>4. w.halt - 1 = 0 \/ w.halt - 1 \in 1 .. Len(halts)
  BY <1>2
<1>5. AtHalt(later, w.halt) = AtHalt(halts, w.halt)
  BY <1>1, <1>2 DEF AtHalt
<1>6. AtHalt(later, w.halt - 1) = AtHalt(halts, w.halt - 1)
  BY <1>1, <1>4 DEF AtHalt
<1> QED BY <1>3, <1>5, <1>6 DEF WithinHalt

LEMMA BelowLast ==
  ASSUME NEW n \in Nat, n # 0
  PROVE  n \in 1 .. n /\ (n - 1 = 0 \/ n - 1 \in 1 .. n)
OBVIOUS

LEMMA DrainedWithinHalt ==
  ASSUME ReadInv, PosInv, pc = "drain", NEW lost \in Nat
  PROVE  /\ WithinHalt(Window(lost), haltAt)
         /\ Window(lost).first + Window(lost).n = retired
<1>1. /\ haltAt # <<>> /\ haltAt[Len(haltAt)] = retired
      /\ AtHalt(haltAt, Len(haltAt) - 1) <= retired - fresh
      /\ haltAt \in Seq(Nat)
  BY DEF PosInv, ReadInv, ReadTypeOK, HaltedAt, AtHalt
<1>2. /\ WindowLen \in Nat /\ WindowLen <= fresh
      /\ Window(lost).first = retired - WindowLen /\ Window(lost).n = WindowLen
  BY WindowFacts
<1>3. Window(lost).halt = Len(haltAt)
  BY DEF Window
<1>4. retired \in Nat /\ fresh \in Nat /\ fresh <= retired
  BY ReadFacts
<1>5. Len(haltAt) # 0 /\ Len(haltAt) \in Nat
  BY <1>1
<1>6. /\ Len(haltAt) \in 1 .. Len(haltAt)
      /\ Len(haltAt) - 1 = 0 \/ Len(haltAt) - 1 \in 1 .. Len(haltAt)
  BY <1>5, BelowLast
<1>7. AtHalt(haltAt, Len(haltAt)) = retired
  BY <1>1, <1>5 DEF AtHalt
<1>8. AtHalt(haltAt, Len(haltAt) - 1) \in Nat
  BY <1>1, <1>6 DEF AtHalt
<1>9. AtHalt(haltAt, Len(haltAt) - 1) <= retired - WindowLen
  BY <1>1, <1>2, <1>4, <1>8
<1>10. (retired - WindowLen) + WindowLen = retired
  BY <1>2, <1>4
<1>11. PICK w \in Block : w = Window(lost)
  BY WindowFacts
<1>12. /\ w.halt = Len(haltAt) /\ w.first = retired - WindowLen
       /\ w.first + w.n = retired
  BY <1>2, <1>3, <1>10, <1>11, Zenon
<1>13. WithinHalt(w, haltAt)
  <2>1. retired <= retired
    BY <1>4
  <2> QED BY <1>6, <1>7, <1>9, <1>12, <2>1, Zenon DEF WithinHalt
<1> QED BY <1>11, <1>12, <1>13, Zenon

LEMMA WindowInvSteps ==
  ASSUME MaxCalls = 1, ReadInv, ReadInv', PosInv, WindowInv, [ReadNext]_readVars
  PROVE  WindowInv'
<1>1. /\ Windows \in Seq(Block) /\ Len(Windows) \in Nat
      /\ Len(Windows) = Len(blocks) + Len(pending)
      /\ \A i \in 1 .. Len(blocks) : Windows[i] = blocks[i]
      /\ \A i \in 1 .. Len(Windows) :
              Windows[i] \in Block /\ Windows[i].first \in Nat /\ Windows[i].n \in Nat
  BY WindowsFacts
<1>2. /\ retired \in Nat /\ fresh \in Nat /\ Len(blocks) \in Nat /\ Len(pending) \in Nat
      /\ haltAt \in Seq(Nat)
  BY ReadFacts DEF ReadInv, ReadTypeOK
<1>3. CASE /\ UNCHANGED <<Windows, length>> /\ retired' - fresh' = retired - fresh
           /\ haltAt' = haltAt \/ haltAt' = Append(haltAt, retired)
           /\ pc \in {"done", "raised"} \/ pc' \in {"done", "raised"} => pc' = pc
  <2>1. \A i \in 1 .. Len(Windows) : WithinHalt(Windows[i], haltAt')
    BY <1>3, HaltsKept, <1>2 DEF WindowInv
  <2>2. \A i \in 1 .. Len(Windows') : WithinHalt(Windows'[i], haltAt')
    BY <1>3, <2>1
  <2>3. pc' \notin {"done", "raised"} \/ (pc' = "done" /\ length' < Target)
          => EndsAt(Windows', retired' - fresh')
    BY <1>3 DEF WindowInv
  <2> QED BY <2>2, <2>3 DEF WindowInv, EndsAt
<1>4. CASE Drain /\ Windows' = Windows /\ WindowLen = 0
  <2>1. /\ haltAt' = haltAt /\ pc = "drain" /\ pc' = "progress"
        /\ retired' = retired /\ fresh' = 0
    BY <1>4 DEF Drain
  <2>2. fresh = 0
    BY <1>2, <1>4, ReadFacts, ReadAssumption DEF WindowLen, AtMost
  <2>3. \A i \in 1 .. Len(Windows) : WithinHalt(Windows[i], haltAt')
    BY <2>1, HaltsKept, <1>2 DEF WindowInv
  <2>4. EndsAt(Windows', retired' - fresh')
    BY <1>4, <2>1, <2>2 DEF WindowInv
  <2> QED BY <1>4, <2>1, <2>3, <2>4 DEF WindowInv, EndsAt
<1>5. ASSUME Drain, NEW after \in TotalExecuted,
             Windows' = Append(Windows, Window(NonNeg(after - before - WindowLen)))
      PROVE  WindowInv'
  <2>1. /\ haltAt' = haltAt /\ pc = "drain" /\ pc' = "progress"
        /\ retired' = retired /\ fresh' = 0
    BY <1>5 DEF Drain
  <2>2. PICK lost \in Nat : lost = NonNeg(after - before - WindowLen)
    <3>1. after \in Nat /\ before \in Nat /\ WindowLen \in Nat
      <4>1. WindowLen \in Nat
        BY WindowFacts
      <4> QED BY <4>1, CounterFacts DEF ReadInv, ReadTypeOK
    <3> QED BY <3>1 DEF NonNeg
  <2>3. PICK w \in Block : w = Window(lost)
    BY WindowFacts
  <2>4. WithinHalt(w, haltAt) /\ w.first + w.n = retired
    BY <2>1, <2>3, DrainedWithinHalt
  <2>5. Windows' = Append(Windows, w)
    BY <1>5, <2>2, <2>3
  <2>6. /\ Len(Windows') = Len(Windows) + 1 /\ Windows'[Len(Windows')] = w
        /\ \A i \in 1 .. Len(Windows) : Windows'[i] = Windows[i]
        /\ \A i \in 1 .. Len(Windows') : i \in 1 .. Len(Windows) \/ i = Len(Windows')
    BY <1>1, <2>5
  <2>7. WithinHalt(w, haltAt') /\ \A i \in 1 .. Len(Windows) : WithinHalt(Windows[i], haltAt')
    BY <2>1, <2>4, HaltsKept, <1>2 DEF WindowInv
  <2>8. \A i \in 1 .. Len(Windows') : WithinHalt(Windows'[i], haltAt')
    BY <2>6, <2>7
  <2>9. EndsAt(Windows', retired' - fresh')
    BY <1>2, <2>1, <2>4, <2>6 DEF EndsAt
  <2> QED BY <2>1, <2>8, <2>9 DEF WindowInv, EndsAt
<1>6. ASSUME BuildBlock, NEW k \in 0 .. Len(blocks),
             Windows' \in Seq(Block), Len(Windows') = Len(Windows) - k,
             \A i \in 1 .. Len(Windows') : Windows'[i] = Windows[i + k]
      PROVE  WindowInv'
  <2>1. /\ haltAt' = haltAt /\ pc' = pc /\ pc \in {"flush", "final"} /\ pending # <<>>
        /\ retired' = retired /\ fresh' = fresh
    BY <1>6 DEF BuildBlock, targetVars
  <2>2. k \in Nat /\ Len(Windows') \in 1 .. Len(Windows') /\ Len(Windows') + k = Len(Windows)
        /\ \A i \in 1 .. Len(Windows') : i + k \in 1 .. Len(Windows)
    <3>1. Len(pending) > 0
      BY <2>1, ReadFacts
    <3> QED BY <1>1, <1>2, <1>6, <3>1
  <2>3. \A i \in 1 .. Len(Windows) : WithinHalt(Windows[i], haltAt')
    BY <2>1, HaltsKept, <1>2 DEF WindowInv
  <2>4. \A i \in 1 .. Len(Windows') : WithinHalt(Windows'[i], haltAt')
    BY <1>6, <2>2, <2>3
  <2>5. Windows'[Len(Windows')] = Windows[Len(Windows)] /\ Windows # <<>>
    BY <1>1, <1>6, <2>2
  <2>6. EndsAt(Windows', retired' - fresh')
    BY <2>1, <2>5 DEF WindowInv, EndsAt
  <2> QED BY <2>4, <2>6 DEF WindowInv, EndsAt
<1>7. CASE /\ Return /\ Windows = blocks /\ Windows' = blocks'
           /\ length' < Target => Windows' = Windows
  <2>1. /\ haltAt' = haltAt /\ pc' = "done" /\ pc = "final"
        /\ retired' = retired /\ fresh' = fresh /\ TruncateTo(Target)
    BY <1>7 DEF Return, targetVars
  <2>2. StoreInv /\ Target \in Int /\ haltAt \in Seq(Nat)
    BY ReadFacts DEF ReadInv, ReadTypeOK
  <2>3. ASSUME NEW i \in 1 .. Len(Windows')
        PROVE  WithinHalt(Windows'[i], haltAt')
    <3>1. /\ i \in 1 .. Len(blocks) /\ blocks'[i] \in Block
          /\ blocks'[i].first = blocks[i].first /\ blocks'[i].n <= blocks[i].n
          /\ blocks'[i].halt = blocks[i].halt
      BY <1>7, <2>1, <2>2, CutDropsLast
    <3>2. PICK v \in Block : v = blocks[i]
      BY <3>1, ReadFacts
    <3>3. PICK w \in Block : w = blocks'[i]
      BY <3>1
    <3>4. WithinHalt(v, haltAt)
      BY <1>7, <3>1, <3>2 DEF WindowInv
    <3>5. /\ w.first = v.first /\ w.n <= v.n /\ w.halt = v.halt
          /\ v.first \in Nat /\ v.n \in Nat /\ w.n \in Nat
      BY <3>1, <3>2, <3>3 DEF Block
    <3>6. v.halt \in 1 .. Len(haltAt) /\ AtHalt(haltAt, v.halt) \in Nat
      BY <2>2, <3>4 DEF WithinHalt, AtHalt
    <3>7. w.first + w.n <= AtHalt(haltAt, w.halt)
      <4>1. v.first + v.n <= AtHalt(haltAt, v.halt)
        BY <3>4 DEF WithinHalt
      <4> QED BY <3>5, <3>6, <4>1
    <3>8. WithinHalt(w, haltAt)
      BY <3>4, <3>5, <3>7 DEF WithinHalt
    <3>9. WithinHalt(w, haltAt')
      BY <2>1, <3>8, HaltsKept, <1>2
    <3> QED BY <1>7, <3>3, <3>9
  <2>4. length' < Target => EndsAt(Windows', retired' - fresh')
    BY <1>7, <2>1 DEF WindowInv
  <2> QED BY <2>1, <2>3, <2>4 DEF WindowInv, EndsAt
<1>8. CASE Raise /\ Windows' = blocks
  <2>1. haltAt' = haltAt /\ pc' = "raised"
    BY <1>8 DEF Raise
  <2>2. \A i \in 1 .. Len(blocks) : i \in 1 .. Len(Windows)
    BY <1>1, <1>2
  <2>3. \A i \in 1 .. Len(blocks) : WithinHalt(Windows[i], haltAt')
    BY <2>1, <2>2, HaltsKept, <1>2 DEF WindowInv
  <2>4. \A i \in 1 .. Len(Windows') : WithinHalt(Windows'[i], haltAt')
    BY <1>1, <1>8, <2>3
  <2> QED BY <2>1, <2>4 DEF WindowInv
<1> QED
  BY <1>3, <1>4, <1>5, <1>6, <1>7, <1>8, WindowSteps

(***************************************************************************)
(* The three together, over one call.                                      *)
(***************************************************************************)
CallInv == ReadInv /\ PosInv /\ WindowInv

LEMMA CallInvInit == ReadInit => CallInv
<1> SUFFICES ASSUME ReadInit
             PROVE  CallInv
  OBVIOUS
<1>1. /\ blocks = <<>> /\ pending = <<>> /\ haltAt = <<>> /\ pc = "loop" /\ calls = 1
      /\ ReadInv
  BY ReadInvInit DEF ReadInit, StoreInit
<1>2. PosInv
  BY <1>1 DEF PosInv
<1>3. Windows = <<>> /\ Len(Windows) = 0
  BY <1>1 DEF Windows
<1>4. WindowInv
  BY <1>3 DEF WindowInv, EndsAt
<1> QED BY <1>1, <1>2, <1>4 DEF CallInv

LEMMA CallInvNext ==
  ASSUME MaxCalls = 1, CallInv, [ReadNext]_readVars
  PROVE  CallInv'
<1>1. ReadInv /\ PosInv /\ WindowInv
  BY DEF CallInv
<1>2. ReadInv'
  BY <1>1, ReadInvNext
<1>3. PosInv'
  BY <1>1, PosSteps
<1>4. WindowInv'
  BY <1>1, <1>2, WindowInvSteps
<1> QED BY <1>2, <1>3, <1>4 DEF CallInv

LEMMA CallInvariant ==
  ASSUME MaxCalls = 1
  PROVE  ReadSpec => []CallInv
<1>1. ReadInit => CallInv
  BY CallInvInit
<1>2. CallInv /\ [ReadNext]_readVars => CallInv'
  BY CallInvNext
<1> QED BY <1>1, <1>2, PTL DEF ReadSpec

LEMMA CallHaltReasons ==
  ASSUME CallInv
  PROVE  HaltReasonBelongs
<1>1. ReadInv /\ WindowInv
  BY DEF CallInv
<1>2. \A i \in 1 .. Len(Windows) : WithinHalt(Windows[i], haltAt)
  BY <1>1 DEF WindowInv
<1>3. \A i \in 1 .. Len(blocks) : WithinHalt(blocks[i], haltAt)
  <2> SUFFICES ASSUME NEW i \in 1 .. Len(blocks)
               PROVE  WithinHalt(blocks[i], haltAt)
    OBVIOUS
  <2>1. i \in 1 .. Len(Windows) /\ Windows[i] = blocks[i]
    BY <1>1, WindowsFacts, ReadFacts
  <2> QED BY <1>2, <2>1, Zenon
<1>4. \A i \in 1 .. Len(pending) : WithinHalt(pending[i], haltAt)
  <2> SUFFICES ASSUME NEW i \in 1 .. Len(pending)
               PROVE  WithinHalt(pending[i], haltAt)
    OBVIOUS
  <2>1. Len(blocks) + i \in 1 .. Len(Windows) /\ Windows[Len(blocks) + i] = pending[i]
    BY <1>1, WindowsFacts, ReadFacts
  <2> QED BY <1>2, <2>1, Zenon
<1>5. \A h : AtHalt(haltAt, h) = HaltedAt(h)
  BY DEF AtHalt, HaltedAt
<1>6. \A w : WithinHalt(w, haltAt) =>
        /\ w.halt \in 1 .. Len(haltAt)
        /\ HaltedAt(w.halt - 1) <= w.first
        /\ w.first + w.n <= HaltedAt(w.halt)
  BY <1>5, Zenon DEF WithinHalt
<1> SUFFICES ASSUME NEW windows \in {blocks, pending}, NEW i \in 1 .. Len(windows)
             PROVE  /\ windows[i].halt \in 1 .. Len(haltAt)
                    /\ HaltedAt(windows[i].halt - 1) <= windows[i].first
                    /\ windows[i].first + windows[i].n <= HaltedAt(windows[i].halt)
  BY DEF HaltReasonBelongs
<1>7. WithinHalt(windows[i], haltAt)
  BY <1>3, <1>4
<1> QED BY <1>6, <1>7, Zenon

(***************************************************************************)
(* Every window of the store and of the stash was retired between the halt *)
(* it carries the reason of and the halt before (strace.py:589-593), of    *)
(* one call, for every capacity, clamp, target and slice limit, with a     *)
(* counter that wraps or does not answer and with steps that raise.        *)
(***************************************************************************)
THEOREM HaltReasonsBelong ==
  ASSUME MaxCalls = 1
  PROVE  ReadSpec => []HaltReasonBelongs
BY CallHaltReasons, CallInvariant, PTL

(***************************************************************************)
(* A store that keeps only a tail keeps the newest: a result shorter than  *)
(* the target ends with the last instruction retired before the last halt. *)
(***************************************************************************)
THEOREM TailIsTheNewest ==
  ASSUME MaxCalls = 1
  PROVE  ReadSpec => []TailReachesLastHalt
<1>1. ASSUME CallInv
      PROVE  TailReachesLastHalt
  <2> SUFFICES ASSUME calls = 1, pc = "done", blocks # <<>>, length < Target
               PROVE  blocks[Len(blocks)].first + blocks[Len(blocks)].n
                        = HaltedAt(Len(haltAt))
    BY DEF TailReachesLastHalt
  <2>1. /\ ReadInv /\ pending = <<>> /\ haltAt # <<>>
        /\ retired - fresh = haltAt[Len(haltAt)]
    BY <1>1 DEF CallInv, PosInv, Resting
  <2>2. Windows = blocks
    BY <2>1, ReadFacts, JoinedNothing DEF Windows
  <2>3. EndsAt(blocks, retired - fresh)
    BY <1>1, <2>2 DEF CallInv, WindowInv
  <2>4. HaltedAt(Len(haltAt)) = haltAt[Len(haltAt)]
    <3>1. haltAt \in Seq(Nat)
      BY <2>1 DEF ReadInv, ReadTypeOK
    <3>2. Len(haltAt) # 0
      BY <2>1, <3>1
    <3> QED BY <3>2 DEF HaltedAt
  <2> QED BY <2>1, <2>3, <2>4 DEF EndsAt
<1> QED BY <1>1, CallInvariant, PTL

(***************************************************************************)
(* Seams.  With a counter that is always answered and does not wrap, what  *)
(* the loop samples before go is what the core had retired at the end of   *)
(* the last read; and consecutive windows join.                            *)
(***************************************************************************)
Exact == MaxCalls = 1 /\ MaxRetired < CounterModulus /\ ~StatsMayFail

SampleInv ==
  /\ retired <= MaxRetired
  /\ pc \in {"go", "halt", "drain"} /\ (blocks # <<>> \/ pending # <<>>)
       => before = retired - fresh

SeamInv == \A i \in 1 .. Len(Windows), j \in 1 .. Len(Windows) :
             j = i + 1 => Joins(Windows[i], Windows[j])

LEMMA CounterExact ==
  ASSUME Exact, retired \in Nat, retired <= MaxRetired
  PROVE  TotalExecuted = {retired}
<1>1. MaxRetired \in Nat /\ CounterModulus \in Nat /\ CounterModulus > 0
  BY ReadAssumption
<1>2. retired < CounterModulus
  BY <1>1 DEF Exact
<1>3. retired % CounterModulus = retired
  BY <1>1, <1>2
<1> QED BY <1>3 DEF TotalExecuted, Exact

LEMMA SampleSteps ==
  ASSUME Exact, CallInv, SampleInv, [ReadNext]_readVars
  PROVE  SampleInv'
<1>1. /\ retired \in Nat /\ fresh \in Nat /\ fresh <= retired /\ before \in Nat
      /\ MaxRetired \in Nat /\ retired <= MaxRetired /\ calls = 1 /\ MaxCalls = 1
  BY ReadFacts, ReadAssumption DEF CallInv, ReadInv, ReadTypeOK, PosInv, SampleInv, Exact
<1>2. CASE StartSlice
  <2>1. /\ before' = retired /\ retired' = retired /\ fresh' = fresh
        /\ blocks' = blocks /\ pending' = pending /\ pc = "loop"
    BY <1>1, <1>2, CounterExact DEF StartSlice, storeVars, targetVars
  <2>2. blocks # <<>> \/ pending # <<>> => fresh = 0
    BY <2>1 DEF CallInv, PosInv, Resting
  <2> QED BY <1>1, <2>1, <2>2 DEF SampleInv
<1>3. CASE Retire
  <2>1. /\ retired' = retired + 1 /\ fresh' = fresh + 1 /\ retired < MaxRetired
        /\ blocks' = blocks /\ pending' = pending /\ pc' = pc /\ before' = before
    BY <1>3 DEF Retire, hostVars, storeVars
  <2>2. retired' - fresh' = retired - fresh /\ retired' <= MaxRetired
    BY <1>1, <2>1
  <2> QED BY <2>1, <2>2 DEF SampleInv
<1>4. CASE Go \/ Halt \/ Expire
  BY <1>4 DEF Go, Halt, Expire, SampleInv, storeVars, targetVars
<1>5. CASE LeaveLoop \/ Progress \/ EndFlush \/ Return \/ Drain \/ BuildBlock \/ Raise
  <2>1. retired' = retired /\ pc' \notin {"go", "halt", "drain"}
    BY <1>5 DEF LeaveLoop, Progress, EndFlush, Return, Drain, BuildBlock, Raise, targetVars
  <2> QED BY <1>1, <2>1 DEF SampleInv
<1>6. CASE UNCHANGED readVars
  BY <1>6 DEF readVars, hostVars, storeVars, targetVars, SampleInv
<1>7. ~Resume /\ ~CallAgain
  BY <1>1 DEF Resume, CallAgain
<1> QED
  BY <1>2, <1>3, <1>4, <1>5, <1>6, <1>7 DEF ReadNext, Host, Ended

LEMMA Seam ==
  ASSUME NEW end \in Nat, NEW len \in Nat, NEW retiredNow \in Nat, NEW unread \in Nat,
         unread <= retiredNow, len <= unread, end = retiredNow - unread,
         NEW lost \in Nat, lost = (retiredNow - end) - len
  PROVE  retiredNow - len = end + lost
OBVIOUS

LEMMA SeamSteps ==
  ASSUME Exact, CallInv, SampleInv, SeamInv, [ReadNext]_readVars
  PROVE  SeamInv'
<1>1. /\ Windows \in Seq(Block) /\ Len(Windows) \in Nat
      /\ Len(Windows) = Len(blocks) + Len(pending)
      /\ \A i \in 1 .. Len(Windows) :
              Windows[i] \in Block /\ Windows[i].first \in Nat /\ Windows[i].n \in Nat
  BY WindowsFacts DEF CallInv
<1>2. /\ retired \in Nat /\ fresh \in Nat /\ Len(blocks) \in Nat /\ Len(pending) \in Nat
      /\ fresh <= retired /\ before \in Nat /\ retired <= MaxRetired
      /\ ReadInv /\ PosInv /\ WindowInv /\ MaxCalls = 1
  BY ReadFacts DEF CallInv, ReadInv, ReadTypeOK, Exact, SampleInv
<1>3. CASE Windows' = Windows
  BY <1>3 DEF SeamInv
<1>4. ASSUME Drain, NEW after \in TotalExecuted,
             Windows' = Append(Windows, Window(NonNeg(after - before - WindowLen)))
      PROVE  SeamInv'
  <2>1. pc = "drain" /\ after = retired
    BY <1>2, <1>4, CounterExact DEF Drain
  <2>2. WindowLen \in Nat /\ WindowLen <= fresh
    BY <1>2, WindowFacts
  <2>3. PICK lost \in Nat : lost = NonNeg(after - before - WindowLen)
    <3>1. PICK x \in Int : x = after - before - WindowLen
      BY <1>2, <2>1, <2>2
    <3>2. NonNeg(x) \in Nat
      BY DEF NonNeg
    <3> QED BY <3>1, <3>2
  <2>4. PICK w \in Block : w = Window(lost)
    BY <1>2, WindowFacts
  <2>5. w.first = retired - WindowLen /\ w.lost = lost
    BY <2>4 DEF Window
  <2>6. /\ Len(Windows') = Len(Windows) + 1 /\ Windows'[Len(Windows) + 1] = w
        /\ \A i \in 1 .. Len(Windows) : Windows'[i] = Windows[i]
    BY <1>1, <1>4, <2>3, <2>4
  <2>7. ASSUME Windows # <<>>
        PROVE  Joins(Windows[Len(Windows)], w)
    <3>1. before = retired - fresh
      <4>1. blocks # <<>> \/ pending # <<>>
        BY <1>2, <2>7, ReadFacts, JoinedNothing DEF Windows
      <4> QED BY <2>1, <4>1 DEF SampleInv
    <3>2. Windows[Len(Windows)].first + Windows[Len(Windows)].n = retired - fresh
      BY <1>2, <2>1, <2>7 DEF WindowInv, EndsAt
    <3>3. lost = (retired - (retired - fresh)) - WindowLen
      BY <1>2, <2>1, <2>2, <2>3, <3>1 DEF NonNeg
    <3>4. PICK end \in Nat : end = retired - fresh
      BY <1>2
    <3>5. retired - WindowLen = end + lost
      BY <1>2, <2>2, <3>3, <3>4, Seam
    <3> QED BY <2>5, <3>2, <3>4, <3>5, Zenon DEF Joins
  <2> SUFFICES ASSUME NEW i \in 1 .. Len(Windows'), NEW j \in 1 .. Len(Windows'), j = i + 1
               PROVE  Joins(Windows'[i], Windows'[j])
    BY DEF SeamInv, Joins
  <2>8. CASE j \in 1 .. Len(Windows)
    <3>1. i \in 1 .. Len(Windows)
      BY <1>1, <2>8
    <3> QED BY <2>6, <2>8, <3>1 DEF SeamInv
  <2>9. CASE ~(j \in 1 .. Len(Windows))
    <3>1. j = Len(Windows) + 1 /\ i = Len(Windows) /\ i \in 1 .. Len(Windows) /\ Windows # <<>>
      BY <1>1, <2>6, <2>9
    <3> QED BY <2>6, <2>7, <3>1
  <2> QED BY <2>8, <2>9
<1>5. ASSUME NEW k \in 0 .. Len(blocks), Len(Windows') = Len(Windows) - k,
             \A i \in 1 .. Len(Windows') : Windows'[i] = Windows[i + k]
      PROVE  SeamInv'
  <2> SUFFICES ASSUME NEW i \in 1 .. Len(Windows'), NEW j \in 1 .. Len(Windows'), j = i + 1
               PROVE  Joins(Windows'[i], Windows'[j])
    BY DEF SeamInv, Joins
  <2>1. /\ i + k \in 1 .. Len(Windows) /\ j + k \in 1 .. Len(Windows)
        /\ j + k = (i + k) + 1
    BY <1>1, <1>2, <1>5
  <2> QED BY <1>5, <2>1 DEF SeamInv
<1>6. CASE Return /\ Windows = blocks /\ Windows' = blocks'
  <2>1. TruncateTo(Target) /\ StoreInv /\ Target \in Int
    BY <1>2, <1>6, ReadFacts DEF Return, ReadInv
  <2> SUFFICES ASSUME NEW i \in 1 .. Len(Windows'), NEW j \in 1 .. Len(Windows'), j = i + 1
               PROVE  Joins(Windows'[i], Windows'[j])
    BY DEF SeamInv, Joins
  <2>2. blocks' \in Seq(Block)
    BY <2>1, CutDropsLast
  <2>3. i < Len(blocks') /\ i \in 1 .. Len(blocks') /\ j \in 1 .. Len(blocks')
    BY <1>6, <2>2
  <2>4. /\ blocks'[i].first = blocks[i].first /\ blocks'[i].n = blocks[i].n
        /\ i \in 1 .. Len(blocks)
    BY <2>1, <2>3, CutDropsLast
  <2>5. /\ blocks'[j].first = blocks[j].first /\ blocks'[j].lost = blocks[j].lost
        /\ j \in 1 .. Len(blocks)
    BY <2>1, <2>3, CutDropsLast
  <2>6. Joins(blocks[i], blocks[j])
    BY <1>6, <2>4, <2>5 DEF SeamInv
  <2> QED BY <1>6, <2>4, <2>5, <2>6 DEF Joins
<1>7. CASE Windows' = blocks
  <2> SUFFICES ASSUME NEW i \in 1 .. Len(blocks), NEW j \in 1 .. Len(blocks), j = i + 1
               PROVE  Joins(blocks[i], blocks[j])
    BY <1>7 DEF SeamInv, Joins
  <2>1. /\ i \in 1 .. Len(Windows) /\ j \in 1 .. Len(Windows)
        /\ Windows[i] = blocks[i] /\ Windows[j] = blocks[j]
    BY <1>1, <1>2, WindowsFacts
  <2> QED BY <2>1 DEF SeamInv
<1> QED
  BY <1>2, <1>3, <1>4, <1>5, <1>6, <1>7, WindowSteps

SeamCallInv == CallInv /\ SampleInv /\ SeamInv

LEMMA SeamCallInvInit == ReadInit => SeamCallInv
<1> SUFFICES ASSUME ReadInit
             PROVE  SeamCallInv
  OBVIOUS
<1>1. /\ blocks = <<>> /\ pending = <<>> /\ retired = 0 /\ MaxRetired \in Nat
  BY ReadAssumption DEF ReadInit, StoreInit
<1>2. Windows = <<>> /\ Len(Windows) = 0
  BY <1>1 DEF Windows
<1> QED BY <1>1, <1>2, CallInvInit DEF SeamCallInv, SampleInv, SeamInv

LEMMA CallSeams ==
  ASSUME SeamCallInv
  PROVE  SeamsAccounted
<1>1. ReadInv /\ SeamInv
  BY DEF SeamCallInv, CallInv
<1>2. Len(blocks) \in Nat /\ Len(pending) \in Nat /\ Len(Windows) = Len(blocks) + Len(pending)
  BY <1>1, ReadFacts, WindowsFacts
<1>3. Chained(blocks)
  <2> SUFFICES ASSUME NEW i \in 1 .. (Len(blocks) - 1)
               PROVE  Joins(blocks[i], blocks[i + 1])
    BY DEF Chained
  <2>1. /\ i \in 1 .. Len(blocks) /\ i + 1 \in 1 .. Len(blocks)
        /\ i \in 1 .. Len(Windows) /\ i + 1 \in 1 .. Len(Windows)
    BY <1>2
  <2>2. Windows[i] = blocks[i] /\ Windows[i + 1] = blocks[i + 1]
    BY <1>1, <2>1, WindowsFacts
  <2>3. Joins(Windows[i], Windows[i + 1])
    BY <1>1, <2>1 DEF SeamInv
  <2> QED BY <2>2, <2>3
<1>4. Chained(pending)
  <2> SUFFICES ASSUME NEW i \in 1 .. (Len(pending) - 1)
               PROVE  Joins(pending[i], pending[i + 1])
    BY DEF Chained
  <2>1. /\ i \in 1 .. Len(pending) /\ i + 1 \in 1 .. Len(pending)
        /\ Len(blocks) + i \in 1 .. Len(Windows) /\ Len(blocks) + (i + 1) \in 1 .. Len(Windows)
        /\ Len(blocks) + (i + 1) = (Len(blocks) + i) + 1
    BY <1>2
  <2>2. Windows[Len(blocks) + i] = pending[i]
    BY <1>1, <2>1, WindowsFacts
  <2>3. Windows[Len(blocks) + (i + 1)] = pending[i + 1]
    BY <1>1, <2>1, WindowsFacts
  <2>4. Joins(Windows[Len(blocks) + i], Windows[Len(blocks) + (i + 1)])
    BY <1>1, <2>1, Zenon DEF SeamInv
  <2> QED BY <2>2, <2>3, <2>4
<1>5. ASSUME blocks # <<>>, pending # <<>>
      PROVE  Joins(blocks[Len(blocks)], pending[1])
  <2>1. blocks \in Seq(Block) /\ pending \in Seq(Block)
    BY <1>1, ReadFacts
  <2>2. /\ Len(blocks) \in 1 .. Len(blocks) /\ 1 \in 1 .. Len(pending)
        /\ Len(blocks) \in 1 .. Len(Windows) /\ Len(blocks) + 1 \in 1 .. Len(Windows)
    BY <1>2, <1>5, <2>1
  <2>3. Windows[Len(blocks)] = blocks[Len(blocks)] /\ Windows[Len(blocks) + 1] = pending[1]
    BY <1>1, <2>2, WindowsFacts
  <2>4. Joins(Windows[Len(blocks)], Windows[Len(blocks) + 1])
    BY <1>1, <2>2 DEF SeamInv
  <2> QED BY <2>3, <2>4
<1> QED BY <1>3, <1>4, <1>5 DEF SeamsAccounted

(***************************************************************************)
(* The stream says where its holes are (strace.py:582-586): with a counter *)
(* that always answers and does not wrap, exactly lost_before instructions *)
(* are missing between two neighbouring windows, for every capacity,       *)
(* clamp, target and slice limit, whichever step raises.                   *)
(***************************************************************************)
THEOREM SeamsAreAccounted ==
  ASSUME Exact
  PROVE  ReadSpec => []SeamsAccounted
<1>1. SeamCallInv /\ [ReadNext]_readVars => SeamCallInv'
  BY CallInvNext, SampleSteps, SeamSteps DEF SeamCallInv, Exact
<1> QED BY <1>1, SeamCallInvInit, CallSeams, PTL DEF ReadSpec

(***************************************************************************)
(* A store with room for the target and one window more holds, with the    *)
(* stash, all that was read: nothing is evicted and nothing is flushed     *)
(* before the loop ends.                                                   *)
(***************************************************************************)
Covers == MaxCalls = 1 /\ Capacity >= Target + Clamp

WholeInv ==
  /\ Origin = 0
  /\ pc # "flush"
  /\ \A p \in 1 .. Len(blocks) : blocks[p].at = starts[p]
  /\ pending # <<>> => pending[1].at = length
  /\ pc \notin {"done", "raised"} /\ pending = <<>> => length = drained
  /\ pc \notin {"done", "raised"} => appended = drained
  /\ pc \in {"go", "halt", "drain"} => drained < Target
  /\ drained <= Target + Clamp
  /\ pc = "done" => length = AtMost(drained, Target)

LEMMA WholeDrain ==
  ASSUME ReadInv, WholeInv, Drain
  PROVE  WholeInv'
<1>1. /\ pc = "drain" /\ pc' = "progress" /\ drained' = drained + WindowLen
      /\ drained < Target /\ appended = drained
  BY DEF Drain, WholeInv
<1>2. /\ WindowLen \in Nat /\ WindowLen <= Clamp /\ drained \in Nat /\ Target \in Nat
      /\ Clamp \in Nat /\ pending \in Seq(Block) /\ stats \in StoreStats
  <2>1. WindowLen \in Nat /\ WindowLen <= Clamp
    BY ReadFacts DEF WindowLen, AtMost
  <2> QED BY <2>1, ReadFacts DEF ReadInv, ReadTypeOK, StoreTypeOK
<1>3. drained' <= Target + Clamp
  BY <1>1, <1>2
<1>4. ASSUME NEW lost, pending' = Append(pending, Window(lost)),
             appended' = appended + WindowLen, UNCHANGED storeVars
      PROVE  WholeInv'
  <2>1. pending' # <<>>
    BY <1>2, <1>4
  <2>2. pending'[1].at = length'
    <3>1. CASE pending = <<>>
      <4>1. pending'[1] = Window(lost)
        BY <1>4, <3>1
      <4>2. Window(lost).at = drained /\ length = drained /\ length' = length
        BY <1>1, <1>4, <3>1 DEF Window, WholeInv, storeVars
      <4> QED BY <4>1, <4>2
    <3>2. CASE pending # <<>>
      <4>1. pending'[1] = pending[1] /\ length' = length
        BY <1>2, <1>4, <3>2 DEF storeVars
      <4> QED BY <3>2, <4>1 DEF WholeInv
    <3> QED BY <3>1, <3>2
  <2>3. Origin' = Origin /\ blocks' = blocks /\ starts' = starts
    BY <1>4 DEF storeVars, Origin
  <2>4. appended' = drained'
    BY <1>1, <1>4
  <2> QED BY <1>1, <1>3, <2>1, <2>2, <2>3, <2>4 DEF WholeInv
<1>5. ASSUME WindowLen = 0, NoteIdlePoll, UNCHANGED <<pending, appended, stashed>>
      PROVE  WholeInv'
  <2>1. Origin' = Origin /\ blocks' = blocks /\ starts' = starts /\ length' = length
    BY <1>2, <1>5 DEF NoteIdlePoll, StoreStats, Origin
  <2>2. drained' = drained /\ appended' = appended /\ pending' = pending
    BY <1>1, <1>2, <1>5
  <2> QED BY <1>1, <1>3, <2>1, <2>2 DEF WholeInv
<1> QED BY <1>4, <1>5 DEF Drain

LEMMA WholeProgress ==
  ASSUME Covers, ReadInv, WholeInv, Progress
  PROVE  WholeInv'
<1>1. /\ length \in Nat /\ drained \in Nat /\ Target \in Nat /\ Clamp \in Nat
      /\ Capacity \in Nat /\ pc = "progress" /\ stashed = InStash
  BY ReadFacts DEF Progress, ReadInv, RoomInv
<1>2. length + stashed = drained
  <2>1. CASE pending = <<>>
    BY <1>1, <2>1 DEF InStash, WholeInv
  <2>2. CASE pending # <<>>
    BY <1>1, <2>2 DEF InStash, WholeInv
  <2> QED BY <2>1, <2>2
<1>3. ~(length + stashed > Capacity)
  BY <1>1, <1>2 DEF WholeInv, Covers
<1>4. pc' = "loop"
  BY <1>3 DEF Progress
<1>5. UNCHANGED <<storeVars, pending, appended, drained>>
  BY DEF Progress
<1> QED BY <1>1, <1>4, <1>5 DEF WholeInv, storeVars, Origin

LEMMA AppendedItem ==
  ASSUME NEW S, NEW s \in Seq(S), NEW x \in S
  PROVE  /\ \A i \in 1 .. Len(s) : Append(s, x)[i] = s[i] /\ s[i] \in S
         /\ Append(s, x)[Len(s) + 1] = x
OBVIOUS

LEMMA EmptyOrNot ==
  ASSUME NEW S, NEW s \in Seq(S)
  PROVE  s = <<>> <=> Len(s) = 0
OBVIOUS

LEMMA TailOf ==
  ASSUME NEW S, NEW s \in Seq(S), Len(s) >= 1
  PROVE  /\ Len(s) = 1 => Tail(s) = <<>>
         /\ Len(s) # 1 => /\ Tail(s) # <<>> /\ Tail(s)[1] = s[2]
                          /\ 1 \in 1 .. (Len(s) - 1) /\ 2 \in 1 .. Len(s)
<1>1. Len(s) \in Nat /\ Tail(s) \in Seq(S) /\ Len(Tail(s)) = Len(s) - 1
  OBVIOUS
<1>2. CASE Len(s) = 1
  <2>1. Len(Tail(s)) = 0
    BY <1>1, <1>2
  <2>2. Tail(s) = <<>>
    BY <1>1, <2>1, EmptyOrNot, Zenon
  <2> QED BY <1>2, <2>2
<1>3. CASE Len(s) # 1
  <2>1. Len(Tail(s)) >= 1
    BY <1>1, <1>3
  <2>2. Tail(s)[1] = s[2]
    BY <1>1, <2>1
  <2>3. 1 \in 1 .. (Len(s) - 1) /\ 2 \in 1 .. Len(s)
    BY <1>1, <1>3
  <2>4. Tail(s) # <<>>
    <3>1. Len(Tail(s)) # 0
      BY <1>1, <2>1
    <3> QED BY <1>1, <3>1, EmptyOrNot, Zenon
  <2> QED BY <1>3, <2>2, <2>3, <2>4
<1> QED BY <1>2, <1>3

LEMMA WholeBuild ==
  ASSUME Covers, ReadInv, WholeInv, BuildBlock
  PROVE  WholeInv'
<1>1. /\ pending # <<>> /\ AppendBlock(Head(pending)) /\ pending' = Tail(pending)
      /\ pc' = pc /\ pc = "final" /\ appended' = appended /\ drained' = drained
  BY DEF BuildBlock, WholeInv
<1>2. /\ blocks \in Seq(Block) /\ pending \in Seq(Block) /\ StoreInv /\ drained \in Nat
      /\ Len(blocks) \in Nat /\ Len(pending) \in Nat /\ Len(pending) >= 1
      /\ length \in Nat /\ Capacity \in Nat /\ Target \in Nat /\ Clamp \in Nat
      /\ starts \in Seq(Nat) /\ Len(starts) = Len(blocks)
  BY <1>1, ReadFacts, StoreFacts DEF ReadInv
<1>3. PICK b \in Block : b = Head(pending) /\ b = pending[1]
  BY <1>1, <1>2
<1>4. b.n \in Nat /\ b.at = length
  BY <1>1, <1>3 DEF Block, WholeInv
<1>5. Len(pending) # 1 =>
        /\ pending[2].at = length + b.n /\ pending[2].at <= drained
        /\ Tail(pending) # <<>> /\ Tail(pending)[1] = pending[2]
  <2> SUFFICES ASSUME Len(pending) # 1
               PROVE  /\ pending[2].at = length + b.n /\ pending[2].at <= drained
                      /\ Tail(pending) # <<>> /\ Tail(pending)[1] = pending[2]
    OBVIOUS
  <2>1. 1 \in 1 .. (Len(pending) - 1) /\ 2 \in 1 .. Len(pending) /\ 1 + 1 = 2
    BY <1>2, TailOf
  <2>2. pending[1 + 1].at = pending[1].at + pending[1].n /\ pending[2].at <= drained
    BY <2>1, Zenon DEF ReadInv, StashInv
  <2>3. Tail(pending) # <<>> /\ Tail(pending)[1] = pending[2]
    BY <1>2, TailOf
  <2> QED BY <1>3, <1>4, <2>1, <2>2, <2>3
<1>6. Len(pending) = 1 => length + b.n = drained /\ Tail(pending) = <<>>
  <2>1. pending[Len(pending)].at + pending[Len(pending)].n = drained
    BY <1>1 DEF ReadInv, StashInv
  <2>2. Len(pending) = 1 => Tail(pending) = <<>>
    BY <1>2, TailOf
  <2> QED BY <1>3, <1>4, <2>1, <2>2
<1>7. length + b.n <= drained /\ length + b.n <= Capacity
  <2>1. length + b.n <= drained
    BY <1>2, <1>4, <1>5, <1>6
  <2> QED BY <1>2, <1>4, <2>1 DEF WholeInv, Covers
<1>8. PICK k \in 0 .. Len(blocks), bs \in Seq(Block), ss \in Seq(Nat), d \in Nat :
        /\ bs = Append(blocks, b) /\ ss = Append(starts, length) /\ d = ss[k + 1]
        /\ (length + b.n) - d <= Capacity \/ k + 1 = Len(bs)
        /\ \A j \in 0 .. (k - 1) : (length + b.n) - ss[j + 1] > Capacity
        /\ Len(blocks') = Len(blocks) + 1 - k
        /\ \A p \in 1 .. Len(blocks') : blocks'[p] = bs[p + k]
        /\ \A p \in 1 .. Len(blocks') : starts'[p] = ss[p + k] - d
        /\ length' = (length + b.n) - d
        /\ stats' = Dropped(Counted(b), k, d)
  BY <1>1, <1>2, <1>3, AppendedParts, Zenon
<1>9. /\ bs = Append(blocks, b) /\ ss = Append(starts, length) /\ d = ss[k + 1]
      /\ \A j \in 0 .. (k - 1) : (length + b.n) - ss[j + 1] > Capacity
      /\ Len(blocks') = Len(blocks) + 1 - k
      /\ \A p \in 1 .. Len(blocks') : blocks'[p] = bs[p + k]
      /\ \A p \in 1 .. Len(blocks') : starts'[p] = ss[p + k] - d
      /\ length' = (length + b.n) - d
  BY <1>8, Zenon
<1>10. ss[1] = 0
  <2>1. CASE blocks = <<>>
    <3>1. length = 0 /\ starts = <<>>
      BY <1>2, <2>1 DEF StoreInv, StartsMatchBlocks
    <3> QED BY <1>9, <3>1
  <2>2. CASE blocks # <<>>
    <3>1. starts[1] = 0 /\ 1 \in 1 .. Len(starts)
      BY <1>2, <2>2 DEF StoreInv, StartsMatchBlocks
    <3> QED BY <1>2, <1>9, <3>1
  <2> QED BY <2>1, <2>2
<1>11. k = 0
  <2> SUFFICES ASSUME k # 0
               PROVE  FALSE
    OBVIOUS
  <2>1. 0 \in 0 .. (k - 1) /\ 0 + 1 = 1
    BY <1>2
  <2>2. (length + b.n) - ss[1] > Capacity
    BY <1>9, <2>1
  <2> QED BY <1>2, <1>4, <1>7, <1>10, <2>2
<1>12. d = 0 /\ length' = length + b.n /\ Len(blocks') = Len(blocks) + 1
  BY <1>2, <1>4, <1>9, <1>10, <1>11
<1>13. ASSUME NEW p \in 1 .. Len(blocks')
       PROVE  blocks'[p].at = starts'[p]
  <2>1. p \in Int /\ p + k = p
    BY <1>11
  <2>2. blocks'[p] = bs[p] /\ starts'[p] = ss[p] - d
    BY <1>9, <2>1
  <2>3. p \in 1 .. Len(blocks) \/ p = Len(blocks) + 1
    BY <1>2, <1>12
  <2>4. CASE p \in 1 .. Len(blocks)
    <3>1. bs[p] = blocks[p] /\ ss[p] = starts[p] /\ starts[p] \in Nat
      <4>1. Append(blocks, b)[p] = blocks[p]
        BY <1>2, <2>4, AppendedItem
      <4>2. Append(starts, length)[p] = starts[p] /\ starts[p] \in Nat
        BY <1>2, <2>4, AppendedItem
      <4>3. bs = Append(blocks, b) /\ ss = Append(starts, length)
        BY <1>9, Zenon
      <4> QED BY <4>1, <4>2, <4>3, Zenon
    <3>2. starts[p] - d = starts[p]
      BY <1>12, <3>1
    <3> QED BY <2>2, <2>4, <3>1, <3>2 DEF WholeInv
  <2>5. CASE p = Len(blocks) + 1
    <3>1. bs[p] = b /\ ss[p] = length
      <4>1. Append(blocks, b)[p] = b
        BY <1>2, <2>5, AppendedItem
      <4>2. Append(starts, length)[p] = length
        BY <1>2, <2>5, AppendedItem
      <4>3. bs = Append(blocks, b) /\ ss = Append(starts, length)
        BY <1>9, Zenon
      <4> QED BY <4>1, <4>2, <4>3, Zenon
    <3>2. length - d = length
      BY <1>2, <1>12
    <3> QED BY <1>4, <2>2, <3>1, <3>2
  <2> QED BY <2>3, <2>4, <2>5
<1>14. Origin' = 0
  <2>1. Origin' + length' = Origin + length + b.n
    BY <1>1, <1>2, <1>3, AppendCounts
  <2>2. Origin = 0
    BY DEF WholeInv
  <2>3. Origin' \in Nat
    BY <1>1, <1>2, <1>3, AppendKeepsStoreInv DEF StoreInv, StoreTypeOK, StoreStats, Origin
  <2> QED BY <1>2, <1>4, <1>12, <2>1, <2>2, <2>3
<1>15. pending' # <<>> => pending'[1].at = length'
  BY <1>1, <1>5, <1>6, <1>12
<1>16. pending' = <<>> => length' = drained'
  BY <1>1, <1>5, <1>6, <1>12
<1> QED BY <1>1, <1>13, <1>14, <1>15, <1>16 DEF WholeInv

LEMMA WholeReturn ==
  ASSUME ReadInv, WholeInv, Return
  PROVE  WholeInv'
<1>1. /\ pc = "final" /\ pc' = "done" /\ pending = <<>> /\ pending' = <<>>
      /\ drained' = drained /\ length = drained /\ TruncateTo(Target)
  BY DEF Return, WholeInv
<1>2. StoreInv /\ Target \in Nat /\ Target \in Int /\ drained \in Nat
  BY ReadFacts DEF ReadInv
<1>3. stats' = stats /\ length' = AtMost(drained, Target)
  BY <1>1, <1>2 DEF TruncateTo, AtMost, storeVars
<1>4. ASSUME NEW p \in 1 .. Len(blocks')
      PROVE  blocks'[p].at = starts'[p]
  <2>1. p \in 1 .. Len(blocks) /\ blocks'[p].at = blocks[p].at /\ starts'[p] = starts[p]
    BY <1>1, <1>2, CutDropsLast
  <2> QED BY <2>1 DEF WholeInv
<1>5. Origin' = Origin
  BY <1>3 DEF Origin
<1> QED BY <1>1, <1>3, <1>4, <1>5 DEF WholeInv

LEMMA WholeSteps ==
  ASSUME Covers, ReadInv, PosInv, WholeInv, [ReadNext]_readVars
  PROVE  WholeInv'
<1>1. /\ drained \in Nat /\ Target \in Nat /\ calls = 1 /\ MaxCalls = 1
  BY ReadFacts DEF PosInv, Covers
<1>2. CASE Drain
  BY <1>2, WholeDrain
<1>3. CASE Progress
  BY <1>3, WholeProgress
<1>4. CASE BuildBlock
  BY <1>4, WholeBuild
<1>5. CASE Return
  BY <1>5, WholeReturn
<1>6. CASE EndFlush
  BY <1>6 DEF EndFlush, WholeInv
<1>7. CASE StartSlice
  <2>1. /\ pc = "loop" /\ pc' = "go" /\ appended < Target
        /\ UNCHANGED <<storeVars, pending, appended, drained>>
    BY <1>1, <1>7 DEF StartSlice, LoopEnds, WholeInv
  <2>2. drained < Target
    BY <2>1 DEF WholeInv
  <2> QED BY <2>1, <2>2 DEF WholeInv, storeVars, Origin
<1>8. CASE LeaveLoop \/ Go \/ Halt \/ Expire
  <2>1. /\ UNCHANGED <<storeVars, pending, appended, drained>>
        /\ pc' \notin {"flush", "done", "raised"} \/ pc' = pc
        /\ pc' \in {"go", "halt", "drain"} => pc \in {"go", "halt", "drain"}
        /\ pc \in {"done", "raised"} => pc' = pc
    BY <1>8 DEF LeaveLoop, Go, Halt, Expire
  <2> QED BY <2>1 DEF WholeInv, storeVars, Origin
<1>9. CASE Raise
  BY <1>9 DEF Raise, WholeInv, storeVars, Origin
<1>10. CASE Retire
  BY <1>10 DEF Retire, WholeInv, storeVars, hostVars, Origin
<1>11. CASE UNCHANGED readVars
  BY <1>11 DEF readVars, WholeInv, storeVars, hostVars, Origin
<1>12. ~Resume /\ ~CallAgain
  BY <1>1 DEF Resume, CallAgain
<1> QED
  BY <1>2, <1>3, <1>4, <1>5, <1>6, <1>7, <1>8, <1>9, <1>10, <1>11, <1>12
     DEF ReadNext, Host, Ended

WholeCallInv == ReadInv /\ PosInv /\ WholeInv

LEMMA WholeCallInvInit == ReadInit => WholeCallInv
<1> SUFFICES ASSUME ReadInit
             PROVE  WholeCallInv
  OBVIOUS
<1>1. ReadInv /\ PosInv
  BY CallInvInit DEF CallInv
<1>2. /\ blocks = <<>> /\ pending = <<>> /\ length = 0 /\ drained = 0
      /\ appended = 0 /\ pc = "loop" /\ Origin = 0
  BY DEF ReadInit, StoreInit, Origin
<1>3. Target + Clamp >= 0
  BY ReadAssumption
<1> QED BY <1>1, <1>2, <1>3 DEF WholeCallInv, WholeInv

(***************************************************************************)
(* The store run_capture passes, which covers the target and one window    *)
(* more (capture.py:230-233), loses nothing of one call: no eviction, no   *)
(* flush between two slices, and a result that is the oldest part of what  *)
(* was read, whatever the counter answers and whichever step raises.       *)
(***************************************************************************)
THEOREM CaptureIsWhole ==
  ASSUME MaxCalls = 1
  PROVE  ReadSpec => []WholeCapture
<1>1. CASE Covers
  <2>1. ReadInit => WholeCallInv
    BY WholeCallInvInit
  <2>2. WholeCallInv /\ [ReadNext]_readVars => WholeCallInv'
    <3> SUFFICES ASSUME WholeCallInv, [ReadNext]_readVars
                 PROVE  WholeCallInv'
      OBVIOUS
    <3>1. ReadInv /\ PosInv /\ WholeInv
      BY DEF WholeCallInv
    <3>2. ReadInv' /\ PosInv' /\ WholeInv'
      BY <1>1, <3>1, ReadInvNext, PosSteps, WholeSteps
    <3> QED BY <3>2 DEF WholeCallInv
  <2>3. WholeCallInv => WholeCapture
    BY DEF WholeCallInv, WholeInv, WholeCapture
  <2> QED BY <2>1, <2>2, <2>3, PTL DEF ReadSpec
<1>2. CASE ~Covers
  <2>1. WholeCapture
    BY <1>2 DEF Covers, WholeCapture
  <2> QED BY <2>1, PTL
<1> QED BY <1>1, <1>2


--------------------------------------------------------------------------------

\* Tracing has not begun, or has been stopped: before start(), and behind the
\* finally clause unless the interrupt came in start(), in front of that clause
\* or in stop().
NotTracing ==
  \/ stage \in {"open", "connect", "setup", "start"}
  \/ /\ stage \in {"close", "returned", "raised"}
     /\ interruptedIn \cap {"start", "go", "stop"} = {}

\* The core was halted after the slices, and no later step lets it run.
HaltedForGood ==
  \/ stage \in {"counts", "readback", "returned"}
  \/ stage \in {"stop", "close"} /\ ~failed

\* A stage is interrupted once, and then left.
ReleaseInv ==
  /\ failed \in BOOLEAN
  /\ stage = "open" => ~probeOpen /\ ~opened /\ ~registered /\ interruptedIn = {}
  /\ stage \notin {"open", "returned", "raised"} =>
       /\ probeOpen /\ opened /\ registered
       /\ interruptedIn \cap {"open", "connect", "close"} = {}
  /\ CaptureEnded /\ interruptedIn \cap {"open", "connect", "close"} = {} =>
       ~probeOpen /\ ~opened /\ ~registered
  /\ probeOpen /\ "open" \notin interruptedIn => opened /\ registered
  /\ NotTracing => ~tracing
  /\ HaltedForGood => ~running

LEMMA ReleaseInvInit == CaptureInit => ReleaseInv
  BY DEF CaptureInit, ReleaseInv, NotTracing, HaltedForGood, CaptureEnded

\* The steps of the host inside the slices, of the core and of the clock leave
\* all but the core and the stream alone, and are not taken after the last halt.
LEMMA BesideTheHost ==
  ASSUME ReleaseInv, UNCHANGED sessionVars, HaltedForGood => UNCHANGED running
  PROVE  ReleaseInv'
  BY DEF sessionVars, handleVars, ReleaseInv, NotTracing, HaltedForGood, CaptureEnded

\* What an opening and a close() that get so far leave behind.
LEMMA Openings ==
  ASSUME NEW k \in 0 .. 3, OpenedBy(k)
  PROVE  /\ probeOpen' <=> k >= 1
         /\ opened' <=> k >= 2
         /\ registered' <=> k >= 3
  BY DEF OpenedBy

LEMMA Closings ==
  ASSUME NEW k \in 0 .. 3, ClosedBy(k)
  PROVE  /\ probeOpen' <=> k < 1
         /\ opened' <=> k < 2
         /\ registered' <=> k < 3
  BY DEF ClosedBy

LEMMA ReleaseInvNext ==
  ASSUME ReleaseInv, [CaptureNext]_captureVars
  PROVE  ReleaseInv'
<1> USE DEF ReleaseInv, NotTracing, HaltedForGood, CaptureEnded, MoveTo, InterruptedTo,
            handleVars
<1>1. CASE OpenFails
  BY <1>1 DEF OpenFails
<1>2. CASE OpenProbe
  <2>1. probeOpen' /\ opened' /\ registered'
    BY <1>2, Openings DEF OpenProbe
  <2> QED BY <1>2, <2>1 DEF OpenProbe
<1>3. CASE ConnectFails
  <2>1. ~probeOpen' /\ ~opened' /\ ~registered'
    BY <1>3, Closings DEF ConnectFails
  <2> QED BY <1>3, <2>1 DEF ConnectFails
<1>4. CASE Connect
  BY <1>4 DEF Connect
<1>5. CASE SetUp
  BY <1>5 DEF SetUp
<1>6. CASE StartTrace
  <2>1. CASE MoveTo("go", FALSE)
    BY <1>6, <2>1 DEF StartTrace, readVars, targetVars
  <2>2. CASE MoveTo("close", TRUE) /\ UNCHANGED tracing
    BY <1>6, <2>2 DEF StartTrace, readVars, targetVars
  <2> QED BY <1>6, <2>1, <2>2 DEF StartTrace
<1>7. CASE LetRun
  BY <1>7 DEF LetRun
<1>8. CASE Slice \/ Execute \/ Deadline \/ Over \/ UNCHANGED captureVars
  <2>1. UNCHANGED sessionVars
    BY <1>8 DEF Slice, Execute, Deadline, Over, captureVars
  <2>2. HaltedForGood => UNCHANGED running
    BY <1>8 DEF Slice, Execute, Deadline, Over, captureVars, readVars, targetVars,
                Retire, Expire
  <2> QED BY <2>1, <2>2, BesideTheHost
<1>9. CASE SlicesRaised
  BY <1>9 DEF SlicesRaised
<1>10. CASE FinalHalt
  BY <1>10 DEF FinalHalt
<1>11. CASE ReadCounts
  BY <1>11 DEF ReadCounts, readVars, targetVars
<1>12. CASE ReadBack
  BY <1>12 DEF ReadBack
<1>13. CASE StopTrace
  BY <1>13 DEF StopTrace, readVars, targetVars
<1>14. CASE Close
  <2>1. ~probeOpen' /\ ~opened' /\ ~registered'
    BY <1>14, Closings DEF Close
  <2> QED BY <1>14, <2>1 DEF Close, readVars, targetVars
<1>15. CASE OpenInterrupted
  BY <1>15 DEF OpenInterrupted, OpenedBy
<1>16. CASE ConnectInterrupted \/ CloseInterrupted
  <2>1. probeOpen' => opened' /\ registered'
    BY <1>16, Closings DEF ConnectInterrupted, CloseInterrupted
  <2>2. stage \in {"connect", "close"} /\ stage' = "raised" /\ failed' = TRUE
        /\ interruptedIn' = interruptedIn \cup {stage} /\ tracing' = tracing
    BY <1>16 DEF ConnectInterrupted, CloseInterrupted
  <2>3. interruptedIn' \cap {"open", "connect", "close"} # {}
    BY <2>2
  <2>4. NotTracing' => ~tracing'
    BY <2>2
  <2> QED BY <2>1, <2>2, <2>3, <2>4
<1>17. CASE Interrupt
  BY <1>17 DEF Interrupt
<1>18. CASE GoInterrupted
  BY <1>18 DEF GoInterrupted
<1>19. CASE TraceInterrupted
  BY <1>19 DEF TraceInterrupted, readVars, targetVars
<1> QED
  BY <1>1, <1>2, <1>3, <1>4, <1>5, <1>6, <1>7, <1>8, <1>9, <1>10, <1>11, <1>12,
     <1>13, <1>14, <1>15, <1>16, <1>17, <1>18, <1>19 DEF CaptureNext

\* Whichever step fails, a capture ends with the probe closed and its handle
\* gone, and so it does when it is interrupted, but for an interrupt inside the
\* constructor or close(); but for one before the handle is registered an open
\* probe always has its owner; but for one in start(), between start() and the
\* try, or in stop(), tracing has been stopped; and a returned result comes from
\* a halted core (capture.py:194-269, link.py:132-180, strace.py:350-355).
THEOREM CaptureReleasesProbe == CaptureSpec => []ProbeReleased
<1>1. ReleaseInv => ProbeReleased
  BY DEF ReleaseInv, NotTracing, HaltedForGood, CaptureEnded, ProbeReleased
<1> QED BY <1>1, ReleaseInvInit, ReleaseInvNext, PTL DEF CaptureSpec

-------------------------------------------------------------------------------
(***************************************************************************)
(* Which stages a long capture and a short one pass, and what is behind a  *)
(* capture that has failed nowhere so far.                                 *)
(***************************************************************************)
Early == stage \in {"open", "connect", "setup", "start", "go"}
Succeeding == stage \in {"stop", "close", "returned"} /\ ~failed

StageInv ==
  /\ items \in Nat
  /\ Early => haltAt = <<>>
  /\ Long => items = Target /\ stage \notin {"run", "readback"}
  /\ ~Long => stage # "slices"
  /\ Long /\ (stage = "counts" \/ Succeeding) => pc = "done"
  /\ stage = "returned" => ~failed
  /\ failed => stage \in {"stop", "close", "raised"}

LEMMA StageInvInit == CaptureInit => StageInv
<1> SUFFICES ASSUME CaptureInit
             PROVE  StageInv
  OBVIOUS
<1>1. items \in 0 .. Clamp \cup {Target} /\ Clamp \in Nat /\ Target \in Nat
  BY ReadAssumption DEF CaptureInit
<1> QED BY <1>1 DEF CaptureInit, ReadInit, StageInv, Early, Succeeding, Long

\* The steps that leave the stage alone are those of the core, of the clock and
\* of read_extended, and only the last of these move its statement.
LEMMA StageInvKept ==
  ASSUME StageInv, UNCHANGED sessionVars,
         stage = "slices" \/ UNCHANGED <<pc, haltAt>>
  PROVE  StageInv'
BY DEF sessionVars, StageInv, Early, Succeeding, Long

LEMMA StageInvNext ==
  ASSUME StageInv, ReleaseInv, [CaptureNext]_captureVars
  PROVE  StageInv'
<1> USE DEF StageInv, Early, Succeeding, MoveTo, InterruptedTo, Long
<1>1. CASE \/ OpenFails \/ OpenProbe \/ ConnectFails \/ Connect
           \/ OpenInterrupted \/ ConnectInterrupted
  BY <1>1 DEF OpenFails, OpenProbe, ConnectFails, Connect, OpenInterrupted,
              ConnectInterrupted, readVars, hostVars
<1>2. CASE SetUp \/ StartTrace \/ LetRun
  BY <1>2 DEF SetUp, StartTrace, LetRun, readVars, hostVars
<1>3. CASE Slice \/ Execute \/ Deadline \/ Over \/ UNCHANGED captureVars
  <2>1. UNCHANGED sessionVars /\ (stage = "slices" \/ UNCHANGED <<pc, haltAt>>)
    BY <1>3 DEF Slice, Execute, Deadline, Over, captureVars, readVars, hostVars, Retire
  <2> QED BY <2>1, StageInvKept
<1>4. CASE SlicesRaised
  BY <1>4 DEF SlicesRaised, readVars, hostVars
<1>5. CASE FinalHalt
  <2>1. CASE MoveTo("counts", FALSE)
    BY <1>5, <2>1 DEF FinalHalt, hostVars
  <2>2. CASE MoveTo("stop", TRUE)
    BY <1>5, <2>2 DEF FinalHalt, hostVars
  <2> QED BY <1>5, <2>1, <2>2 DEF FinalHalt
<1>6. CASE ReadCounts
  <2>1. CASE MoveTo(IF Long THEN "stop" ELSE "readback", FALSE)
    BY <1>6, <2>1 DEF ReadCounts, readVars, hostVars
  <2>2. CASE MoveTo("stop", TRUE)
    BY <1>6, <2>2 DEF ReadCounts, readVars, hostVars
  <2> QED BY <1>6, <2>1, <2>2 DEF ReadCounts
<1>7. CASE ReadBack
  <2>1. stage = "readback" /\ stage' = "stop" /\ items' = items /\ haltAt' = haltAt /\ pc' = pc
    BY <1>7 DEF ReadBack, hostVars
  <2> QED BY <2>1
<1>8. CASE StopTrace \/ Close
  BY <1>8 DEF StopTrace, Close, readVars, hostVars, ReleaseInv
<1>9. CASE Interrupt \/ TraceInterrupted \/ GoInterrupted \/ CloseInterrupted
  BY <1>9 DEF Interrupt, TraceInterrupted, GoInterrupted, CloseInterrupted, readVars,
              hostVars
<1> QED
  BY <1>1, <1>2, <1>3, <1>4, <1>5, <1>6, <1>7, <1>8, <1>9 DEF CaptureNext

(***************************************************************************)
(* To read_extended a capture is the core and the clock, its own steps, a  *)
(* caller who lets the core run before its first slice and halts it after  *)
(* its last; and, for a short capture, the one read.                       *)
(***************************************************************************)
CallerRuns ==
  /\ UNCHANGED <<storeVars, hostVars, retired, fresh, haltAt, drained>>
  /\ running' \in BOOLEAN
  /\ running' => haltAt = <<>>

LEMMA ReaderStep ==
  ASSUME StageInv, [CaptureNext]_captureVars
  PROVE  [ReadNext]_readVars \/ CallerRuns \/ ReadBack
<1>1. CASE LetRun
  <2>1. haltAt = <<>>
    BY <1>1 DEF LetRun, StageInv, Early
  <2>2. running' = TRUE
    BY <1>1 DEF LetRun
  <2>3. running' \in BOOLEAN
    BY <2>2, Zenon
  <2>4. UNCHANGED <<storeVars, hostVars, retired, fresh, haltAt, drained>>
    BY <1>1 DEF LetRun
  <2> QED BY <2>1, <2>3, <2>4 DEF CallerRuns
<1>2. CASE FinalHalt
  <2>1. UNCHANGED <<storeVars, hostVars, retired, fresh, haltAt, drained>>
    BY <1>2 DEF FinalHalt
  <2>2. CASE running' = FALSE
    <3>1. running' \in BOOLEAN /\ ~running'
      BY <2>2, Zenon
    <3> QED BY <2>1, <3>1 DEF CallerRuns
  <2>3. CASE UNCHANGED running
    BY <2>1, <2>3 DEF readVars, targetVars
  <2> QED BY <1>2, <2>2, <2>3 DEF FinalHalt
<1>3. CASE Slice \/ Execute \/ Deadline
  BY <1>3 DEF Slice, Execute, Deadline, ReadNext
<1>4. CASE GoInterrupted
  <2>1. haltAt = <<>>
    BY <1>4 DEF GoInterrupted, StageInv, Early
  <2>2. running' \in BOOLEAN
    BY <1>4 DEF GoInterrupted
  <2>3. UNCHANGED <<storeVars, hostVars, retired, fresh, haltAt, drained>>
    BY <1>4 DEF GoInterrupted
  <2> QED BY <2>1, <2>2, <2>3 DEF CallerRuns
<1>5. CASE ~(LetRun \/ FinalHalt \/ Slice \/ Execute \/ Deadline \/ ReadBack
             \/ GoInterrupted)
  BY <1>5 DEF CaptureNext, captureVars, OpenFails, OpenProbe, ConnectFails, Connect,
              SetUp, StartTrace, SlicesRaised, ReadCounts, StopTrace, Close,
              OpenInterrupted, ConnectInterrupted, Interrupt, TraceInterrupted,
              CloseInterrupted, Over
<1> QED BY <1>1, <1>2, <1>3, <1>4, <1>5

LEMMA CallerKeepsCallInv ==
  ASSUME CallInv, CallerRuns
  PROVE  CallInv'
<1>1. UNCHANGED <<storeVars, hostVars, retired, fresh, haltAt, drained>>
  BY DEF CallerRuns
<1>2. /\ UNCHANGED <<blocks, starts, length, stats, pc, before, appended, slices, pending>>
      /\ UNCHANGED <<stashed, expired, calls, retired, fresh, haltAt, drained>>
  BY <1>1 DEF storeVars, hostVars
<1>3. ReadInv'
  <2>1. StoreInv' /\ OrderInv' /\ StashInv' /\ InStash' = InStash
    BY <1>1, QuietStep DEF CallInv, hostVars
  <2>2. {expired, running}' \subseteq BOOLEAN
    <3>1. expired \in BOOLEAN
      BY DEF CallInv, ReadInv, ReadTypeOK
    <3>2. expired' \in BOOLEAN /\ running' \in BOOLEAN
      BY <1>2, <3>1, Zenon DEF CallerRuns
    <3> QED BY <3>2
  <2>3. ReadTypeOK'
    BY <1>2, <2>1, <2>2 DEF CallInv, ReadInv, ReadTypeOK, StoreInv
  <2>4. RoomInv'
    BY <1>2, <2>1 DEF CallInv, ReadInv, RoomInv
  <2> QED BY <2>1, <2>3, <2>4 DEF ReadInv
<1>4. PosInv'
  <2>1. haltAt # <<>> => ~running'
    BY DEF CallerRuns
  <2> QED BY <1>2, <2>1, Zenon DEF CallInv, PosInv, HaltedAt
<1>5. WindowInv'
  BY <1>2 DEF CallInv, WindowInv, Windows, EndsAt, WithinHalt
<1> QED BY <1>3, <1>4, <1>5 DEF CallInv

(***************************************************************************)
(* A short capture: nothing is in the store until its one read, which      *)
(* leaves at most one block, the newest of what was retired.  One that has *)
(* failed or was interrupted may have got as far as that.                  *)
(***************************************************************************)
OneRead ==
  /\ length = AtMost(retired, items)
  /\ blocks = IF length = 0 THEN <<>>
              ELSE <<[first |-> retired - length, n |-> length, lost |-> 0,
                      halt |-> 0, at |-> 0]>>

NothingRead == blocks = <<>> /\ starts = <<>> /\ length = 0 /\ fresh = retired

AtMostOneRead ==
  /\ Len(blocks) \in {0, 1}
  /\ \A i \in 1 .. Len(blocks) : blocks[i].halt = 0

ShortInv ==
  ~Long =>
    /\ pc = "loop" /\ pending = <<>> /\ Origin = 0 /\ retired \in Nat
    /\ AtMostOneRead
    /\ Succeeding => OneRead
    /\ ~Succeeding /\ ~failed => NothingRead

LEMMA ShortInvInit == CaptureInit => ShortInv
BY DEF CaptureInit, ReadInit, StoreInit, ShortInv, Succeeding, Origin, NothingRead,
       AtMostOneRead

LEMMA OnlyItem ==
  ASSUME NEW x
  PROVE  SubSeq(<<x>>, 1, 1) = <<x>>
<1>1. <<x>> \in Seq({x}) /\ Len(<<x>>) = 1
  OBVIOUS
<1> QED BY <1>1, SubSeqFull, Zenon

\* Appending to an empty store evicts nothing, whatever the capacity.
LEMMA FirstBlock ==
  ASSUME blocks = <<>>, starts = <<>>, length = 0,
         NEW b, b.n \in Nat, AppendBlock(b)
  PROVE  blocks' = <<b>> /\ length' = b.n /\ Origin' = Origin + 0
<1>1. PICK k \in 0 .. Len(blocks) :
        LET bs  == Append(blocks, b)
            ss  == Append(starts, length)
            len == length + b.n
        IN  /\ Evicts(k, bs, ss, len)
            /\ blocks' = SubSeq(bs, k + 1, Len(bs))
            /\ starts' = [i \in 1 .. (Len(bs) - k) |-> ss[i + k] - ss[k + 1]]
            /\ length' = len - ss[k + 1]
            /\ stats' = Dropped(Counted(b), k, ss[k + 1])
  BY DEF AppendBlock
<1>2. k = 0 /\ Append(blocks, b) = <<b>> /\ Append(starts, length) = <<0>>
  BY <1>1
<1>3. /\ blocks' = SubSeq(<<b>>, 1, 1) /\ length' = (0 + b.n) - 0
      /\ stats' = Dropped(Counted(b), 0, 0)
  BY <1>1, <1>2
<1>4. blocks' = <<b>> /\ length' = b.n
  BY <1>3, OnlyItem
<1>5. Origin' = Origin + 0
  BY <1>3 DEF Dropped, Counted, Origin
<1> QED BY <1>4, <1>5

LEMMA ShortInvNext ==
  ASSUME ShortInv, StageInv, ReleaseInv, [CaptureNext]_captureVars
  PROVE  ShortInv'
<1> SUFFICES ASSUME ~Long
             PROVE  ShortInv'
  <2>1. Long' = Long
    BY DEF CaptureNext, captureVars, sessionVars, OpenFails, OpenProbe, ConnectFails,
           Connect, SetUp, StartTrace, LetRun, Slice, SlicesRaised, FinalHalt,
           ReadCounts, ReadBack, StopTrace, Close,
           OpenInterrupted, ConnectInterrupted, Interrupt, TraceInterrupted,
           GoInterrupted, CloseInterrupted,
           Execute, Deadline, Over, MoveTo, InterruptedTo, Long
  <2> QED BY <2>1 DEF ShortInv
<1>1. /\ pc = "loop" /\ pending = <<>> /\ Origin = 0 /\ retired \in Nat
      /\ items \in Nat /\ AtMostOneRead /\ failed \in BOOLEAN
  BY DEF ShortInv, StageInv, ReleaseInv
<1>2. CASE ReadBack
  <2>1. /\ stage = "readback" /\ retired' = retired /\ items' = items
        /\ pc' = pc /\ pending' = pending /\ stage' = "stop"
    BY <1>2 DEF ReadBack, MoveTo, hostVars
  <2>2. NothingRead
    BY <2>1 DEF ShortInv, StageInv, Succeeding
  <2>3. PICK n \in Nat : n = AtMost(fresh, items)
    BY <1>1, <2>2 DEF AtMost, NothingRead
  <2>4. CASE /\ ~failed'
             /\ IF n > 0 THEN AppendBlock([first |-> retired - n, n |-> n, lost |-> 0,
                                           halt |-> 0, at |-> 0])
                         ELSE UNCHANGED storeVars
    <3>1. OneRead' /\ AtMostOneRead' /\ Origin' = 0
      <4>1. CASE n > 0
        <5>1. /\ blocks' = <<[first |-> retired - n, n |-> n, lost |-> 0,
                              halt |-> 0, at |-> 0]>>
              /\ length' = n /\ Origin' = Origin + 0
          BY <1>1, <2>2, <2>4, <4>1, FirstBlock DEF NothingRead
        <5>2. Origin' = 0
          BY <1>1, <5>1
        <5>3. n = AtMost(retired, items)
          BY <1>1, <2>2, <2>3 DEF NothingRead
        <5>4. OneRead'
          BY <2>1, <4>1, <5>1, <5>3 DEF OneRead, AtMost
        <5>5. AtMostOneRead'
          BY <5>1 DEF AtMostOneRead
        <5> QED BY <5>2, <5>4, <5>5
      <4>2. CASE ~(n > 0)
        <5>1. UNCHANGED storeVars /\ n = 0
          BY <2>4, <4>2
        <5>2. OneRead'
          BY <1>1, <2>1, <2>2, <2>3, <5>1 DEF OneRead, AtMost, storeVars, NothingRead
        <5> QED BY <1>1, <5>1, <5>2 DEF storeVars, Origin, AtMostOneRead
      <4> QED BY <4>1, <4>2
    <3> QED BY <1>1, <2>1, <2>4, <3>1 DEF ShortInv, Succeeding
  <2>5. CASE failed' /\ UNCHANGED <<storeVars, fresh>>
    BY <1>1, <2>1, <2>5 DEF ShortInv, Succeeding, storeVars, Origin, AtMostOneRead
  <2> QED BY <1>2, <2>3, <2>4, <2>5 DEF ReadBack, MoveTo
<1>3. CASE Execute
  <2>1. running /\ UNCHANGED sessionVars /\ UNCHANGED <<storeVars, pc, pending>>
        /\ retired' = retired + 1 /\ fresh' = fresh + 1
    BY <1>3 DEF Execute, Retire, hostVars
  <2>2. ~Succeeding
    BY <2>1 DEF Succeeding, ReleaseInv, HaltedForGood
  <2> QED BY <1>1, <2>1, <2>2 DEF ShortInv, NothingRead, AtMostOneRead, Succeeding,
             sessionVars, storeVars, Origin
<1>4. CASE ~(ReadBack \/ Execute)
  <2>1. UNCHANGED <<storeVars, pc, pending, retired, fresh, items>>
    BY <1>4 DEF CaptureNext, captureVars, sessionVars, OpenFails, OpenProbe, ConnectFails,
           Connect, SetUp, StartTrace, LetRun, Slice, SlicesRaised, FinalHalt,
           ReadCounts, StopTrace, Close, OpenInterrupted, ConnectInterrupted, Interrupt,
           TraceInterrupted, GoInterrupted, CloseInterrupted, Deadline, Over, MoveTo,
           InterruptedTo, readVars, targetVars, hostVars, StageInv
  <2>2. failed' \/ (Succeeding' = Succeeding /\ ~failed)
    <3>1. CASE \/ OpenInterrupted \/ ConnectInterrupted \/ Interrupt \/ TraceInterrupted
               \/ GoInterrupted \/ CloseInterrupted
      BY <3>1 DEF OpenInterrupted, ConnectInterrupted, Interrupt, TraceInterrupted,
                  GoInterrupted, CloseInterrupted, InterruptedTo
    <3>2. CASE ~(\/ OpenInterrupted \/ ConnectInterrupted \/ Interrupt
                 \/ TraceInterrupted \/ GoInterrupted \/ CloseInterrupted)
      BY <1>4, <3>2, StageInvNext
      DEF CaptureNext, captureVars, sessionVars, OpenFails, OpenProbe, ConnectFails,
          Connect, SetUp, StartTrace, LetRun, Slice, SlicesRaised, FinalHalt,
          ReadCounts, StopTrace, Close, Deadline, Over, MoveTo, Succeeding, ReleaseInv,
          StageInv
    <3> QED BY <3>1, <3>2
  <2>3. ~(Succeeding' /\ failed')
    BY DEF Succeeding
  <2> QED BY <1>1, <2>1, <2>2, <2>3
             DEF ShortInv, OneRead, NothingRead, AtMostOneRead, storeVars, Origin
<1> QED BY <1>2, <1>3, <1>4

-------------------------------------------------------------------------------
(***************************************************************************)
(* A capture makes one call of read_extended.                              *)
(***************************************************************************)
CaptureInv ==
  /\ ReleaseInv /\ StageInv /\ ShortInv
  /\ Long => CallInv

LEMMA CaptureReadInit == CaptureInit => ReadInit
BY DEF CaptureInit

LEMMA CaptureInvInit == CaptureInit => CaptureInv
BY CaptureReadInit, ReleaseInvInit, StageInvInit, ShortInvInit, CallInvInit
   DEF CaptureInv

\* items is an argument of run_capture and no step sets it.
LEMMA LongStays ==
  ASSUME [CaptureNext]_captureVars
  PROVE  items' = items /\ Long' = Long
BY DEF CaptureNext, captureVars, sessionVars, OpenFails, OpenProbe, ConnectFails,
       Connect, SetUp, StartTrace, LetRun, Slice, SlicesRaised, FinalHalt,
       ReadCounts, ReadBack, StopTrace, Close,
       OpenInterrupted, ConnectInterrupted, Interrupt, TraceInterrupted,
       GoInterrupted, CloseInterrupted,
       Execute, Deadline, Over, MoveTo, InterruptedTo, Long

\* What a step of a long capture is to read_extended.
LEMMA LongStep ==
  ASSUME StageInv, Long, [CaptureNext]_captureVars
  PROVE  [ReadNext]_readVars \/ CallerRuns
BY ReaderStep DEF ReadBack, StageInv

LEMMA CaptureInvNext ==
  ASSUME MaxCalls = 1, CaptureInv, [CaptureNext]_captureVars
  PROVE  CaptureInv'
<1>1. ReleaseInv' /\ StageInv' /\ ShortInv'
  BY ReleaseInvNext, StageInvNext, ShortInvNext DEF CaptureInv
<1>2. Long' => CallInv'
  <2> SUFFICES ASSUME Long
               PROVE  CallInv'
    BY LongStays
  <2> QED BY LongStep, CallInvNext, CallerKeepsCallInv DEF CaptureInv
<1> QED BY <1>1, <1>2 DEF CaptureInv

LEMMA CaptureInvariant ==
  ASSUME MaxCalls = 1
  PROVE  CaptureSpec => []CaptureInv
BY CaptureInvInit, CaptureInvNext, PTL DEF CaptureSpec

\* The one window of a short capture.
LEMMA ShortWindows ==
  ASSUME ShortInv, ~Long
  PROVE  /\ pending = <<>> /\ pc = "loop" /\ Origin = 0 /\ Len(blocks) \in {0, 1}
         /\ \A i \in 1 .. Len(blocks) : blocks[i].halt = 0
BY DEF ShortInv, AtMostOneRead

\* A halt reason belongs to the halt that produced it (strace.py:589-593), in
\* whichever stage a capture is left, with a counter that wraps or does not
\* answer; the one read of a short capture records no halt.
THEOREM CapturedHaltReasonsBelong ==
  ASSUME MaxCalls = 1
  PROVE  CaptureSpec => []HaltReasonBelongs
<1>1. ASSUME CaptureInv
      PROVE  HaltReasonBelongs
  <2>1. CASE Long
    BY <1>1, <2>1, CallHaltReasons DEF CaptureInv
  <2>2. CASE ~Long
    <3>1. pending = <<>> /\ \A i \in 1 .. Len(blocks) : blocks[i].halt = 0
      BY <1>1, <2>2, ShortWindows DEF CaptureInv
    <3>2. 1 .. Len(pending) = {}
      BY <3>1
    <3> QED BY <3>1, <3>2, Zenon DEF HaltReasonBelongs
  <2> QED BY <2>1, <2>2
<1> QED BY <1>1, CaptureInvariant, PTL

(***************************************************************************)
(* The rest of what is known of read_extended, in a long capture.          *)
(***************************************************************************)
LEMMA CallerKeepsRest ==
  ASSUME CallerRuns
  PROVE  /\ SampleInv => SampleInv'
         /\ SeamInv => SeamInv'
         /\ WholeInv => WholeInv'
<1>1. UNCHANGED <<storeVars, hostVars, retired, fresh, haltAt, drained>>
  BY DEF CallerRuns
<1>2. /\ UNCHANGED <<blocks, starts, length, stats, pc, before, appended, slices, pending>>
      /\ UNCHANGED <<stashed, expired, calls, retired, fresh, haltAt, drained>>
  BY <1>1 DEF storeVars, hostVars
<1> QED BY <1>2 DEF SampleInv, SeamInv, Windows, Joins, WholeInv, Origin

\* The stream says where its holes are (strace.py:582-586), in whichever stage a
\* capture is left: with a counter that always answers and does not wrap,
\* exactly lost_before instructions are missing between neighbouring windows.
THEOREM CapturedSeamsAreAccounted ==
  ASSUME Exact
  PROVE  CaptureSpec => []SeamsAccounted
<1> DEFINE Inv == CaptureInv /\ (Long => SampleInv /\ SeamInv)
<1>1. CaptureInit => Inv
  BY CaptureInvInit, CaptureReadInit, SeamCallInvInit DEF SeamCallInv
<1>2. Inv /\ [CaptureNext]_captureVars => Inv'
  <2> SUFFICES ASSUME Inv, [CaptureNext]_captureVars
               PROVE  Inv'
    OBVIOUS
  <2>1. CaptureInv'
    BY CaptureInvNext DEF Exact
  <2>2. ASSUME Long
        PROVE  SampleInv' /\ SeamInv'
    BY <2>2, LongStep, CallerKeepsRest, SampleSteps, SeamSteps DEF CaptureInv
  <2> QED BY <2>1, <2>2, LongStays
<1>3. ASSUME Inv
      PROVE  SeamsAccounted
  <2>1. CASE Long
    BY <1>3, <2>1, CallSeams DEF CaptureInv, SeamCallInv
  <2>2. CASE ~Long
    <3>1. pending = <<>> /\ Len(blocks) \in {0, 1}
      BY <1>3, <2>2, ShortWindows DEF CaptureInv
    <3>2. 1 .. (Len(pending) - 1) = {}
      BY <3>1
    <3>3. 1 .. (Len(blocks) - 1) = {}
      <4>1. \A n \in {0, 1} : 1 .. (n - 1) = {}
        OBVIOUS
      <4> QED BY <3>1, <4>1
    <3> QED BY <3>1, <3>2, <3>3 DEF SeamsAccounted, Chained
  <2> QED BY <2>1, <2>2
<1> QED BY <1>1, <1>2, <1>3, PTL DEF CaptureSpec

\* The store run_capture passes, which covers the target and one window more
\* (capture.py:230-233), evicts nothing and is not flushed between two slices,
\* and what read_extended returns is the oldest part of what it has read.
THEOREM CapturedIsWhole ==
  ASSUME MaxCalls = 1
  PROVE  CaptureSpec => []WholeCapture
<1>1. CASE Covers
  <2> DEFINE Inv == CaptureInv /\ (Long => WholeInv)
  <2>1. CaptureInit => Inv
    BY CaptureInvInit, CaptureReadInit, WholeCallInvInit DEF WholeCallInv
  <2>2. Inv /\ [CaptureNext]_captureVars => Inv'
    <3> SUFFICES ASSUME Inv, [CaptureNext]_captureVars
                 PROVE  Inv'
      OBVIOUS
    <3>1. CaptureInv'
      BY CaptureInvNext
    <3>2. ASSUME Long
          PROVE  WholeInv'
      BY <1>1, <3>2, LongStep, CallerKeepsRest, WholeSteps DEF CaptureInv, CallInv
    <3> QED BY <3>1, <3>2, LongStays
  <2>3. ASSUME Inv
        PROVE  WholeCapture
    <3>1. CASE Long
      BY <2>3, <3>1 DEF WholeInv, WholeCapture
    <3>2. CASE ~Long
      BY <2>3, <3>2, ShortWindows DEF CaptureInv, WholeCapture
    <3> QED BY <3>1, <3>2
  <2> QED BY <2>1, <2>2, <2>3, PTL DEF CaptureSpec
<1>2. CASE ~Covers
  <2>1. WholeCapture
    BY <1>2 DEF Covers, WholeCapture
  <2> QED BY <2>1, PTL
<1> QED BY <1>1, <1>2

-------------------------------------------------------------------------------
(***************************************************************************)
(* What is missing before a window.  at counts the instructions read       *)
(* before it and first those retired, so first - at are missing: what the  *)
(* window says was lost is among them, and they are still missing now.     *)
(***************************************************************************)
Missing == (retired - fresh) - drained

SparedBy(w, spare) == w.at <= w.first /\ w.lost <= w.first - w.at /\ w.first - w.at <= spare

MissingInv ==
  /\ drained <= retired - fresh
  /\ pc \in {"go", "halt", "drain"} => drained <= before
  /\ \A i \in 1 .. Len(Windows) : SparedBy(Windows[i], Missing)

LEMMA SparedLonger ==
  ASSUME NEW w \in Block, NEW m \in Int, NEW n \in Int, m <= n, SparedBy(w, m)
  PROVE  SparedBy(w, n)
<1>1. w.at \in Nat /\ w.first \in Nat
  BY DEF Block
<1> QED BY <1>1 DEF SparedBy

LEMMA MissingDrain ==
  ASSUME Exact, CallInv, SampleInv, MissingInv, Drain
  PROVE  MissingInv'
<1>1. /\ Windows \in Seq(Block) /\ Len(Windows) \in Nat
      /\ \A i \in 1 .. Len(Windows) : Windows[i] \in Block
  BY WindowsFacts DEF CallInv
<1>2. /\ retired \in Nat /\ fresh \in Nat /\ fresh <= retired /\ before \in Nat
      /\ drained \in Nat /\ retired <= MaxRetired /\ ReadInv /\ PosInv /\ MaxCalls = 1
      /\ drained <= retired - fresh
  BY ReadFacts DEF CallInv, ReadInv, ReadTypeOK, Exact, SampleInv, MissingInv
<1>3. /\ pc = "drain" /\ pc' = "progress" /\ fresh' = 0 /\ retired' = retired
      /\ drained' = drained + WindowLen /\ drained <= before
  BY DEF Drain, MissingInv
<1>4. WindowLen \in Nat /\ WindowLen <= fresh
  BY <1>2, WindowFacts
<1>5. PICK len \in Nat : len = WindowLen
  BY <1>4
<1>6. /\ Missing \in Int /\ Missing' \in Int /\ Missing <= Missing'
      /\ Missing' = (retired - len) - drained /\ drained' <= retired' - fresh'
  BY <1>2, <1>3, <1>4, <1>5 DEF Missing
<1>7. \A i \in 1 .. Len(Windows) : SparedBy(Windows[i], Missing')
  BY <1>1, <1>6, SparedLonger DEF MissingInv
<1>8. CASE Windows' = Windows
  BY <1>3, <1>6, <1>7, <1>8 DEF MissingInv
<1>9. ASSUME NEW after \in TotalExecuted,
             Windows' = Append(Windows, Window(NonNeg(after - before - WindowLen)))
      PROVE  MissingInv'
  <2>1. after = retired
    BY <1>2, CounterExact
  <2>2. PICK lost \in Nat : lost = NonNeg(after - before - WindowLen)
    <3>1. PICK x \in Int : x = after - before - WindowLen
      BY <1>2, <2>1, <1>4
    <3>2. NonNeg(x) \in Nat
      BY DEF NonNeg
    <3> QED BY <3>1, <3>2
  <2>3. lost <= (retired - len) - drained
    BY <1>2, <1>3, <1>4, <1>5, <2>1, <2>2 DEF NonNeg
  <2>4. PICK w \in Block : w = Window(lost)
    BY <1>2, WindowFacts
  <2>5. w.first = retired - len /\ w.lost = lost /\ w.at = drained
    BY <1>5, <2>4 DEF Window
  <2>6. SparedBy(w, Missing')
    BY <1>2, <1>4, <1>5, <1>6, <2>3, <2>5 DEF SparedBy
  <2>7. /\ Len(Windows') = Len(Windows) + 1 /\ Windows'[Len(Windows) + 1] = w
        /\ \A i \in 1 .. Len(Windows) : Windows'[i] = Windows[i]
    BY <1>1, <1>9, <2>2, <2>4
  <2>8. \A i \in 1 .. Len(Windows') : SparedBy(Windows'[i], Missing')
    BY <1>1, <1>7, <2>6, <2>7
  <2> QED BY <1>3, <1>6, <2>8 DEF MissingInv
<1>10. ~BuildBlock /\ ~Return /\ ~Raise
  BY <1>3 DEF BuildBlock, Return, Raise
<1> QED BY <1>2, <1>8, <1>9, <1>10, WindowSteps DEF ReadNext, Host

LEMMA MissingSteps ==
  ASSUME Exact, CallInv, CallInv', SampleInv, MissingInv, [ReadNext]_readVars
  PROVE  MissingInv'
<1>1. /\ Windows \in Seq(Block) /\ Len(Windows) \in Nat
      /\ Len(Windows) = Len(blocks) + Len(pending) /\ Len(blocks) \in Nat
      /\ Len(pending) \in Nat
      /\ \A i \in 1 .. Len(Windows) : Windows[i] \in Block
  BY WindowsFacts, ReadFacts DEF CallInv
<1>2. /\ retired \in Nat /\ fresh \in Nat /\ fresh <= retired /\ before \in Nat
      /\ drained \in Nat /\ retired <= MaxRetired /\ ReadInv /\ PosInv /\ MaxCalls = 1
      /\ drained <= retired - fresh /\ calls = 1
  BY ReadFacts DEF CallInv, ReadInv, ReadTypeOK, PosInv, Exact, SampleInv, MissingInv
<1>3. CASE Drain
  BY <1>3, MissingDrain
<1> SUFFICES ASSUME ~Drain
             PROVE  MissingInv'
  BY <1>3
<1>4. ~Resume /\ ~CallAgain
  BY <1>2 DEF Resume, CallAgain
<1>5. drained' = drained
  BY <1>4 DEF ReadNext, Host, LeaveLoop, StartSlice, Go, Halt, Progress, BuildBlock,
              EndFlush, Return, Raise, Ended, Retire, Expire, readVars
<1>6. retired' - fresh' = retired - fresh
  <2>1. CASE Retire
    BY <1>2, <2>1 DEF Retire
  <2>2. CASE ~Retire
    BY <1>4, <2>2 DEF ReadNext, Host, LeaveLoop, StartSlice, Go, Halt, Progress, BuildBlock,
              EndFlush, Return, Raise, Ended, Expire, readVars, targetVars
  <2> QED BY <2>1, <2>2
<1>7. pc' \in {"go", "halt", "drain"} => drained' <= before'
  <2>1. CASE StartSlice
    BY <1>2, <1>5, <2>1, CounterExact DEF StartSlice
  <2>2. CASE Go \/ Halt \/ Retire \/ Expire \/ UNCHANGED readVars
    BY <1>5, <2>2 DEF Go, Halt, Retire, Expire, hostVars, readVars, MissingInv
  <2>3. CASE LeaveLoop \/ Progress \/ EndFlush \/ Return \/ BuildBlock \/ Raise
    BY <2>3 DEF LeaveLoop, Progress, EndFlush, Return, BuildBlock, Raise
  <2> QED BY <1>4, <2>1, <2>2, <2>3 DEF ReadNext, Host, Ended
<1>8. Missing' = Missing
  BY <1>5, <1>6 DEF Missing
<1>9. \A i \in 1 .. Len(Windows') : SparedBy(Windows'[i], Missing)
  <2>1. CASE Windows' = Windows
    BY <2>1 DEF MissingInv
  <2>2. CASE \E k \in 0 .. Len(blocks) :
               /\ Windows' \in Seq(Block) /\ Len(Windows') = Len(Windows) - k
               /\ \A i \in 1 .. Len(Windows') : Windows'[i] = Windows[i + k]
    <3>1. PICK k \in 0 .. Len(blocks) :
               /\ Len(Windows') = Len(Windows) - k
               /\ \A i \in 1 .. Len(Windows') : Windows'[i] = Windows[i + k]
      BY <2>2
    <3>2. \A i \in 1 .. Len(Windows') : i + k \in 1 .. Len(Windows)
      BY <1>1, <3>1
    <3> QED BY <3>1, <3>2 DEF MissingInv
  <2>3. CASE Return /\ Windows = blocks /\ Windows' = blocks'
    <3>1. TruncateTo(Target) /\ StoreInv /\ Target \in Int
      BY <1>2, <2>3, ReadFacts DEF Return, ReadInv
    <3>2. \A i \in 1 .. Len(blocks') :
            /\ i \in 1 .. Len(blocks)
            /\ blocks'[i].first = blocks[i].first /\ blocks'[i].lost = blocks[i].lost
            /\ blocks'[i].at = blocks[i].at
      BY <3>1, CutDropsLast
    <3> QED BY <2>3, <3>2 DEF MissingInv, SparedBy
  <2>4. CASE Raise /\ Windows' = blocks
    <3>1. \A i \in 1 .. Len(blocks) : i \in 1 .. Len(Windows) /\ Windows[i] = blocks[i]
      BY <1>1, <1>2, WindowsFacts
    <3> QED BY <2>4, <3>1 DEF MissingInv
  <2> QED BY <1>2, <2>1, <2>2, <2>3, <2>4, WindowSteps
<1> QED BY <1>2, <1>5, <1>6, <1>7, <1>8, <1>9 DEF MissingInv

(***************************************************************************)
(* The total the result is judged by is that of the halted core.           *)
(***************************************************************************)
CountInv ==
  /\ retired \in 0 .. MaxRetired
  /\ stage = "readback" \/ Succeeding => executed = retired

LEMMA CountInvNext ==
  ASSUME Exact, ReleaseInv, StageInv, CountInv, [CaptureNext]_captureVars
  PROVE  CountInv'
<1>1. retired \in Nat /\ MaxRetired \in Nat /\ retired <= MaxRetired
  BY ReadAssumption DEF CountInv
<1>2. CASE Execute
  <2>1. /\ running /\ UNCHANGED sessionVars /\ retired < MaxRetired
        /\ retired' = retired + 1
    BY <1>2 DEF Execute, Retire
  <2>2. ~(stage = "readback" \/ Succeeding)
    BY <2>1 DEF Succeeding, ReleaseInv, HaltedForGood
  <2> QED BY <1>1, <2>1, <2>2 DEF CountInv, Succeeding, sessionVars
<1>3. ASSUME ~Execute
      PROVE  retired' = retired
  BY <1>3 DEF CaptureNext, captureVars, OpenFails, OpenProbe, ConnectFails,
       Connect, SetUp, StartTrace, LetRun, Slice, SlicesRaised, FinalHalt,
       ReadCounts, ReadBack, StopTrace, Close,
       OpenInterrupted, ConnectInterrupted, Interrupt, TraceInterrupted,
       GoInterrupted, CloseInterrupted,
       Deadline, Over, readVars, targetVars, Host, LeaveLoop, StartSlice, Go, Halt,
       Drain, Progress, BuildBlock, EndFlush, Return, Raise, Expire
<1>4. CASE ReadCounts
  <2>1. executed' = retired \/ (stage' = "stop" /\ failed')
    BY <1>1, <1>4, CounterExact DEF ReadCounts, MoveTo
  <2>2. \/ retired' = retired /\ stage' # "readback" /\ ~Succeeding'
        \/ retired' = retired /\ executed' = retired
    BY <1>4, <2>1 DEF ReadCounts, readVars, targetVars, Succeeding
  <2> QED BY <1>1, <2>1, <2>2 DEF CountInv, Succeeding
<1>5. CASE ~Execute /\ ~ReadCounts
  <2>1. executed' = executed
    BY <1>5 DEF CaptureNext, captureVars, sessionVars, OpenFails, OpenProbe, ConnectFails,
       Connect, SetUp, StartTrace, LetRun, Slice, SlicesRaised, FinalHalt,
       ReadBack, StopTrace, Close,
       OpenInterrupted, ConnectInterrupted, Interrupt, TraceInterrupted,
       GoInterrupted, CloseInterrupted, Deadline, Over
  <2>2. stage' = "readback" \/ Succeeding' => stage = "readback" \/ Succeeding
    BY <1>5 DEF CaptureNext, captureVars, sessionVars, OpenFails, OpenProbe, ConnectFails,
       Connect, SetUp, StartTrace, LetRun, Slice, SlicesRaised, FinalHalt,
       ReadBack, StopTrace, Close,
       OpenInterrupted, ConnectInterrupted, Interrupt, TraceInterrupted,
       GoInterrupted, CloseInterrupted, Deadline, Over, MoveTo, InterruptedTo, Succeeding, ReleaseInv
  <2> QED BY <1>1, <1>3, <1>5, <2>1, <2>2 DEF CountInv
<1> QED BY <1>2, <1>4, <1>5

CompleteInv ==
  /\ CaptureInv /\ CountInv
  /\ Long => SampleInv /\ WholeInv /\ MissingInv

LEMMA CompleteInvInit == CaptureInit => CompleteInv
<1> SUFFICES ASSUME CaptureInit
             PROVE  CompleteInv
  OBVIOUS
<1>1. CaptureInv /\ SampleInv /\ WholeInv
  BY CaptureInvInit, CaptureReadInit, SeamCallInvInit, WholeCallInvInit
     DEF SeamCallInv, WholeCallInv
<1>2. CountInv
  <2>1. MaxRetired \in Nat /\ retired = 0 /\ stage = "open"
    BY ReadAssumption DEF CaptureInit, ReadInit
  <2> QED BY <2>1 DEF CountInv, Succeeding
<1>3. MissingInv
  <2>1. /\ blocks = <<>> /\ pending = <<>> /\ retired = 0 /\ fresh = 0 /\ drained = 0
        /\ pc = "loop"
    BY DEF CaptureInit, ReadInit, StoreInit
  <2>2. Windows = <<>> /\ Len(Windows) = 0
    BY <2>1 DEF Windows
  <2> QED BY <2>1, <2>2 DEF MissingInv
<1> QED BY <1>1, <1>2, <1>3 DEF CompleteInv

LEMMA CompleteInvNext ==
  ASSUME Exact, Covers, CompleteInv, [CaptureNext]_captureVars
  PROVE  CompleteInv'
<1>1. CaptureInv' /\ CountInv'
  BY CaptureInvNext, CountInvNext DEF CompleteInv, CaptureInv, Exact
<1>2. ASSUME Long
      PROVE  SampleInv' /\ WholeInv' /\ MissingInv'
  <2>1. CallInv /\ CallInv' /\ ReadInv /\ PosInv
    BY <1>1, <1>2, LongStays DEF CompleteInv, CaptureInv, CallInv
  <2>2. CASE [ReadNext]_readVars
    BY <1>2, <2>1, <2>2, SampleSteps, WholeSteps, MissingSteps DEF CompleteInv
  <2>3. CASE CallerRuns
    <3>1. SampleInv' /\ WholeInv'
      BY <1>2, <2>3, CallerKeepsRest DEF CompleteInv
    <3>2. MissingInv'
      BY <1>2, <2>3 DEF CompleteInv, CallerRuns, MissingInv, Missing, Windows, storeVars,
                        hostVars, SparedBy
    <3> QED BY <3>1, <3>2
  <2> QED BY <1>2, <2>2, <2>3, LongStep DEF CompleteInv, CaptureInv
<1> QED BY <1>1, <1>2, LongStays DEF CompleteInv

\* With nothing missing, and with room for all that was read, every window lies
\* where the store says it starts.
LEMMA NothingMissing ==
  ASSUME CallInv, WholeInv, MissingInv, pc = "done", retired <= length
  PROVE  /\ length = retired
         /\ \A i \in 1 .. Len(blocks) : blocks[i].first = starts[i] /\ blocks[i].lost = 0
<1>1. /\ retired \in Nat /\ fresh \in Nat /\ drained \in Nat /\ Target \in Nat
      /\ length \in Nat /\ ReadInv /\ pending = <<>> /\ blocks \in Seq(Block)
      /\ Len(blocks) \in Nat
  BY ReadFacts DEF CallInv, PosInv
<1>2. length <= drained
  BY <1>1 DEF WholeInv, AtMost
<1>3. length = retired /\ Missing = 0
  BY <1>1, <1>2 DEF MissingInv, Missing
<1>4. Windows = blocks
  BY <1>1, JoinedNothing DEF Windows
<1>5. ASSUME NEW i \in 1 .. Len(blocks)
      PROVE  blocks[i].first = starts[i] /\ blocks[i].lost = 0
  <2>1. SparedBy(blocks[i], 0) /\ blocks[i].at = starts[i]
    BY <1>3, <1>4 DEF MissingInv, WholeInv
  <2>2. blocks[i] \in Block
    BY <1>1
  <2>3. blocks[i].first \in Nat /\ blocks[i].at \in Nat /\ blocks[i].lost \in Nat
    BY <2>2 DEF Block
  <2> QED BY <2>1, <2>3 DEF SparedBy
<1> QED BY <1>3, <1>5

LEMMA ShortComplete ==
  ASSUME ShortInv, StageInv, ~Long, Succeeding, retired <= length
  PROVE  /\ length = retired /\ Chained(blocks) /\ Boundaries = {}
         /\ blocks # <<>> => blocks[1].first = 0
<1>1. /\ length = AtMost(retired, items) /\ retired \in Nat /\ items \in Nat
      /\ blocks = IF length = 0 THEN <<>>
                  ELSE <<[first |-> retired - length, n |-> length, lost |-> 0,
                          halt |-> 0, at |-> 0]>>
  BY DEF ShortInv, OneRead, StageInv
<1>2. length = retired
  BY <1>1 DEF AtMost
<1>3. \A i \in 1 .. Len(blocks) : blocks[i].lost = 0 /\ blocks[i].first = 0
  BY <1>1, <1>2
<1>4. Len(blocks) \in {0, 1}
  BY <1>1
<1>5. 1 .. (Len(blocks) - 1) = {}
  <2>1. \A n \in {0, 1} : 1 .. (n - 1) = {}
    OBVIOUS
  <2> QED BY <1>4, <2>1
<1>6. blocks # <<>> => blocks[1].first = 0
  BY <1>1, <1>2
<1>7. Boundaries = {}
  BY <1>3 DEF Boundaries
<1>8. Chained(blocks)
  BY <1>5, Zenon DEF Chained
<1> QED BY <1>2, <1>6, <1>7, <1>8

\* A result that run_capture returns and does not mark as truncated is the whole
\* run (capture.py:302-305): as many instructions as the core retired since
\* tracing started, from the first, without a hole; for every target, clamp,
\* slice limit and number of items, whatever fails or interrupts on other
\* paths, with the store run_capture sizes (capture.py:230-233) and a counter
\* that always answers and does not wrap.
THEOREM CapturedIsComplete ==
  ASSUME Exact, Covers
  PROVE  CaptureSpec => []UntruncatedIsComplete
<1>1. CaptureInit => CompleteInv
  BY CompleteInvInit
<1>2. CompleteInv /\ [CaptureNext]_captureVars => CompleteInv'
  BY CompleteInvNext
<1>3. ASSUME CompleteInv
      PROVE  UntruncatedIsComplete
  <2> SUFFICES ASSUME stage = "returned", ~WindowTruncated
               PROVE  /\ length = retired /\ Chained(blocks) /\ Boundaries = {}
                      /\ blocks # <<>> => blocks[1].first = 0
    BY DEF UntruncatedIsComplete
  <2>1. Succeeding /\ ShortInv /\ StageInv
    BY <1>3 DEF CompleteInv, CaptureInv, StageInv, Succeeding
  <2>2. executed = retired /\ retired \in Nat
    BY <1>3, <2>1 DEF CompleteInv, CountInv
  <2>3. CASE Long
    <3>1. CallInv /\ WholeInv /\ MissingInv /\ pc = "done" /\ StoreInv
      BY <1>3, <2>1, <2>3 DEF CompleteInv, CaptureInv, StageInv, CallInv, ReadInv
    <3>2. retired <= length
      BY <2>2, <3>1, StoreFacts DEF WindowTruncated
    <3>3. /\ length = retired
          /\ \A i \in 1 .. Len(blocks) : blocks[i].first = starts[i] /\ blocks[i].lost = 0
      BY <3>1, <3>2, NothingMissing
    <3>4. Boundaries = {}
      BY <3>3 DEF Boundaries
    <3>5. ASSUME NEW i \in 1 .. (Len(blocks) - 1)
          PROVE  Joins(blocks[i], blocks[i + 1])
      <4>1. /\ i \in 1 .. Len(blocks) /\ i + 1 \in 1 .. Len(blocks)
            /\ starts[i + 1] = starts[i] + blocks[i].n /\ blocks # <<>>
            /\ starts[i] \in Nat /\ blocks[i].n \in Nat
        BY <3>1, StoreFacts DEF StoreInv, StartsMatchBlocks
      <4> QED BY <3>3, <4>1 DEF Joins
    <3>6. ASSUME blocks # <<>>
          PROVE  blocks[1].first = 0
      <4>1. 1 \in 1 .. Len(blocks) /\ starts[1] = 0
        BY <3>1, <3>6, StoreFacts DEF StoreInv, StartsMatchBlocks
      <4> QED BY <3>3, <4>1
    <3> QED BY <3>3, <3>4, <3>5, <3>6 DEF Chained
  <2>4. CASE ~Long
    <3>1. length \in Int
      BY <2>1, <2>4, <2>2 DEF ShortInv, OneRead, StageInv, AtMost
    <3>2. retired <= length
      BY <2>2, <3>1 DEF WindowTruncated
    <3> QED BY <2>1, <2>4, <3>2, ShortComplete
  <2> QED BY <2>3, <2>4
<1> QED BY <1>1, <1>2, <1>3, PTL DEF CaptureSpec
================================================================================
