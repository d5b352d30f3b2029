------------------------------ MODULE TraceStore ------------------------------
(***************************************************************************)
(* The bounded, block-segmented program counter stream of                  *)
(* jtrace/store.py: the state of a TraceStore and the operations that      *)
(* change it.  The module says what each operation does; StoreFeed puts a  *)
(* caller around it and ReadExtended is the caller jtrace itself has.      *)
(*                                                                         *)
(* A program counter is represented by the serial number of the retired    *)
(* instruction it was sampled from, and the pcs array of a block by the    *)
(* first serial and the length: a window is always an unbroken run of the  *)
(* core, and the store never looks at the values.                          *)
(***************************************************************************)
EXTENDS Integers, Sequences

CONSTANT
  Capacity      \* TraceStore.capacity, in instructions

\* TraceStore.__init__ refuses a capacity that is not positive.
ASSUME CapacityAssumption == Capacity \in Nat \ {0}

VARIABLES
  blocks,       \* _blocks, oldest first
  starts,       \* _starts, the store-wide index of each block's first item
  length,       \* _length
  stats         \* _stats, the lifetime counters

storeVars == <<blocks, starts, length, stats>>

(***************************************************************************)
(* first: serial of the oldest instruction.  n: len(block).  lost:         *)
(* lost_before.  halt: the halt the slice ended with, which halt_reason    *)
(* and wall_ns are read under.  at: how many instructions had been read    *)
(* before this block; no code keeps it, it is here for the properties.     *)
(***************************************************************************)
Block == [first : Nat, n : Nat, lost : Nat, halt : Nat, at : Nat]

StoreStats ==
  [polls : Nat, stitched : Nat, gaps : Nat, lost : Nat, totalRead : Nat,
   droppedBlocks : Nat, droppedInstructions : Nat]

StoreInit ==
  /\ blocks = <<>>
  /\ starts = <<>>
  /\ length = 0
  /\ stats = [polls |-> 0, stitched |-> 0, gaps |-> 0, lost |-> 0,
              totalRead |-> 0, droppedBlocks |-> 0, droppedInstructions |-> 0]

-------------------------------------------------------------------------------
(***************************************************************************)
(* Operations                                                              *)
(***************************************************************************)

\* Mutant: a slice that lost everything it retired is not a gap.
CountedOnlyWithItems(b) ==
  [polls     |-> stats.polls + 1,
   stitched  |-> IF b.lost = 0 /\ b.n > 0 THEN stats.stitched + 1 ELSE stats.stitched,
   gaps      |-> IF b.lost > 0 /\ b.n > 0 THEN stats.gaps + 1 ELSE stats.gaps,
   lost      |-> stats.lost + b.lost,
   totalRead |-> stats.totalRead + b.n,
   droppedBlocks       |-> stats.droppedBlocks,
   droppedInstructions |-> stats.droppedInstructions]

\* What append_block does to the counters, before any eviction.
Counted(b) ==
  [polls     |-> stats.polls + 1,
   stitched  |-> IF b.lost = 0 /\ b.n > 0 THEN stats.stitched + 1 ELSE stats.stitched,
   gaps      |-> IF b.lost > 0 THEN stats.gaps + 1 ELSE stats.gaps,
   lost      |-> stats.lost + b.lost,
   totalRead |-> stats.totalRead + b.n,
   droppedBlocks       |-> stats.droppedBlocks,
   droppedInstructions |-> stats.droppedInstructions]

\* Mutant: "if" for "while", at most one block is popped.
EvictsOnce(k, bs, ss, len) ==
  k = IF len > Capacity /\ Len(bs) > 1 THEN 1 ELSE 0

\* Mutant: ">=" for ">", a store that is exactly full loses a block.
EvictsWhenFull(k, bs, ss, len) ==
  /\ len - ss[k + 1] < Capacity \/ k + 1 = Len(bs)
  /\ \A j \in 0 .. (k - 1) : len - ss[j + 1] >= Capacity

(***************************************************************************)
(* _evict pops k blocks from the front of bs, whose start indices are ss   *)
(* and whose lengths add up to len: as many as it takes for the rest to    *)
(* fit, and never the last one.                                            *)
(***************************************************************************)
Evicts(k, bs, ss, len) ==
  /\ len - ss[k + 1] <= Capacity \/ k + 1 = Len(bs)
  /\ \A j \in 0 .. (k - 1) : len - ss[j + 1] > Capacity

Dropped(s, k, items) ==
  [polls     |-> s.polls,
   stitched  |-> s.stitched,
   gaps      |-> s.gaps,
   lost      |-> s.lost,
   totalRead |-> s.totalRead,
   droppedBlocks       |-> s.droppedBlocks + k,
   droppedInstructions |-> s.droppedInstructions + items]

\* Mutant: eviction forgets to rebuild the index table.
AppendBlockStale(b) ==
  LET bs  == Append(blocks, b)
      ss  == Append(starts, length)
      len == length + b.n
  IN  \E k \in 0 .. Len(blocks) :
        /\ Evicts(k, bs, ss, len)
        /\ blocks' = SubSeq(bs, k + 1, Len(bs))
        /\ starts' = SubSeq(ss, k + 1, Len(ss))
        /\ length' = len - ss[k + 1]
        /\ stats' = Dropped(Counted(b), k, ss[k + 1])

\* Mutant: the counters are derived from what is retained, so the loss an
\* evicted block recorded goes with it.
AppendBlockForgets(b) ==
  LET bs  == Append(blocks, b)
      ss  == Append(starts, length)
      len == length + b.n
  IN  \E k \in 0 .. Len(blocks) :
        /\ Evicts(k, bs, ss, len)
        /\ blocks' = SubSeq(bs, k + 1, Len(bs))
        /\ starts' = [i \in 1 .. (Len(bs) - k) |-> ss[i + k] - ss[k + 1]]
        /\ length' = len - ss[k + 1]
        /\ stats' = [Dropped(Counted(b), k, ss[k + 1])
                      EXCEPT !.lost = IF k > 0 THEN @ - bs[1].lost ELSE @]

AppendBlock(b) ==
  LET bs  == Append(blocks, b)
      ss  == Append(starts, length)
      len == length + b.n
  IN  \E k \in 0 .. Len(blocks) :
        /\ Evicts(k, bs, ss, len)
        /\ blocks' = SubSeq(bs, k + 1, Len(bs))
        /\ starts' = [i \in 1 .. (Len(bs) - k) |-> ss[i + k] - ss[k + 1]]
        /\ length' = len - ss[k + 1]
        /\ stats' = Dropped(Counted(b), k, ss[k + 1])

NoteIdlePoll ==
  /\ stats' = [stats EXCEPT !.polls = @ + 1]
  /\ UNCHANGED <<blocks, starts, length>>

\* Nothing to cut, everything to cut, or the block that holds item count - 1
\* is replaced by a copy that ends with that item and becomes the last one.
TruncateTo(count) ==
  \/ /\ count >= length
     /\ UNCHANGED storeVars
  \/ /\ count < length
     /\ count <= 0
     /\ blocks' = <<>>
     /\ starts' = <<>>
     /\ length' = 0
     /\ UNCHANGED stats
  \/ /\ count < length
     /\ \E m \in 1 .. Len(blocks) :
          /\ starts[m] < count
          /\ count <= starts[m] + blocks[m].n
          /\ blocks' = Append(SubSeq(blocks, 1, m - 1),
                              [blocks[m] EXCEPT !.n = count - starts[m]])
          /\ starts' = SubSeq(starts, 1, m)
     /\ length' = count
     /\ UNCHANGED stats

-------------------------------------------------------------------------------
(***************************************************************************)
(* Observations                                                            *)
(***************************************************************************)

\* Mutant: bisect_left, the first of the blocks that share a start.
BlockIndexAtLeft(i) ==
  CHOOSE p \in 1 .. Len(blocks) :
    /\ starts[p] <= i
    /\ \A q \in 1 .. Len(blocks) :
         starts[q] <= i => starts[q] < starts[p] \/ (starts[q] = starts[p] /\ q >= p)

\* block_index_at, for 0 <= i < length: bisect_right(_starts, i) - 1, the last
\* block that does not start after i.  An empty block shares its start with
\* the block after it.
BlockIndexAt(i) ==
  CHOOSE p \in 1 .. Len(blocks) :
    /\ starts[p] <= i
    /\ \A q \in (p + 1) .. Len(blocks) : starts[q] > i

\* __getitem__: the program counter at index i.
ItemAt(i) ==
  LET p == BlockIndexAt(i) IN blocks[p].first + (i - starts[p])

\* __iter__ visits the blocks in order.
IterItem(p, offset) == blocks[p].first + offset

\* Mutant: every seam is a boundary.
BoundariesAll == {starts[p] : p \in {q \in 1 .. Len(blocks) : starts[q] > 0}}

Boundaries ==
  {starts[p] : p \in {q \in 1 .. Len(blocks) : blocks[q].lost > 0 /\ starts[q] > 0}}

Origin == stats.droppedInstructions

-------------------------------------------------------------------------------
(***************************************************************************)
(* Invariants of the store, whoever calls it                               *)
(***************************************************************************)

\* Every variable keeps the type its Python attribute has.
StoreTypeOK ==
  /\ blocks \in Seq(Block)
  /\ starts \in Seq(Nat)
  /\ length \in Nat
  /\ stats \in StoreStats

\* The index table and the length that append_block, _evict and truncate_to
\* each maintain in their own way are the running sums of the block lengths:
\* _rebuild_starts is never missed, so no lookup lands in the wrong block.
StartsMatchBlocks ==
  /\ Len(starts) = Len(blocks)
  /\ blocks = <<>> => length = 0
  /\ blocks # <<>> =>
       /\ starts[1] = 0
       /\ \A i \in 1 .. (Len(blocks) - 1) : starts[i + 1] = starts[i] + blocks[i].n
       /\ length = starts[Len(blocks)] + blocks[Len(blocks)].n

\* Eviction leaves no more than the capacity, except that one window is kept
\* whole however large it is.
CapacityBound == length <= Capacity \/ Len(blocks) = 1
===============================================================================
