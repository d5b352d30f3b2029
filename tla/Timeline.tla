------------------------------ MODULE Timeline ------------------------------
(* The time axis of a capture: windows of program counters with sparse cycle *)
(* stamps, put into time order (strace.py), kept in blocks and asked for the *)
(* cycle of an instruction or the instruction of a cycle (store.py).         *)
(*                                                                           *)
(* An instruction is its window, its place in it and the cycle it really ran *)
(* in; the code sees only the cycles of the stamps. Positions count from 0,  *)
(* as in the code.                                                           *)
EXTENDS Integers, Sequences, SequencesExt, FiniteSetsExt

CONSTANTS
  WindowSize,   \* bound: instructions of a window
  MaxWindows,   \* bound: windows read
  Costs,        \* cycles an instruction may take
  Room,         \* capacity of the store
  NoTime        \* the answer None

ASSUME TimelineAssumption ==
  /\ Costs \subseteq Nat
  /\ {WindowSize, MaxWindows, Room} \subseteq Nat

VARIABLES
  newestFirst,  \* how this DLL orders a window; nothing tells the code
  windows,      \* how many windows have been read
  pending,      \* the stash: windows read and not built into blocks
  timed         \* the blocks of the store, oldest first

timeVars == <<newestFirst, windows, pending, timed>>

Instruction(w, p, c) == [window |-> w, place |-> p, cycle |-> c]

TimeInit ==
  /\ newestFirst \in BOOLEAN
  /\ windows = 0 /\ pending = <<>> /\ timed = <<>>

------------------------------------------------------------------------------
(* Orientation (strace.py). Stamps are records of an index and a cycle.      *)

ByIndex(stamps) ==
  CHOOSE s \in SetToSeqs(stamps) : \A i, j \in DOMAIN s : i < j => s[i].index < s[j].index

\* detect_stamp_order(): newest-first, oldest-first, or the stamps cannot say.
DetectStampOrder(stamps) ==
  LET s == ByIndex(stamps)
      rises == {s[i + 1].cycle > s[i].cycle :
                 i \in {j \in 1..Len(s) - 1 : s[j].cycle # s[j + 1].cycle}}
  IN  IF rises = {TRUE} THEN "oldest"
      ELSE IF rises = {FALSE} THEN "newest" ELSE "unknown"

\* Mutant: the stamps keep the indices they came with.
RemappedNot(index, total) == index

Remapped(index, total) == total - 1 - index

\* chronologise(), with what _build_blocks asks detect_stamp_order for.
Chronologise(window) ==
  LET total == Len(window.pcs)
      newest == DetectStampOrder(window.stamps) # "oldest"
      kept == {s \in window.stamps : s.index < total}
      place(s) == IF newest THEN Remapped(s.index, total) ELSE s.index
      ordered == ByIndex({[index |-> place(s), cycle |-> s.cycle] : s \in kept})
  IN  [pcs |-> IF newest THEN Reverse(window.pcs) ELSE window.pcs,
       stampAt |-> [i \in 1..Len(ordered) |-> ordered[i].index],
       cycles |-> [i \in 1..Len(ordered) |-> ordered[i].cycle],
       decidable |-> window.decidable]

\* The stamps alone, or the order the DLL was measured to use, decide right.
Decidable(stamps, stray) ==
  LET distinct == Cardinality({s.cycle : s \in stamps})
  IN  IF newestFirst THEN stray = {} \/ distinct > 1
      ELSE stray = {} /\ distinct > 1

------------------------------------------------------------------------------
(* Reading and storing.                                                      *)

\* read_ex(): some instructions are stamped; a stray stamp may name a place
\* outside the window. The cycle counter runs on over a halt or starts again.
ReadEx ==
  /\ windows < MaxWindows /\ pending = <<>>
  /\ windows' = windows + 1
  /\ \E n \in 1..WindowSize, from \in {0, 10 * windows} :
     \E costs \in [1..n -> Costs], places \in SUBSET (0..n - 1) :
     \E stray \in {{}, {[index |-> n + 1, cycle |-> from + 5]}} :
       LET cycle[i \in 0..n] == IF i = 0 THEN from ELSE cycle[i - 1] + costs[i]
           run == [i \in 1..n |-> Instruction(windows, i - 1, cycle[i])]
           index(p) == IF newestFirst THEN n - 1 - p ELSE p
           stamps == {[index |-> index(p), cycle |-> cycle[p + 1]] : p \in places}
       IN  pending' = <<[pcs |-> IF newestFirst THEN Reverse(run) ELSE run,
                         stamps |-> stamps \union stray,
                         decidable |-> Decidable(stamps, stray)]>>
  /\ UNCHANGED <<newestFirst, timed>>

\* _rebuild_starts(): where the blocks behind each number of them begin.
Starts(bs) ==
  LET start[i \in 0..Len(bs)] == IF i = 0 THEN 0 ELSE start[i - 1] + Len(bs[i].pcs)
  IN  start
Total(bs) == Starts(bs)[Len(bs)]
StartOf(bs, i) == Starts(bs)[i - 1]

\* _build_blocks() and append_block(): whole blocks leave at the front.
BuildBlocks ==
  /\ pending # <<>>
  /\ pending' = <<>>
  /\ LET all == Append(timed, Chronologise(Head(pending)))
         first == Min({i \in 1..Len(all) :
                        i = Len(all) \/ Total(SubSeq(all, i, Len(all))) <= Room})
     IN  timed' = SubSeq(all, first, Len(all))
  /\ UNCHANGED <<newestFirst, windows>>

\* truncate_to(): the block that is split keeps the stamps still in range.
CutBlock(b, n) ==
  LET limit == Cardinality({i \in 1..Len(b.stampAt) : b.stampAt[i] < n})
  IN  [b EXCEPT !.pcs = SubSeq(@, 1, n), !.cycles = SubSeq(@, 1, limit),
                !.stampAt = SubSeq(@, 1, limit)]

TruncateTimed ==
  /\ pending = <<>>
  /\ \E count \in 1..Total(timed) - 1 :
       LET last == Min({i \in 1..Len(timed) : StartOf(timed, i + 1) >= count})
       IN  timed' = Append(SubSeq(timed, 1, last - 1),
                           CutBlock(timed[last], count - StartOf(timed, last)))
  /\ UNCHANGED <<newestFirst, windows, pending>>

\* The queries below change nothing.
Ask == timed # <<>> /\ UNCHANGED timeVars

TimeNext == ReadEx \/ BuildBlocks \/ TruncateTimed \/ Ask

------------------------------------------------------------------------------
(* Asking for time (store.py).                                               *)

\* int() of a quotient: towards zero.
IntOf(num, den) == IF num >= 0 THEN num \div den ELSE -((-num) \div den)

\* TraceBlock.estimate_cycle(offset)
BlockCycle(b, offset) ==
  LET stamps == Len(b.stampAt)
      position == Cardinality({i \in 1..stamps : b.stampAt[i] < offset})
      low == Min({Max({position - 1, 0}), stamps - 2}) + 1
      i0 == b.stampAt[low]
      i1 == b.stampAt[low + 1]
      c0 == b.cycles[low]
      c1 == b.cycles[low + 1]
  IN  IF position < stamps /\ b.stampAt[position + 1] = offset
      THEN [cycle |-> b.cycles[position + 1], exact |-> TRUE, span |-> 0,
            extrapolated |-> FALSE]
      ELSE IF stamps < 2 THEN NoTime
      ELSE [cycle |-> IntOf(c0 * (i1 - i0) + (c1 - c0) * (offset - i0), i1 - i0),
            exact |-> FALSE, span |-> i1 - i0,
            extrapolated |-> ~(i0 <= offset /\ offset <= i1)]

BlockOf(index) == Max({i \in 1..Len(timed) : StartOf(timed, i) <= index})

\* Mutant: the index in the store is taken for the index in the block.
OffsetInStore(b, index) == index

OffsetIn(b, index) == index - StartOf(timed, b)

EstimateCycle(index) ==
  LET b == BlockOf(index) IN BlockCycle(timed[b], OffsetIn(b, index))

\* The only block whose stamps span the cycle, if there is only one.
BlockOfCycle(cycle) ==
  LET spans == {i \in 1..Len(timed) :
                  /\ timed[i].cycles # <<>>
                  /\ timed[i].cycles[1] <= cycle
                  /\ cycle <= timed[i].cycles[Len(timed[i].cycles)]}
  IN  IF Cardinality(spans) = 1 THEN CHOOSE i \in spans : TRUE ELSE NoTime

\* estimate_index(cycle, block), as a fraction.
EstimateIndex(cycle, block) ==
  LET b == timed[block]
      position == Cardinality({i \in 1..Len(b.cycles) : b.cycles[i] <= cycle}) - 1
      low == Min({Max({position, 0}), Len(b.cycles) - 2}) + 1
      i0 == b.stampAt[low] + StartOf(timed, block)
      i1 == b.stampAt[low + 1] + StartOf(timed, block)
      c0 == b.cycles[low]
      c1 == b.cycles[low + 1]
  IN  IF Len(b.cycles) < 2 THEN NoTime
      ELSE IF c1 = c0 THEN [num |-> i0, den |-> 1]
      ELSE [num |-> i0 * (c1 - c0) + (i1 - i0) * (cycle - c0), den |-> c1 - c0]

------------------------------------------------------------------------------
AllDecidable == \A i \in 1..Len(timed) : timed[i].decidable
Items == FlattenSeq([i \in 1..Len(timed) |-> timed[i].pcs])

(* Whichever way round the DLL hands out its windows, instructions are kept  *)
(* in the order they ran in, and every stamp stays with the instruction it   *)
(* was taken for, through reversal, stray stamps, eviction and a cut         *)
(* (strace.py:157, store.py:326).                                            *)
StampsStayWithInstructions ==
  AllDecidable =>
    /\ \A i \in 1..Len(Items) - 1 :
         \/ Items[i].window < Items[i + 1].window
         \/ /\ Items[i].window = Items[i + 1].window
            /\ Items[i].place + 1 = Items[i + 1].place
    /\ \A b \in 1..Len(timed) : \A s \in 1..Len(timed[b].stampAt) :
         /\ timed[b].stampAt[s] < Len(timed[b].pcs)
         /\ timed[b].pcs[timed[b].stampAt[s] + 1].cycle = timed[b].cycles[s]

(* What the store says of time is honest: an exact cycle is the cycle the    *)
(* instruction ran in, an interpolated one lies between two stamps of its    *)
(* own window around it, and asking back for the instruction of that cycle   *)
(* leads to no later one and not before the first of the two stamps          *)
(* (store.py:129, store.py:400).                                             *)
TimeHonest ==
  AllDecidable =>
    \A i \in 1..Len(Items) :
      LET e == EstimateCycle(i - 1)
          same(j) == Items[j].window = Items[i].window
      IN  e # NoTime =>
            /\ e.exact => e.cycle = Items[i].cycle
            /\ ~e.exact /\ ~e.extrapolated =>
                 \E j \in 1..i - 1, k \in i + 1..Len(Items) :
                   /\ same(j) /\ same(k) /\ k - j = e.span
                   /\ Items[j].cycle <= e.cycle /\ e.cycle <= Items[k].cycle
                   /\ Items[j].cycle < Items[k].cycle =>
                        LET x == EstimateIndex(e.cycle, BlockOf(i - 1))
                        IN  (j - 1) * x.den <= x.num /\ x.num <= (i - 1) * x.den
            /\ BlockOfCycle(e.cycle) # NoTime /\ ~e.extrapolated =>
                 BlockOfCycle(e.cycle) = BlockOf(i - 1)
==============================================================================
