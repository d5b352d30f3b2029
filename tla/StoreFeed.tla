------------------------------- MODULE StoreFeed -------------------------------
(***************************************************************************)
(* A TraceStore under any caller: windows of any length are appended with  *)
(* any loss before them, idle polls are noted and the store is cut at any  *)
(* moment.  The caller is honest: a window starts where the previous one   *)
(* ended plus what was lost in between.                                    *)
(***************************************************************************)
EXTENDS TraceStore

CONSTANTS
  MaxWindow,    \* bound: the longest window appended
  MaxLost,      \* bound: the most instructions lost before a window
  MaxFed,       \* bound: no instruction has a serial above this
  MaxPolls      \* bound: polls in one behaviour

ASSUME FeedAssumption == {MaxWindow, MaxLost, MaxFed, MaxPolls} \subseteq Nat

\* History of the caller's side.
VARIABLES
  fed,          \* instructions the core has retired up to the last window
  cut           \* truncate_to has taken something off the end

feedVars == <<storeVars, fed, cut>>

FeedInit == StoreInit /\ fed = 0 /\ cut = FALSE

Feed(n, lost) ==
  /\ stats.polls < MaxPolls
  /\ fed + lost + n <= MaxFed
  /\ AppendBlock([first |-> fed + lost, n |-> n, lost |-> lost,
                  halt |-> stats.polls + 1, at |-> stats.totalRead])
  /\ fed' = fed + lost + n
  /\ UNCHANGED cut

Idle ==
  /\ stats.polls < MaxPolls
  /\ NoteIdlePoll
  /\ UNCHANGED <<fed, cut>>

Cut(count) ==
  /\ TruncateTo(count)
  /\ cut' = (cut \/ blocks' # blocks)
  /\ UNCHANGED fed

FeedNext ==
  \/ \E n \in 0 .. MaxWindow, lost \in 0 .. MaxLost : Feed(n, lost)
  \/ Idle
  \/ \E count \in -1 .. MaxFed : Cut(count)

FeedSpec == FeedInit /\ [][FeedNext]_feedVars

-------------------------------------------------------------------------------
(***************************************************************************)
(* Properties                                                              *)
(***************************************************************************)

\* StoreTypeOK, and the history variables.
FeedTypeOK == StoreTypeOK /\ fed \in Nat /\ cut \in BOOLEAN

\* The lifetime counters survive eviction and truncation: whatever scrolled
\* out of the store, every instruction the core retired is counted exactly
\* once, as read or as lost (StoreStats docstring, store.py:167-173).
LossRemembered == fed = stats.totalRead + stats.lost

\* Loss that is still visible in the retained stream can always be explained
\* by the counters, so is_continuous is never claimed for a stream with a
\* boundary in it, and a slice is stitched, a gap or idle, never two of them.
ContinuousIsHonest ==
  /\ stats.gaps = 0 => stats.lost = 0 /\ Boundaries = {}
  /\ stats.stitched + stats.gaps <= stats.polls

\* boundaries() is exact while nothing was cut: it names each index where the
\* next program counter is not the one that executed next, and no other.  (A
\* boundary may equal the length: loss after the last retained instruction.)
BoundariesExact ==
  ~cut =>
    {b \in Boundaries : b < length}
      = {i \in 1 .. (length - 1) : ItemAt(i) # ItemAt(i - 1) + 1}

\* Random access agrees with iteration, empty blocks or not: the item that
\* __iter__ yields for an offset of a block is the one __getitem__ finds at
\* the block's start plus that offset.
IndexingMatchesIteration ==
  \A p \in 1 .. Len(blocks) : \A offset \in 0 .. (blocks[p].n - 1) :
    ItemAt(starts[p] + offset) = IterItem(p, offset)

\* Seen as a flat sequence, the store is a bounded tail.
Flat == INSTANCE BoundedTail WITH
  kept <- [i \in 1 .. length |-> ItemAt(i - 1)],
  forgotten <- Origin

ImplementsBoundedTail == Flat!TailSpec
===============================================================================
