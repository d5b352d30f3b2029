# pytrace in TLA+

pytrace (`jtrace/`) drives a SEGGER J-Trace probe from Python: it opens the
probe, runs and halts the target, reads windows of instruction trace, keeps them
in a bounded store, and turns the stream into call frames, rows, coverage and
files. This directory holds TLA+ models of the parts whose behaviour over time is
hard to test, the TLC configurations that check them, and proofs, checked by
TLAPS, of the results that matter most.

`PROJECT.json` is the index: components, runs, the definition-to-source map, the
findings, the hazards and the theorems.

## The system

| Part | State | Operations | Talks to |
|---|---|---|---|
| `JLink` (`link.py`) | `_opened`, the class-wide `_open_instance`, the DLL behind it | open, connect, close, reset, halt, go, halted, memory, registers, breakpoints | DLL and probe; every other probe class holds one |
| `Strace` (`strace.py`) | none between calls; inside `read_extended`: the slice counter, `appended`, the stash of windows, two samples of the executed count | `start`, `stop`, `read`, `total_executed`, `read_extended` | halts and starts the core through `JLink`, appends to a `TraceStore` |
| `TraceStore` (`store.py`) | `_blocks`, `_starts`, `_length`, `_stats`, the cycle-rate estimate | `append_block`, `note_idle_poll`, `truncate_to`, indexing, `boundaries`, `origin`, stamps, `save`, `load` | filled by `Strace` and `run_capture`, read by everything after the capture |
| `run_capture` (`capture.py`) | local: the open handle, whether tracing has started, what was read, `executed` | one pass from opening the probe to the summary | `JLink`, `Strace`, `TraceStore`, then frames, rows, coverage, artifacts |
| Call frames (`frames.py`) | the stack of open frames, the closed ones | `build_call_frames`, one pass over the stream | the stream and its `boundaries`, `Symbolizer` |
| Line table (`dwarf.py`) | the registers of the line-number program, the rows, sorted once | parse a section, `resolve`, `span` | the ELF file; asked by the symbolizer |
| Symbolizer (`symbols.py`, `elf.py`) | two direct-mapped caches of spans over tables that do not change | `resolve_span`, `resolve_source`, the generator `runs` | rows, frames and coverage share one |
| Rows and coverage (`rows.py`, `coverage.py`, `thumb.py`) | accumulators per function and line | build rows, totals, lazy rows | store, symbolizer, code memory |
| Artifacts (`artifacts.py`) | files of a session or report | write a session or report, list, read back | the file system, a viewer that reads at any time |
| Streams (`swo.py`, `rtt.py`, `hss.py`, `powertrace.py`, `tracebuf.py`) | whether started, the layout started last; the DLL's buffer | start, stop, flush, read, stream until a deadline | `JLink` |
| Chronology (`strace.py`, `store.py`) | cycle stamps beside each window | detect the order of a window, remap it, interpolate | the store |
| Loader, structures, CoreSight, CLI | none over time | search, layouts, single calls, arguments | everything |

### Where it is hard

The Python side has one thread. What runs beside it is the core, which retires
instructions whenever it is not halted; the probe, whose buffer forgets all but
the newest instructions, and forgets what was left behind by a read; the clock,
which passes a deadline; and the user, who interrupts. So the hard behaviours
are:

- **Holes.** The host samples a counter, lets the core run, halts it, and
  concludes from a second sample and the length of the window how much is
  missing in between. A hole that is hidden makes every later inference wrong,
  and so does one that is invented.
- **Deferral.** Windows are stashed and turned into blocks later, inside the
  loop or after it, so that the time between two slices stays short. Halt
  reasons must be read early, the order kept, and the store's bound must hold
  though the stash lies outside the store.
- **Bounds.** Eviction by whole blocks, from the front, with lifetime counters
  that must not forget what was evicted; a cut from the end; an index table
  maintained beside the blocks in three places.
- **Failure.** Any of the probe calls may fail or be interrupted, and a probe
  left open "wedges every later connection".
- **Inference.** Call frames are reconstructed from a stream that begins and
  ends in the middle of calls, has holes, and whose calls and returns are told
  apart by one address comparison.
- **Shared handles.** The DLL holds one probe whatever handle is used; a handle
  can be closed twice, dropped, or used after it was closed, and `halted()`
  blocks nest.
- **Files without locks.** A viewer lists and reads what other processes are
  writing or have left behind; the order of the writes is all that protects it.
- **Caches and generators.** One symbolizer answers everyone through the same
  slots, while a generator of runs is suspended between two of its items.
- **Copy, then acknowledge.** Readers of an open probe copy and then flush, in
  two calls, while more arrives.

`PROJECT.json` lists each hazard at its line with the properties that would
catch it.

## Modules

```
BoundedTail  <--refines--  StoreFeed  <--EXTENDS--  Snapshot
                              |  EXTENDS
                          TraceStore  <--EXTENDS--  ReadExtended  <--EXTENDS--  Capture

CallFrames  <--EXTENDS--  CalledProgram

LineProgram        Symbolizer  <--EXTENDS--  Coverage        Sessions

Link  <--EXTENDS--  Streams  <--EXTENDS--  Probe  --EXTENDS-->  Timeline

TraceStoreProofs  <--EXTENDS--  StoreFeedProofs (of Snapshot too), CaptureProofs
CallFramesProofs (of CalledProgram)   LineProgramProofs   CoverageProofs
SessionsProofs    ProbeProofs (of Link, Streams and Timeline too)
```

Each `...Proofs` module holds the theorems of the module it is named after and of
those that one extends.

**TraceStore** has the variables of a `TraceStore` and its operations as
actions without a caller. A program counter is represented by the serial number
of the retired instruction it was sampled from, and a block's `pcs` by its first
serial and its length: a window is always an unbroken run of the core, and the
store never looks at the values. With serials a hole, an overlap or a reordering
is visible. `append_block` is one action, eviction and `_rebuild_starts`
included; `truncate_to` has its three branches as disjuncts. The bisection of
`block_index_at` is a `CHOOSE` that says which block it finds.

**StoreFeed** puts any honest caller around the store: windows of any length,
any loss, idle polls, cuts at any moment. **BoundedTail** is what the store
promises a caller who only sees a sequence: it keeps the newest part, forgets
from the oldest end only, only when it must, and counts what it forgot. Blocks do
not occur in it. `StoreFeed!ImplementsBoundedTail` is the refinement, with the
kept sequence defined through `__getitem__`.

**ReadExtended** is `Strace.read_extended` with the core and the probe beside
it. The program point is `pc`: loop head, go, halt, drain, progress, flush,
final build, done, raised; each action is the code from one point where another
actor can matter to the next. `Retire` is the core, `Expire` the clock. The core
and the probe's buffer are external and modelled from how the code uses them: a
read returns the newest `Clamp` of what was retired since the last read, and the
executed count is taken modulo `CounterModulus`, four bytes in the code. `haltAt`
and `drained` are history. The tuner that picks the length of the next slice is
not modelled, since the core may retire any number of instructions in a slice.
`CallAgain` and `Resume` are a caller that passes the same store twice and lets
the core run in between.

**Capture** is `run_capture` around it: `JLink.__init__` with its own failure
path, the body of the `with` statement, the `finally` clause, `__exit__`. `stage`
is the program point. Every step has a failing disjunct, except `go()`, which
reports no failure, and one that is a KeyboardInterrupt, which `except Exception`
does not catch: it is raised once the call into the DLL that is under way has
returned, so inside the constructor and `close()` it comes between any two of the
things they do (`OpenInterrupted`, `ConnectInterrupted`, `CloseInterrupted`), and in
`start()` and `stop()` before or after the DLL has done what it was asked
(`TraceInterrupted`). Of the DLL it is assumed that a close or a stop that returns,
or whose exception they swallow, has had its effect. Short captures take the
single read, long ones embed `ReadExtended`.

**CallFrames** is `build_call_frames`, one action per branch of its loop. The
stream is not fixed beforehand: each step observes one more instruction, so a
behaviour is a run of the function on the stream it has observed so far, and an
invariant speaks of every stream of that length. An instruction is the function
it resolves to and whether it is at that function's entry, which is all the loop
looks at.

**CalledProgram** drives it from a program that really calls and returns, whose
instructions the probe may lose, and compares what is inferred with the calls
that are open. The program is external. It makes no tail call and no jump back to
an entry; `NestsOnce` excludes recursion. It may also be a program of which
nothing is known (`calls = <<>>`): then any instruction follows any other, which
is the arbitrary stream of `FramesSpec`.

**Snapshot** is `save`, `describe` and `load` around `StoreFeed`. The saving process
may die after the header or after any number of members; a file is replayed block
by block into a second instance of `TraceStore` (`Loaded`), through the same
`append_block` as the capture. `describe` answers from the header alone.

**LineProgram** is `parse_line_table` and `LineTable`. The section is read one
opcode per step, any opcode and any operand, units that end early or are
malformed included, so an invariant speaks of every section of that length.
`sequence`, `base` and `walked` are history: which sequence a row belongs to,
and how many operations were advanced since the address was last set. A lookup is
`Resolve`, `Span` the range the caches above it rely on.

**Symbolizer** has the function index of `elf.py` and the two span caches, and
`runs()` as a generator: `Ask` is anyone who asks the same object between two of
its items and replaces a slot. **Coverage** adds `build_coverage_rows`, one
halfword a step, through those caches, with the instruction boundaries of `thumb.py`,
totals and the run-count lookup. The line table appears as the sorted rows it
keeps; what it owes to the section is LineProgram's business.

**Sessions** is `artifacts.py`: writers that open and fill the files of a session
in the code's order and may die anywhere, reports, and a viewer whose listing
visits one directory a step and whose read looks at the sidecar and then at the
payload. A file is absent, torn, or whole and of one write (`generation`). An id
may be given twice, as the callers may do. A reader of the store that stats
`index.json`, `events.ndjson` and `raw/stream.bin` is not in the package: what such a
reader finds is a conjunct of `ListedReadsWhole`.

**Link** is `link.py`: several `JLink` objects in one process, of which at most
one should hold the probe. A constructor, `connect()` and `close()` can raise or be
interrupted between the calls and assignments they make (`cut` remembers an opening
or closing that was cut short between the DLL and `_open_instance`); a handle may be
closed by its `with` block, by `close_open_link()`, or both; the core may stop at a breakpoint between the
look and the halt of `halted()`; `wait_for_halt()` polls until its deadline. `nest` is the
`was_running` of each block entered. The register cache keeps the device it was
read for (`listed`).

**Streams** has the readers of an open probe: SWO with its ITM decoder, RTT and its
wait for the control block, power trace, high-speed sampling and the walk over
the TRACE buffer. Bytes and samples are indices of what the target sent, so that a loss,
a repetition or a swap is visible; the packets are real bytes, since the decoder
tells them apart by bits. They are the bytes of a plain ITM stream: the comment on
`Swo.read()` says that what it returns is still in the TPIU's frames, `decode_itm`
takes a stream without them, and nothing in the package takes them off. A read is up
to three calls and more arrives between them. Samples reach the DLL in pieces of
any size, so a read of `Hss` may end in the middle of one; it drops the piece,
and the next one begins inside that sample (`hss.from`). `Rtt.stream()` may be given no
deadline, and the script may leave a `stream()` at any time. **Timeline** is the time axis: windows that come newest or oldest
first with some stamps, `detect_stamp_order`, `chronologise`, the blocks, the cut,
and the interpolation in both directions. **Probe** composes the three; they
share the library and no state, so a behaviour is about one of them.

## Runs

Each run's `.cfg` names its bounds. Bounds that exist only for checking are the
constants commented `bound:`.

| Run | Shows |
|---|---|
| `store_snapshot` | A store under any mix of appends, losses, idle polls and cuts: index table, bound, counters, boundaries, indexing, and that it refines `BoundedTail`; saved at any moment and written whole it is read back as it was, and a compressed file whose writer died is refused. |
| `capture_session` | A whole capture, every step failing or interrupted at will: holes are exactly those declared, each window has its own halt, the result is the oldest part of what was read, a result not marked truncated is the whole run; after any failure, and any interrupt outside the constructor and `close()`, the probe is closed and its handle gone, and tracing is stopped unless the interrupt came in `start()`, before the `try`, or in `stop()`. |
| `capture_tail` | Two calls on one store smaller than a window, the core running in between, a counter that wraps every four instructions or does not answer, steps that raise: each call stays within the bound, ends with the newest instruction and terminates, and no window is duplicated or reordered. |
| `called_program` | On every stream: frames nest, none spans a hole, levels are bounded. On a program's stream: the open frames are the open calls, and each frame with both ends in sight is a call that was made and returned there. |
| `line_programs` | Every section of two units and five opcodes: exact addresses, lookups that say what the programs say and nothing in the gaps, spans that are constant. |
| `coverage` | Whatever was asked before, the caches hold the truth, runs are exact, and the coverage rows are a plain count over the image. |
| `sessions` | Two writers that die at will, a viewer that lists and reads between any two writes. Under ids that are written once: of a listed session `read_trace_session` gets sidecar and instructions whole, and the other files are there once its writing has returned; what was written before a listing is on it. |
| `probe` | Handles, run control, readers and the time axis beside a capture: who holds the probe, whose registers are named, that bodies of `halted()` run halted; each byte once, a plain ITM stream decoded to its packets, and samples as taken in each read that begins with one; stamps that stay with their instructions; waits, and streams with a duration, end. |
| `capture_wrap` | Violation: `SeamsAccounted` with a counter that wraps inside a slice. |
| `capture_covered` | Violation: "it cannot fire when capacity covers the target". |
| `capture_interrupted` | Violation: "every failure path closes it"; the interrupt comes when `JLINKARM_OpenEx` has just returned. |
| `called_deeply` | Violation: "the stream keeps running in the deepest frame". |

No run disables the deadlock check: what ends, stutters explicitly (`Ended`,
`Over`, `Done`), and the other modules always have a next call.

### Why the bounds are enough

- `store_snapshot`: a capacity of 3 with windows of up to 4 gives a window larger
  than the store, one that fills it exactly and one that forces the eviction of
  several blocks; empty windows give blocks that share a start; four polls allow
  an eviction, a cut and another append; the writer dies after every prefix of
  the file, with and without compression.
- `capture_session`: a clamp of 3 and a target of 5 need two or more slices and
  allow an overshoot; 12 retired instructions let a slice lose some before a full
  window; `items` ranges over "do not read", every short length, and the target. The
  store is 8 = target + clamp, the capacity `run_capture` passes.
- `capture_tail`: capacity 2, less than a window, is the smallest store whose
  bound has a window alone as its exception; a modulus of 4 wraps within a slice
  and between two; seven instructions fill it twice over two calls.
- `called_program`: three functions, three open calls and five instructions
  reach a return over two frames, a return into a caller from before the capture,
  a hole with calls and returns in it, and the full depth. Levels reach the
  floor of -2. Functions are symmetric: no property tells them apart.
- `line_programs`: `MCLineProgram` has a header with two operations in an
  instruction, and one of the other DWARF version with a `line_range` of 0; two units
  give sequences that touch, overlap or leave a gap.
- `coverage`: `MCCoverage` has tables with overlapping, empty and odd functions,
  shared entries, rows that share an address, a line, or a line number in two
  files, and code with 32-bit instructions, one cut off. Two slots of four
  bytes over twelve collide; three program counters give runs of one, two and
  three.
- `sessions`: two sessions, two reports, two writers and two writes: both files
  of one write beside those of another, the same id twice, debris beside a good
  session. The theorems remove these bounds.
- `probe`: two handles and two devices give the second close and the second
  list; two nested `halted()` blocks; a byte buffer of 4 fills up with two packets;
  `MCProbe` has a packet of every form, with payloads that look like headers, and
  layouts of one block or two, stamped or not; two sampling objects; two samples, in
  any pieces, give a read that ends inside a sample and one that begins there; four
  samples of the TRACE buffer, which has room for three; windows of
  three stamped at will, steps of 0 and 3 cycles give equal stamps and gaps to
  interpolate in.

The theorems remove these bounds for the properties they state.

### Fairness

`capture_tail` uses `ReadFairSpec`: weak fairness of `Host`, because the Python
loop is never blocked for good, its sleeps and probe calls return; and of
`Expire`, because the clock goes on. Nothing is assumed of the core: a core that
retires nothing does not keep the loop alive, since both the slice limit and the
deadline end it.

`probe` uses `ProbeFairness`: a deadline that is set passes (`WaitDeadline`,
`DeadlinePasses`), a loop that has reached its end leaves, and a flush that
follows a copy is made. `WaitPolls` and the reads of a stream are not enough to
end a loop, and nothing is assumed of the core or of the target's data. A
`stream()` is a generator, and its loop goes on only when the script takes the
next item: that it does is assumed of the script, unless it leaves the loop.
`CallsReturn` is about calls with a deadline, so not about `Rtt.stream()` as called
by default, which has none and never ends by itself.

## What is proved

TLAPS checks these for every value of the constants allowed by the named
assumptions `CapacityAssumption`, `FeedAssumption`, `ReadAssumption`,
`FramesAssumption`, `SessionsAssumption`, `LinkAssumption`, `StreamsAssumption`,
`PacketsAssumption`, `BlocksAssumption`, `TimelineAssumption`, `LineAssumption`,
`SymbolizerAssumption` and `CoverageAssumption`. They give the constants their types, a capacity, clamp,
counter modulus, number of calls and depth of at least one, keep the directories
of sessions and reports apart, and `None` apart from handles and devices; a byte of
a unit header is one. `PacketsAssumption` has the forms of ITM packets by the
protocol, not by the decoder: a header that names a port or a DWT source and how many
bytes follow, a run of zeros ended by 128, or bytes chained by their continuation
bits. `BlocksAssumption` leaves out blocks that are all empty: `start` does not
refuse them, and without stamps `read` would divide by their size, zero.
`CoverageAssumption` says what a list of sections is: each is
Thumb code, so it starts at an even address, and ends within the address space; it
has at most one count for each halfword, since `instruction_counts` is asked for
half its bytes; and no two of one image overlap, which an image linked with
overlays does not promise. Where a theorem speaks of some values of the constants
only, its statement has the premise: `Exact` (a counter that always answers and does not wrap),
`Covers` (a store with room for the target and one window), `MaxCalls = 1`,
`NestsOnce` (no recursion), `MaxCalls <= MaxDepth` (no call beyond the depth cap).

**Store.** `StoreInv` (`TraceStoreProofs`) is the types, `StartsMatchBlocks`,
`CapacityBound` and `StartsAscend`: of any two entries of the index table, the
later is the larger by at least the earlier block's length. The last one is what
makes it inductive, since eviction and the cut compare blocks that are not
neighbours. It is shown to survive each operation once, without a caller, and
the lemmas are cited by both callers. `AppendWindows` and `CutWindows` say what
the operations do to the windows themselves. `StoreFeedProofs` adds the caller:
`FeedSafety`, `IndexTableCorrect`, `StoreBounded`, and `NothingForgotten`, that
every retired instruction is counted exactly once, as read or lost, whatever
was evicted or cut.

`StoreIsBoundedTail` shows that the store implements `BoundedTail`. It rests on
`Covered`, that some window holds every index, from which the bisection can be
evaluated (`ItemIs`), and on what the operations do item by item (`AppendItems`,
`CutItems`): an append is a `Put`, a cut a `Cut`, all else stutters.
`IndexingIsIteration` follows from the same lemma. `BoundariesAreExact` needs
`Serial`: of any two windows, the later one starts at least its own loss behind
the earlier, and exactly behind it when nothing was lost or read in between. Said of all
pairs, it survives an append and the loss of any prefix, the two things that
happen to a store that is not cut. `ContinuityIsHonest` carries that a window
with a loss before it is a counted gap.

**Snapshots.** `LoadInv` (`StoreFeedProofs`) says of a load in progress that the
second store is the front of the one that was saved, with the same index table: it
fits, so nothing is evicted a second time. `describe` adds up the lengths in the
header, a recursive function; `OffsetsAreStarts` compares the sums with the index
table by a least block at which the two differ. `SnapshotsLoadHonestly` says that
a file written whole loads to the store that was saved, as its header announces, and
that a compressed one whose writer died anywhere is refused. Nothing is claimed of an
uncompressed file that is cut off, which `load` takes for a shorter capture;
`SnapshotFeeds` and `SnapshotKeepsTheStore`, that saving disturbs nothing, so that
what is proved of the caller holds while it saves.

**Slice loop.** `ReadInv` (`CaptureProofs`) adds to `StoreInv`:

- `OrderInv`: any two windows, not only neighbours, lie in order, and all of them
  below `retired - fresh`, what a read can still reach. Carried for all pairs, it needs no argument about
  which windows become neighbours when blocks are evicted, the stash is built or
  an exception drops it.
- `StashInv`: no window is longer than the clamp, and those of the stash were
  read one after the other up to `drained`. From this the size of the stash can
  be computed from its first window, and building it lowers it by what the store gains.
- `RoomInv`: the bound, and the points of the loop at which a whole window is
  free under it.

`WindowsInOrder` and `HeldWithinBound` follow for any number of calls, with a
counter that wraps or fails to answer and with steps that raise.

The rest is about one call (`MaxCalls = 1`). `PosInv` says where the core is at
each statement: between a read and the next go it stands where the last halt
left it, and nothing is unread. The windows of the store and those of the stash
are taken as one sequence, `Windows`, of which `WindowSteps` says that a step
appends one at the end, drops some from the front, or drops and shortens some at the end.

- `WindowInv`: every window was retired between two halts, and the last ends
  with the last instruction read. `HaltReasonsBelong` and `TailIsTheNewest`
  follow.
- `SampleInv` and `SeamInv`: the count sampled before go is that of the last
  read, so neighbours join. They need `Exact`, a counter that always answers and
  does not wrap, and give `SeamsAreAccounted`. The run `capture_wrap` violates
  the property without it.
- `WholeInv`: with room for the target and one window, store and stash hold
  all that was read, so that the bound the flush compares with is never reached
  and no append evicts. `CaptureIsWhole` follows.

**Capture.** `ReleaseInv` (`CaptureProofs`) says at which stages tracing is off
and after which halt the core stays halted, whether or not an exception is on
its way out, and, of `probeOpen`, `opened` and `registered`, what an interrupt of the
opening or the closing leaves of them; `CaptureReleasesProbe` follows for every target,
clamp, store and number of slices, each step failing or interrupted. Its premises
name the stages in which an interrupt leaves something behind. `CapturedHaltReasonsBelong`,
`CapturedSeamsAreAccounted` and `CapturedIsWhole` carry the results about one call
over to the capture around it: each step of a capture is one of the loop, or lets
the core run or stand before and after it, or is the single read of a short
capture (`ReaderStep`); `StageInv` says which of these a stage allows. `CapturedIsComplete` is the claim of `truncated`. `MissingInv`
says that a window never declares more lost than is missing before it, and that
what is missing before any window is still missing now; `CountInv`, that the count
run_capture has read is what was retired. A result as long as that count lacks
nothing, so no window in it declares a loss.

**Call frames.** `FramesInv` (`CallFramesProofs`) orders the stack: the frames on
it start in ascending order, the one at depth p has a level below p, and each
closed frame lies wholly before or wholly after the start of each open one. Every
action is shown once to be an instance of `Steps(k, o)` — keep the lowest k
frames, close the others, open at most one — and only `Steps` is shown to
preserve the invariant. From it `FramesNested`, `HolesRespected`,
`LevelsStayBounded` and `FramesTypeCorrect` follow for streams of any length, any
set of functions, any depth and any floor. `ProgramIsAStream` shows that a real
program's stream is one of those. `ReconstructionIsExact` compares the two:
`CallsInv` says that without recursion no function is open twice, `TrackInv` that
the stack shows the innermost open calls, as many as it has frames, and that what
lies further out was entered before the stream was last picked up. A function found
on the stack is then the caller that was returned to, for it can be no other call.

**Line programs.** `LineInv` (`LineProgramProofs`) has two parts. `ProgramInv` ties
the address and operation index to all operations walked since the address was
last set; that a sum of advances is the advance of the sum (`AdvancesAdd`) is a
fact about quotients, shown for any number of operations in an instruction, and
gives `AddressesAreExact`. `RowsInv` says of the rows that sequences follow
each other and that the end of one is its last row. The order of a stable sort is total, so that
`Position`, a `CHOOSE`, is the one row behind all others (`LastExists`,
`PositionUnique`); that addresses that do not descend from a row to the next do
not descend from any row to any later one (`SequenceAscends`) is argued by a least
row that does. `TableMatchesPrograms`, `TableKeepsGaps` and `SpansAreConstant`
follow for sections of any length, malformed units included.

**Symbolizer.** `CoverageInv` (`CoverageProofs`) is about the caches, the run
generator and the report at once, since they share the slots. `CacheInv` says of
each slot that what it answers is true of every address in its span, and a miss is
shown to put nothing else there: from one entry to the next the index finds the same
function, and the line table the same row. `RunsInv` says of the runs yielded and the
one in hand that they divide the stream so far, and that the span in hand holds all
that follows of the run, whatever a slot now holds. `CachesTellTheTruth` and
`RunsDivideTheStream` follow for any tables, any slots and any queries in between.

**Coverage rows.** `RowsInv` (`CoverageProofs`) says that the accumulators are the
rows of the instructions met so far, which are those of the sections before and, of
this one, those below the halfword the walk is at (`Met`). A halfword either begins no
instruction and leaves `Met` alone, or begins one whose address no other has, since
sections lie apart; `RowsGrow` says what one new instruction adds to every row. Two
points need care. A sum over a set is a fold that takes the elements in an order
nobody knows; `FoldsAgree` shows that any function of the subsets from which each
element takes its own part gives the same, by a subset with fewest elements at which
they differ. And `Begins` is a recursive function of which the proof only needs the
domain: that 32-bit instructions are not counted twice is then a matter of walking each
halfword once. `RowsCountTheImage` follows for any tables, sections and counts.

**Sessions.** `DiskInv` (`SessionsProofs`) puts each write of an id that is
begun once at one of four stages, told by the files it has still to write: all of
them, all but the instructions, a report still to come, or only files no
viewer reads here. `PayloadFirst` is what the order of the files buys: a sidecar
that is there, torn or whole, has the whole payload of its own write beside it.
`ViewerInv` says that what the viewer has seen stays true. A writer's step is
shown to leave the disk in order and to be `Kept`: a listed file that is whole
stays as it is; every `Kept` step preserves the viewer's view, whatever it is
doing. `ReturnedWhole` says that the files of a writing that has returned are all
whole, by how many of them are still to come (`Reached`). `ListedSessionsReadWhole`
and `ListsAreComplete` follow for any number of directories, writers and writes,
of ids that are begun once.

**Handles.** `HandlesInv` and `CoreInv` (`ProbeProofs`) tie the class-wide
`_open_instance`, the `_opened` of every handle, the DLL and the call in
progress together, and say of every block of a nest of `halted()` what its
`was_running` promises to the blocks around it. An opening or closing that was
interrupted is an exception of the invariant for as long as `cut` says so: until
the next one that runs to its end. `OneHandleHoldsTheProbe`,
`RegistersAreOfTheDevice` and `HaltedBodiesRunHalted` follow for any number of
handles, devices, breakpoints and nested blocks. `ProbeRunsLink` (`ProbeProofs`)
shows that the composition the run checks is, for the handles, a behaviour of
`Link`, so that the three hold of it as well (`ProbeHandlesSafe`).

**Streams.** `ByteInv` (`ProbeProofs`) says that what was taken, what the DLL holds
and what was lost are, in this order, all that has arrived (`Accounted`); a copy, a
flush and an arrival are lemmas about any three such sequences, and between a copy
and its flush only the end of the buffer may change. `BytesReadOnce` follows for
buffers of any size. `WalkInv` says that a walk over the TRACE buffer has read as
much as it has advanced, and gives `WalkReturnsAPrefix`.

`SamplesInv` is about one object that starts the sampling and is the only one to
read: it decodes by the layout the samples have, and what the DLL holds is the rest
of a sample whose beginning was taken, whole samples, and a piece of the one to
come (`Holds`). A read that begins with a sample therefore returns samples in the
order they were taken in, and `SamplesTakenWhole` follows for layouts of any number of blocks of any sizes,
stamped or not (`SampleLies`: each block lies in a sample where `BytesBefore` says).

`PacketsReadWhole` is about the decoder. What it makes of the bytes from some
place on depends on nothing before that place (`ReadFromTheStart`), and at the start
of a packet it takes the whole of it, or waits if it is not all there
(`DecodesWhole`), whatever its payload looks like. What has been read is the
beginning of what was sent, as long as nothing was lost, by `ByteInv`.

**Time axis.** `TimeInv` (`ProbeProofs`) says that every block holds instructions of
one window, later blocks those of later windows, its stamps at places that ascend;
and where the order of the window can be told, the instructions from its first on,
each stamp beside the one it was taken of. A window comes with any order, any stamps and a
stray one behind its end: `detect_stamp_order` is shown to find the order out when
two stamps in the window differ, and the reversal to take each stamp along.
`StampsStayPut` follows by way of where each block starts in the joined sequence, and
`TimeToldHonestly` by arithmetic on the two stamps around an instruction, for
windows and stores of any size.

Each proof has the same shape: initial states satisfy the invariant, one step
per action preserves it, the invariant implies the property.

## What is only model-checked

`Terminates` and `CallsReturn`, because liveness is out of the prover's reach. Every
other property of a passing run is also a theorem.

What accumulates over a whole input could not be proved with the induction theorems
of the library, which take the predicate as a parameter that the installed provers
cannot instantiate. Those inductions are written out as a least counterexample: the
recursive functions of `Snapshot` and `Streams`, the order of the rows in
`LineProgram`, the folds of `Coverage`, the decoder. Nothing is claimed of a recursive
definition for its own sake.

## Findings

Four places where a comment or docstring says one thing and the code does
another, each with a run that shows it:

- `StreamingStats.lost` is called exact; the executed count keeps 32 bits and is
  subtracted without reduction, so a wrap inside a slice hides the loss
  (`capture_wrap`).
- The flush "cannot fire when capacity covers the target"; a capacity equal to the
  target, which is a default, is flushed by the overshoot of the last slice
  (`capture_covered`).
- "Every failure path below closes" the probe; an interrupt in the constructor of
  `JLink`, from the return of `JLINKARM_OpenEx` to the end of connecting, does not
  (`capture_interrupted`).
- Beyond the maximum depth the stream keeps running in the deepest frame; one
  instruction after a skipped call that frame is closed as if execution had
  returned into an earlier caller (`called_deeply`).

Further limits of the code are premises of the properties, named in their
comments and in `PROJECT.json` under the hazard they belong to:

- a store passed to a second call has an undeclared hole where the core ran on
  between the two (`read_extended` samples the count anew);
- a recursive call's own return is not seen, and its frame stays open;
- a unit whose `line_range` is 0 raises, and with it the rows of the units before
  it are lost;
- `halted()` looks and halts in two calls: a core that a breakpoint stops in
  between is resumed when the block ends;
- `connect()` to a second device keeps the register list of the first;
- a closed handle drives the probe of a newer one, but for the two methods that
  ask;
- an interrupt in `close()` behind `JLINKARM_Close` leaves a closed probe with a
  registered owner, and no `JLink` can be opened until it is closed again; if
  `_opened` had been cleared too, closing it does nothing, `close_open_link()` either;
- an interrupt in `start()`, between it and the `try` of `run_capture`, or in `stop()`
  may leave tracing on;
- two `Hss` objects do not share the layout the DLL samples;
- a read of `Hss` that ends inside a sample drops the piece it took, and the reads
  after it begin inside a sample and make each of theirs of two, until in sum whole
  samples have been taken or sampling is started again;
- `Swo.read()` is said to return bytes in the TPIU's frames, which `decode_itm` does
  not take off;
- `Rtt.stream()` without a duration ends only if the script leaves it;
- a session whose writer dies behind the sidecar is listed without `index.json`,
  `events.ndjson` or `raw/stream.bin`, which the store's readers take for corrupt;
- a window without two distinct stamps is taken for newest first, and stamps
  outside of the window take part in the decision;
- an id that is given twice has its payload rewritten under a sidecar that is
  already listed.

The properties of the passing runs are stated under the premises that exclude
these. Where a property needs no premise (`StreamOrdered`, `HeldBounded`,
everything about frames on arbitrary streams) it is checked and proved without.

## Not modelled, and the plan

What could be added next, in this order:

1. **Streams**: writes to RTT, trace regions and RAWTRACE, and the configuration
   calls that a start depends on.
2. **Analysis**: the order in which finished coverage rows are listed.
3. **Proofs**: what the next models promise; of the present ones only liveness is
   left.

Left out for good: the loader (a search for a library file), structures and
constants, CoreSight (single register accesses), memory access and flash (one
call each, nothing kept here), the binary parsing of ELF and DWARF forms,
demangling, the command line, and wording and formatting everywhere.
