----------------------------- MODULE ReadExtended -----------------------------
(***************************************************************************)
(* Strace.read_extended of jtrace/strace.py: the host runs the core for a  *)
(* slice, halts it, drains the newest Clamp instructions of the probe's    *)
(* trace buffer, stashes the window, and turns the stash into blocks of a  *)
(* TraceStore when the store's bound asks for it and at the end.           *)
(*                                                                         *)
(* The core and the probe run beside the host.  They are not under src/:   *)
(* they are modelled from how read_extended uses them and from what its    *)
(* docstring says was measured.  The Python loop has one thread, and the   *)
(* core only runs between go and halt, or before the first go when the     *)
(* caller had already started it, as run_capture has.                      *)
(***************************************************************************)
EXTENDS TraceStore

CONSTANTS
  Target,           \* target_items
  Clamp,            \* MAX_STRACE_ITEMS, what one read can return
  MaxSlices,        \* max_slices
  HasDeadline,      \* whether deadline_s was given
  CounterModulus,   \* the aggregate counter is kept modulo this: 2^32
  StatsMayFail,     \* whether GetInstStats may answer nothing
  MayRaise,         \* whether halt, the read and on_progress may raise
  MaxCalls,         \* bound: calls that share one store= argument
  MaxRetired        \* bound: instructions the core retires

ASSUME ReadAssumption ==
  /\ {Target, MaxSlices, MaxRetired} \subseteq Nat
  /\ {Clamp, CounterModulus, MaxCalls} \subseteq Nat \ {0}
  /\ {HasDeadline, StatsMayFail, MayRaise} \subseteq BOOLEAN

VARIABLES
  \* the host, inside read_extended
  pc,               \* the statement it is at
  before,           \* total_executed sampled at the loop head
  appended,         \* instructions this call has read
  slices,           \* turns of the for loop taken
  pending,          \* the stash of windows, as the blocks they will become
  stashed,          \* instructions in the stash
  expired,          \* time.monotonic() >= expires
  calls,            \* calls made on this store
  \* the core and the probe
  running,          \* the core executes
  retired,          \* instructions it has retired since tracing started
  fresh,            \* of those, the ones a read can still reach
  \* history
  haltAt,           \* for each halt, the instructions retired by then
  drained           \* instructions read over all calls

hostVars   == <<pc, before, appended, slices, pending, stashed, expired, calls>>
targetVars == <<running, retired, fresh>>
readVars   == <<storeVars, hostVars, targetVars, haltAt, drained>>

NonNeg(i) == IF i < 0 THEN 0 ELSE i
AtMost(i, limit) == IF i < limit THEN i ELSE limit

ReadInit ==
  /\ StoreInit
  /\ pc = "loop"
  /\ before = 0
  /\ appended = 0
  /\ slices = 0
  /\ pending = <<>>
  /\ stashed = 0
  /\ expired = FALSE
  /\ calls = 1
  /\ running \in BOOLEAN
  /\ retired = 0
  /\ fresh = 0
  /\ haltAt = <<>>
  /\ drained = 0

-------------------------------------------------------------------------------
(***************************************************************************)
(* The core, the clock                                                     *)
(***************************************************************************)

Retire ==
  /\ running
  /\ retired < MaxRetired
  /\ retired' = retired + 1
  /\ fresh' = fresh + 1
  /\ UNCHANGED <<storeVars, hostVars, running, haltAt, drained>>

Expire ==
  /\ HasDeadline
  /\ ~expired
  /\ expired' = TRUE
  /\ UNCHANGED <<storeVars, pc, before, appended, slices, pending, stashed,
                 calls, targetVars, haltAt, drained>>

\* total_executed: four bytes of the counter, or 0 when the probe answers none.
TotalExecuted ==
  {retired % CounterModulus} \cup (IF StatsMayFail THEN {0} ELSE {})

-------------------------------------------------------------------------------
(***************************************************************************)
(* The slice loop                                                          *)
(***************************************************************************)

LoopEnds == slices = MaxSlices \/ appended >= Target \/ expired

\* Fall out of the loop into the last _build_blocks.
LeaveLoop ==
  /\ pc = "loop"
  /\ LoopEnds
  /\ pc' = "final"
  /\ UNCHANGED <<storeVars, before, appended, slices, pending, stashed, expired,
                 calls, targetVars, haltAt, drained>>

StartSlice ==
  /\ pc = "loop"
  /\ ~LoopEnds
  /\ slices' = slices + 1
  /\ before' \in TotalExecuted
  /\ pc' = "go"
  /\ UNCHANGED <<storeVars, appended, pending, stashed, expired, calls,
                 targetVars, haltAt, drained>>

Go ==
  /\ pc = "go"
  /\ running' = TRUE
  /\ pc' = "halt"
  /\ UNCHANGED <<storeVars, before, appended, slices, pending, stashed, expired,
                 calls, retired, fresh, haltAt, drained>>

\* The end of the sleep, and link.halt().
Halt ==
  /\ pc = "halt"
  /\ running' = FALSE
  /\ haltAt' = Append(haltAt, retired)
  /\ pc' = "drain"
  /\ UNCHANGED <<storeVars, before, appended, slices, pending, stashed, expired,
                 calls, retired, fresh, drained>>

\* What a read returns: the newest Clamp of the instructions it can reach.
WindowLen == AtMost(fresh, Clamp)

\* Mutant: loss is counted but not recorded on the block.
WindowWithoutLoss(lost) ==
  [first |-> retired - WindowLen, n |-> WindowLen, lost |-> 0,
   halt |-> Len(haltAt), at |-> drained]

\* The window as the block it will become.  Its halt reason is read here,
\* under the halt that ended the slice.
Window(lost) ==
  [first |-> retired - WindowLen, n |-> WindowLen, lost |-> lost,
   halt |-> Len(haltAt), at |-> drained]

\* The read consumes the window, and what it left behind is out of reach once
\* the core runs on.
Drain ==
  /\ pc = "drain"
  /\ \E after \in TotalExecuted :
       LET lost == NonNeg(after - before - WindowLen)
       IN  \/ /\ WindowLen > 0 \/ lost > 0
              /\ pending' = Append(pending, Window(lost))
              /\ appended' = appended + WindowLen
              /\ stashed' = stashed + WindowLen
              /\ UNCHANGED storeVars
           \/ /\ WindowLen = 0 /\ lost = 0
              /\ NoteIdlePoll
              /\ UNCHANGED <<pending, appended, stashed>>
  /\ fresh' = 0
  /\ drained' = drained + WindowLen
  /\ pc' = "progress"
  /\ UNCHANGED <<before, slices, expired, calls, running, retired, haltAt>>

\* Mutant: deferring defeats the bound.
ProgressUnbounded ==
  /\ pc = "progress"
  /\ pc' = "loop"
  /\ UNCHANGED <<storeVars, before, appended, slices, pending, stashed, expired,
                 calls, targetVars, haltAt, drained>>

\* on_progress has returned; does the stash still fit under the store's bound?
Progress ==
  /\ pc = "progress"
  /\ pc' = IF length + stashed > Capacity THEN "flush" ELSE "loop"
  /\ UNCHANGED <<storeVars, before, appended, slices, pending, stashed, expired,
                 calls, targetVars, haltAt, drained>>

\* Mutant: the halt reason is read when the block is built.
BuildBlockLateReason ==
  /\ pc \in {"flush", "final"}
  /\ pending # <<>>
  /\ AppendBlock([Head(pending) EXCEPT !.halt = Len(haltAt)])
  /\ pending' = Tail(pending)
  /\ UNCHANGED <<pc, before, appended, slices, stashed, expired, calls,
                 targetVars, haltAt, drained>>

\* Mutant: the stash is popped from its end.
BuildBlockLifo ==
  /\ pc \in {"flush", "final"}
  /\ pending # <<>>
  /\ AppendBlock(pending[Len(pending)])
  /\ pending' = SubSeq(pending, 1, Len(pending) - 1)
  /\ UNCHANGED <<pc, before, appended, slices, stashed, expired, calls,
                 targetVars, haltAt, drained>>

\* One turn of the loop of _build_blocks, in the flush and at the end.
BuildBlock ==
  /\ pc \in {"flush", "final"}
  /\ pending # <<>>
  /\ AppendBlock(Head(pending))
  /\ pending' = Tail(pending)
  /\ UNCHANGED <<pc, before, appended, slices, stashed, expired, calls,
                 targetVars, haltAt, drained>>

\* Mutant: flush until the bound holds, which one large window never does.
EndFlushWhenFits ==
  /\ pc = "flush"
  /\ pending = <<>>
  /\ stashed' = 0
  /\ pc' = IF length > Capacity THEN "flush" ELSE "loop"
  /\ UNCHANGED <<storeVars, before, appended, slices, pending, expired, calls,
                 targetVars, haltAt, drained>>

EndFlush ==
  /\ pc = "flush"
  /\ pending = <<>>
  /\ stashed' = 0
  /\ pc' = "loop"
  /\ UNCHANGED <<storeVars, before, appended, slices, pending, expired, calls,
                 targetVars, haltAt, drained>>

\* Mutant: overshoot is handed back.
ReturnUncut ==
  /\ pc = "final"
  /\ pending = <<>>
  /\ pc' = "done"
  /\ UNCHANGED <<storeVars, before, appended, slices, pending, stashed, expired,
                 calls, targetVars, haltAt, drained>>

\* Mutant: no _build_blocks after the loop.
ReturnWithoutBuilding ==
  /\ pc = "final"
  /\ TruncateTo(Target)
  /\ pc' = "done"
  /\ pending' = <<>>
  /\ UNCHANGED <<before, appended, slices, stashed, expired, calls, targetVars,
                 haltAt, drained>>

Return ==
  /\ pc = "final"
  /\ pending = <<>>
  /\ TruncateTo(Target)
  /\ pc' = "done"
  /\ UNCHANGED <<before, appended, slices, pending, stashed, expired, calls,
                 targetVars, haltAt, drained>>

\* halt() or read() reports a failure, or on_progress raises.  The stash is a
\* local variable and is lost with the call.
Raise ==
  /\ MayRaise
  /\ pc \in {"halt", "drain", "progress"}
  /\ pc' = "raised"
  /\ pending' = <<>>
  /\ UNCHANGED <<storeVars, before, appended, slices, stashed, expired, calls,
                 targetVars, haltAt, drained>>

\* Between two calls on the same store the caller may let the core run.
Resume ==
  /\ pc \in {"done", "raised"}
  /\ calls < MaxCalls
  /\ running' = TRUE
  /\ UNCHANGED <<storeVars, hostVars, retired, fresh, haltAt, drained>>

\* The caller passes the same store to another call.
CallAgain ==
  /\ pc \in {"done", "raised"}
  /\ calls < MaxCalls
  /\ calls' = calls + 1
  /\ pc' = "loop"
  /\ appended' = 0
  /\ slices' = 0
  /\ pending' = <<>>
  /\ stashed' = 0
  /\ expired' = FALSE
  /\ UNCHANGED <<storeVars, before, targetVars, haltAt, drained>>

Ended ==
  /\ pc \in {"done", "raised"}
  /\ UNCHANGED readVars

Host ==
  \/ LeaveLoop \/ StartSlice \/ Go \/ Halt \/ Drain \/ Progress
  \/ BuildBlock \/ EndFlush \/ Return

ReadNext ==
  \/ Host \/ Raise
  \/ Resume \/ CallAgain \/ Ended
  \/ Retire \/ Expire

ReadSpec == ReadInit /\ [][ReadNext]_readVars

(***************************************************************************)
(* The Python loop is never blocked for good: its sleep and the probe      *)
(* calls return, and the clock passes the deadline.  Nothing is assumed of *)
(* the core.                                                               *)
(***************************************************************************)
ReadFairSpec == ReadSpec /\ WF_readVars(Host) /\ WF_readVars(Expire)

-------------------------------------------------------------------------------
(***************************************************************************)
(* Properties.  They speak of one call on a store of its own, with a       *)
(* counter that never wraps and always answers; the runs that drop one of  *)
(* these premises are the findings.                                        *)
(***************************************************************************)

ReadTypeOK ==
  /\ StoreTypeOK
  /\ pc \in {"loop", "go", "halt", "drain", "progress", "flush", "final",
             "done", "raised"}
  /\ {before, appended, slices, stashed, calls, retired, fresh, drained} \subseteq Nat
  /\ pending \in Seq(Block)
  /\ haltAt \in Seq(Nat)
  /\ {expired, running} \subseteq BOOLEAN
  /\ fresh <= retired

\* Consecutive windows: b starts right after a, but for what b says was lost.
Joins(a, b) == b.first = a.first + a.n + b.lost

Chained(windows) == \A i \in 1 .. (Len(windows) - 1) : Joins(windows[i], windows[i + 1])

\* The stream says where its holes are (strace.py:582-586): between two
\* neighbouring windows, in the store, in the stash or across the two, exactly
\* lost_before instructions are missing, so a seam without loss really
\* continues with the instruction that executed next.
SeamsAccounted ==
  /\ Chained(blocks)
  /\ Chained(pending)
  /\ blocks # <<>> /\ pending # <<>> => Joins(blocks[Len(blocks)], pending[1])

Follows(a, b) == b.first >= a.first + a.n

Ordered(windows) == \A i \in 1 .. (Len(windows) - 1) : Follows(windows[i], windows[i + 1])

\* Consecutive reads never overlap and nothing reorders them
\* (strace.py:468-470), whatever wraps, fails or raises and however many calls
\* share the store: each window, in the store or the stash, is of instructions
\* retired after all those of the window before it.
StreamOrdered ==
  /\ Ordered(blocks)
  /\ Ordered(pending)
  /\ blocks # <<>> /\ pending # <<>> => Follows(blocks[Len(blocks)], pending[1])

HaltedAt(h) == IF h = 0 THEN 0 ELSE haltAt[h]

\* A halt reason belongs to the halt that produced it (strace.py:589-593):
\* all of a window was retired after the halt before its own, and by its own.
\* (Only the single read of a short capture records no halt.)
HaltReasonBelongs ==
  \A windows \in {blocks, pending} : \A i \in 1 .. Len(windows) :
    LET w == windows[i]
    IN  w.halt # 0 =>
          /\ w.halt \in 1 .. Len(haltAt)
          /\ HaltedAt(w.halt - 1) <= w.first
          /\ w.first + w.n <= HaltedAt(w.halt)

\* What the stash holds, from where its oldest window was read.
InStash == IF pending = <<>> THEN 0 ELSE drained - pending[1].at

AtLeast(i, limit) == IF i > limit THEN i ELSE limit

\* Deferring the blocks does not defeat the store's bound (strace.py:624-628):
\* store and stash together hold at most the capacity, or one window, plus the
\* window just read; and stashed is what the stash holds when it is compared.
HeldBounded ==
  /\ length + InStash <= AtLeast(Capacity, Clamp) + Clamp
  /\ pc \in {"loop", "go"} => length + InStash <= AtLeast(Capacity, Clamp)
  /\ pc \in {"loop", "go", "halt", "drain", "progress"} => stashed = InStash

\* A store with room for the target and one window more, which is what
\* run_capture passes (capture.py:230-233), never evicts and is never flushed
\* between two slices; the result is the oldest part of what was read, as much
\* as was asked for.
WholeCapture ==
  Capacity >= Target + Clamp =>
    /\ Origin = 0
    /\ pc # "flush"
    /\ pc = "done" =>
         /\ length = AtMost(drained, Target)
         /\ \A p \in 1 .. Len(blocks) : blocks[p].at = starts[p]

\* A store below the target keeps a tail: unless the result is long enough to
\* have been cut, it ends with the last instruction retired before the last
\* halt.  (A second call that reads nothing ends where the first one did.)
TailReachesLastHalt ==
  calls = 1 /\ pc = "done" /\ blocks # <<>> /\ length < Target =>
    LET last == blocks[Len(blocks)]
    IN  last.first + last.n = HaltedAt(Len(haltAt))

\* Whatever the core does, the call ends.
Terminates == <>(pc \in {"done", "raised"})

-------------------------------------------------------------------------------
(***************************************************************************)
(* What the code's own text says and the code does not do.  Each is        *)
(* checked by a run of its own that violates it.                           *)
(***************************************************************************)

\* "it cannot fire when capacity covers the target" (strace.py:628-630), of the
\* flush between two slices.
CoveredNeverFlushes == Capacity >= Target => pc # "flush"

===============================================================================
