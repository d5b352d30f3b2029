-------------------------------- MODULE Capture --------------------------------
(***************************************************************************)
(* run_capture of jtrace/capture.py with the JLink connection it opens     *)
(* (jtrace/link.py): connect, set the trace up, run the target, in slices  *)
(* through ReadExtended or in one go, halt it, read the statistics and the *)
(* trace, stop tracing, hand the probe back.  Every step on the way may    *)
(* fail, and the probe must be handed back all the same.                   *)
(*                                                                         *)
(* The probe and the DLL are not under src/: they are modelled from the    *)
(* calls link.py and strace.py make.                                       *)
(***************************************************************************)
EXTENDS ReadExtended

VARIABLES
  stage,        \* where run_capture is
  failed,       \* an exception is on its way out
  items,        \* options.trace_items; 0 also stands for read_trace=False
  opened,       \* this handle has _opened set
  registered,   \* this handle is JLink._open_instance
  probeOpen,    \* the DLL holds the probe
  tracing,      \* the DLL is tracing
  executed,     \* total_executed after the last halt
  interruptedIn \* history: the stages in which Ctrl-C arrived

handleVars == <<opened, registered, probeOpen>>
sessionVars == <<stage, failed, items, handleVars, tracing, executed,
                 interruptedIn>>
captureVars == <<readVars, sessionVars>>

\* Past the clamp of one read the target is run in slices.
Long == items > Clamp

CaptureInit ==
  /\ ReadInit
  /\ ~running
  /\ stage = "open"
  /\ failed = FALSE
  /\ items \in 0 .. Clamp \cup {Target}
  /\ opened = FALSE
  /\ registered = FALSE
  /\ probeOpen = FALSE
  /\ tracing = FALSE
  /\ executed = 0
  /\ interruptedIn = {}

\* stage moves on and the exception, if any, is recorded.
MoveTo(next, raising) ==
  /\ stage' = next
  /\ failed' = raising
  /\ UNCHANGED <<items, interruptedIn>>

\* Ctrl-C is an exception, but no Exception. It is raised once the call into the
\* DLL that is under way has returned, so the call may have had its effect.
InterruptedTo(next) ==
  /\ stage' = next
  /\ failed' = TRUE
  /\ interruptedIn' = interruptedIn \cup {stage}
  /\ UNCHANGED items

\* The first k of the three things an opening does: OpenEx, _opened,
\* _open_instance.
OpenedBy(k) == probeOpen' = (k >= 1) /\ opened' = (k >= 2) /\ registered' = (k >= 3)

\* The first k of the three things close() does: JLINKARM_Close, whatever it
\* raises, _opened, _open_instance.
ClosedBy(k) == probeOpen' = (k < 1) /\ opened' = (k < 2) /\ registered' = (k < 3)

-------------------------------------------------------------------------------
(***************************************************************************)
(* JLink.__init__                                                          *)
(***************************************************************************)

\* No probe with that serial number, or OpenEx answers an error.
OpenFails ==
  /\ stage = "open"
  /\ MoveTo("raised", TRUE)
  /\ UNCHANGED <<readVars, handleVars, tracing, executed>>

OpenProbe ==
  /\ stage = "open"
  /\ OpenedBy(3)
  /\ MoveTo("connect", FALSE)
  /\ UNCHANGED <<readVars, tracing, executed>>

OpenInterrupted ==
  /\ stage = "open"
  /\ \E k \in 0 .. 2 : OpenedBy(k)
  /\ InterruptedTo("raised")
  /\ UNCHANGED <<readVars, tracing, executed>>

\* Mutant: the handle is not closed when connecting fails.
ConnectFailsOpen ==
  /\ stage = "connect"
  /\ MoveTo("raised", TRUE)
  /\ UNCHANGED <<readVars, handleVars, tracing, executed>>

\* __exit__ never runs for a handle whose __init__ raises, so it closes itself.
ConnectFails ==
  /\ stage = "connect"
  /\ ClosedBy(3)
  /\ MoveTo("raised", TRUE)
  /\ UNCHANGED <<readVars, tracing, executed>>

\* "except Exception" does not catch an interrupt, and the close() that follows
\* a failure may be interrupted itself.
ConnectInterrupted ==
  /\ stage = "connect"
  /\ \E k \in 0 .. 2 : ClosedBy(k)
  /\ InterruptedTo("raised")
  /\ UNCHANGED <<readVars, tracing, executed>>

Connect ==
  /\ stage = "connect"
  /\ MoveTo("setup", FALSE)
  /\ UNCHANGED <<readVars, handleVars, tracing, executed>>

-------------------------------------------------------------------------------
(***************************************************************************)
(* The body of the with statement                                          *)
(***************************************************************************)

\* Reset and halt, prime the trace cache, read the code, size the buffer,
\* configure the port; each may fail, and nothing is to be stopped yet.
SetUp ==
  /\ stage = "setup"
  /\ \/ MoveTo("start", FALSE)
     \/ MoveTo("close", TRUE)
  /\ UNCHANGED <<readVars, handleVars, tracing, executed>>

StartTrace ==
  /\ stage = "start"
  /\ \/ MoveTo("go", FALSE) /\ tracing' = TRUE
     \/ MoveTo("close", TRUE) /\ UNCHANGED tracing
  /\ UNCHANGED <<readVars, handleVars, executed>>

\* go() reports no failure.
LetRun ==
  /\ stage = "go"
  /\ running' = TRUE
  /\ MoveTo(IF Long THEN "slices" ELSE "run", FALSE)
  /\ UNCHANGED <<storeVars, hostVars, retired, fresh, haltAt, drained, handleVars,
                 tracing, executed>>

\* A step of read_extended, until it has returned or raised.
Slice ==
  /\ stage = "slices"
  /\ pc \notin {"done", "raised"}
  /\ Host \/ Raise
  /\ UNCHANGED sessionVars

SlicesRaised ==
  /\ stage = "slices"
  /\ pc = "raised"
  /\ MoveTo("stop", TRUE)
  /\ UNCHANGED <<readVars, handleVars, tracing, executed>>

\* The slices are done, or the run time of _run_for is over; then halt().
FinalHalt ==
  /\ \/ stage = "slices" /\ pc = "done"
     \/ stage = "run"
  /\ \/ MoveTo("counts", FALSE) /\ running' = FALSE
     \/ MoveTo("stop", TRUE) /\ UNCHANGED running
  /\ UNCHANGED <<storeVars, hostVars, retired, fresh, haltAt, drained, handleVars,
                 tracing, executed>>

ReadCounts ==
  /\ stage = "counts"
  /\ \/ /\ MoveTo(IF Long THEN "stop" ELSE "readback", FALSE)
        /\ executed' \in TotalExecuted
     \/ MoveTo("stop", TRUE) /\ UNCHANGED executed
  /\ UNCHANGED <<readVars, handleVars, tracing>>

\* A short capture reads once; an empty window makes no block.
ReadBack ==
  /\ stage = "readback"
  /\ LET n == AtMost(fresh, items)
     IN  \/ /\ MoveTo("stop", FALSE)
            /\ IF n > 0 THEN AppendBlock([first |-> retired - n, n |-> n, lost |-> 0,
                                          halt |-> 0, at |-> 0])
                        ELSE UNCHANGED storeVars
            /\ fresh' = IF items > 0 THEN 0 ELSE fresh
            /\ drained' = n
         \/ /\ items > 0
            /\ MoveTo("stop", TRUE)
            /\ UNCHANGED <<storeVars, fresh, drained>>
  /\ UNCHANGED <<hostVars, running, retired, haltAt, handleVars, tracing, executed>>

\* The finally clause.
StopTrace ==
  /\ stage = "stop"
  /\ tracing' = FALSE
  /\ MoveTo("close", failed)
  /\ UNCHANGED <<readVars, handleVars, executed>>

\* __exit__ and close.
Close ==
  /\ stage = "close"
  /\ ClosedBy(3)
  /\ MoveTo(IF failed THEN "raised" ELSE "returned", failed)
  /\ UNCHANGED <<readVars, tracing, executed>>

\* Ctrl-C in the body: past the finally clause once the try has begun.
Interrupt ==
  /\ \/ stage = "setup" /\ InterruptedTo("close")
     \/ stage \in {"slices", "run", "counts", "readback"} /\ InterruptedTo("stop")
  /\ UNCHANGED <<readVars, handleVars, tracing, executed>>

\* In start() and in stop(), which catches an Exception only.
TraceInterrupted ==
  /\ stage \in {"start", "stop"}
  /\ tracing' \in {tracing, stage = "start"}
  /\ InterruptedTo("close")
  /\ UNCHANGED <<readVars, handleVars, executed>>

\* Between start() and the try.
GoInterrupted ==
  /\ stage = "go"
  /\ running' \in BOOLEAN
  /\ InterruptedTo("close")
  /\ UNCHANGED <<storeVars, hostVars, retired, fresh, haltAt, drained, handleVars,
                 tracing, executed>>

CloseInterrupted ==
  /\ stage = "close"
  /\ \E k \in 0 .. 2 : ClosedBy(k)
  /\ InterruptedTo("raised")
  /\ UNCHANGED <<readVars, tracing, executed>>

\* The core retires instructions, which count from the start of the trace.
Execute == tracing /\ Retire /\ UNCHANGED sessionVars
Deadline == stage = "slices" /\ Expire /\ UNCHANGED sessionVars

CaptureEnded == stage \in {"returned", "raised"}

Over == CaptureEnded /\ UNCHANGED captureVars

CaptureNext ==
  \/ OpenFails \/ OpenProbe \/ ConnectFails \/ Connect \/ SetUp \/ StartTrace
  \/ LetRun \/ Slice \/ SlicesRaised \/ FinalHalt \/ ReadCounts \/ ReadBack
  \/ StopTrace \/ Close
  \/ OpenInterrupted \/ ConnectInterrupted \/ Interrupt \/ TraceInterrupted
  \/ GoInterrupted \/ CloseInterrupted
  \/ Execute \/ Deadline
  \/ Over

CaptureSpec == CaptureInit /\ [][CaptureNext]_captureVars

-------------------------------------------------------------------------------
(***************************************************************************)
(* Properties                                                              *)
(***************************************************************************)

\* "Every failure path below closes it" (capture.py:20-22): whichever step
\* failed or was interrupted, when run_capture is left the probe is closed and
\* the next JLink can be opened.
EveryPathCloses == CaptureEnded => ~probeOpen /\ ~registered

\* What holds of that.  Whatever fails, and whatever is interrupted but the
\* constructor of JLink and its close(), a capture ends with the probe closed and
\* the handle gone (link.py:132-180).  A probe that is open has an owner whom
\* close_open_link() finds, unless the interrupt came before the owner was
\* registered (link.py:146-150).  Tracing has been stopped at the end, unless the
\* interrupt came in start() or behind it before the try, or in stop() itself
\* (capture.py:213-267, strace.py:350-355).  A result is only returned from a
\* halted core.
ProbeReleased ==
  /\ CaptureEnded /\ interruptedIn \cap {"open", "connect", "close"} = {} =>
       ~probeOpen /\ ~opened /\ ~registered
  /\ probeOpen /\ "open" \notin interruptedIn => opened /\ registered
  /\ CaptureEnded /\ interruptedIn \cap {"start", "go", "stop"} = {} => ~tracing
  /\ stage = "returned" => ~running

\* Mutant: a capture is cut short only when instructions were lost.
TruncatedByLoss == stats.lost > 0

\* summary.window_truncated.
WindowTruncated == executed > length

\* A result that is not marked as truncated is the whole run: every instruction
\* retired since tracing started, from the first, without a hole
\* (capture.py:302-305), unless it was asked not to read any.
UntruncatedIsComplete ==
  stage = "returned" /\ ~WindowTruncated =>
    /\ length = retired
    /\ Chained(blocks)
    /\ Boundaries = {}
    /\ blocks # <<>> => blocks[1].first = 0
===============================================================================
