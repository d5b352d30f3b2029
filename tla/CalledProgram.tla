----------------------------- MODULE CalledProgram -----------------------------
(***************************************************************************)
(* CallFrames on the stream of a real program.  The program calls, runs    *)
(* and returns; each instruction it retires is observed, unless the probe  *)
(* loses it, and the capture may begin with calls already made.  What      *)
(* build_call_frames infers is compared with the calls that are open.      *)
(*                                                                         *)
(* The program is external: its functions are all in the ELF, it makes no  *)
(* tail call and does not jump back to the entry of a function, and with   *)
(* NestsOnce it does not recurse.  Or nothing at all is known of it, and   *)
(* any instruction may follow any other: that is FramesSpec.               *)
(***************************************************************************)
EXTENDS CallFrames, TLC

CONSTANTS
  NestsOnce,    \* no function is called while it is running
  MaxCalls      \* bound: calls open at once

ASSUME ProgramAssumption == NestsOnce \in BOOLEAN /\ MaxCalls \in Nat \ {0}

VARIABLES
  calls,        \* the calls open, outermost first: the function, and the index
                \* its entry was observed at, or -1; empty for a program of
                \* which nothing is known
  hole,         \* instructions were lost since the last one observed
  returned      \* the calls whose entry and return were both observed

programVars == <<frameVars, calls, hole, returned>>

Known == calls # <<>>
Running == Top(calls).fn

ProgramInit ==
  /\ FramesInit
  /\ \E depth \in 0 .. MaxCalls : \E fns \in [1 .. depth -> Fns] :
       /\ NestsOnce => \A p, q \in 1 .. depth : p # q => fns[p] # fns[q]
       /\ calls = [p \in 1 .. depth |-> [fn |-> fns[p], since |-> -1]]
  /\ hole = FALSE
  /\ returned = {}

\* The next instruction is observed or lost.  What was observed before a hole
\* is closed by the boundary that follows it.
Seen(f, entry) == Observe(f, entry, hole) /\ hole' = FALSE
Lost == index > 0 /\ ~finished /\ hole' = TRUE /\ UNCHANGED frameVars

Enter(f) ==
  /\ Known
  /\ Len(calls) < MaxCalls
  /\ NestsOnce => \A p \in 1 .. Len(calls) : calls[p].fn # f
  /\ \/ Seen(f, TRUE) /\ calls' = Append(calls, [fn |-> f, since |-> index])
     \/ Lost /\ calls' = Append(calls, [fn |-> f, since |-> -1])
  /\ UNCHANGED returned

Run ==
  /\ Known
  /\ Seen(Running, FALSE) \/ Lost
  /\ UNCHANGED <<calls, returned>>

Leave ==
  /\ Len(calls) > 1
  /\ calls' = SubSeq(calls, 1, Len(calls) - 1)
  /\ \/ /\ Seen(calls[Len(calls) - 1].fn, FALSE)
        /\ returned' = IF hole THEN returned ELSE returned \cup
             {[fn |-> Running, start |-> Top(calls).since, end |-> index]}
     \/ Lost /\ UNCHANGED returned

Stray(f, entry, brk) ==
  /\ ~Known
  /\ Observe(f, entry, brk)
  /\ UNCHANGED <<calls, hole, returned>>

EndOfCapture == Finish /\ UNCHANGED <<calls, hole, returned>>

ProgramNext ==
  \/ \E f \in Fns : Enter(f)
  \/ Run
  \/ Leave
  \/ \E f \in Fns, entry \in BOOLEAN, brk \in BOOLEAN : Stray(f, entry, brk)
  \/ \E brk \in BOOLEAN : Stray(Unknown, FALSE, brk)
  \/ EndOfCapture
  \/ Done /\ UNCHANGED <<calls, hole, returned>>

ProgramSpec == ProgramInit /\ [][ProgramNext]_programVars

FnSymmetry == Permutations(Fns)

-------------------------------------------------------------------------------
(***************************************************************************)
(* Properties                                                              *)
(***************************************************************************)

Watching == Known /\ index > 0 /\ ~finished /\ ~hole

\* Where the stream was last picked up.
SegmentStart == IF breaks = {} THEN 0
                ELSE CHOOSE b \in breaks : \A c \in breaks : c <= b

\* What is inferred is what is open, as far down as the stream has shown: the
\* same functions in the same order, each one level above its caller, each
\* begun where its entry was observed or marked as open at the start; and each
\* frame with both ends inside the stream is a call that really was made and
\* returned there, however many holes the stream has.
ReconstructionExact ==
  /\ Watching =>
       /\ Len(stack) <= Len(calls)
       /\ \A p \in 1 .. Len(stack) :
            LET call == calls[Len(calls) - Len(stack) + p]
            IN  /\ stack[p].fn = call.fn
                /\ stack[p].level = stack[1].level + p - 1
                /\ IF call.since > SegmentStart
                   THEN stack[p].start = call.since /\ ~stack[p].openAtStart
                   ELSE stack[p].openAtStart
  /\ Known => \A c \in closed :
       ~c.openAtStart /\ ~c.openAtEnd =>
         [fn |-> c.fn, start |-> c.start, end |-> c.end] \in returned

-------------------------------------------------------------------------------
(***************************************************************************)
(* What the text of the code says and the code does not do, checked by a   *)
(* run of its own that violates it.                                        *)
(***************************************************************************)

\* "Beyond it the stream keeps running in the deepest frame" (frames.py:33-35),
\* of a nesting deeper than max_depth: what is open according to the frames is
\* still a chain of calls of which each made the next.
CappedRunsInDeepest ==
  Watching =>
    \E k \in 0 .. Len(calls) : \A p \in 1 .. Len(stack) :
      k + p <= Len(calls) /\ stack[p].fn = calls[k + p].fn
===============================================================================
