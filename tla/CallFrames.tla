------------------------------ MODULE CallFrames ------------------------------
(***************************************************************************)
(* build_call_frames of jtrace/frames.py: call frames inferred from a      *)
(* program counter stream.  The stream is not fixed beforehand: each step  *)
(* observes one more instruction, so a behaviour is a run of the function  *)
(* on the stream it has observed.  An instruction is the function it       *)
(* resolves to and whether it is at that function's entry address; names,  *)
(* source lines and addresses add nothing to the inference.                *)
(***************************************************************************)
EXTENDS Integers, Sequences, FiniteSets

CONSTANTS
  Fns,          \* functions of the ELF
  Unknown,      \* what an address without a function resolves to
  MaxDepth,     \* max_depth
  MaxBelow,     \* -MIN_LEVEL
  MaxStream     \* bound: the length of the stream

ASSUME FramesAssumption ==
  /\ Unknown \notin Fns
  /\ MaxDepth \in Nat \ {0}
  /\ MaxBelow \in Nat
  /\ MaxStream \in Nat

MinLevel == -MaxBelow

VARIABLES
  index,        \* instructions observed
  stack,        \* the open frames, outermost first
  closed,       \* the closed frames; an index opens one frame at most, so the
                \* final sort by (start_index, depth) leaves no choice of order
  finished,     \* the stream is exhausted
  stream,       \* history: the instructions observed
  breaks        \* the boundaries passed so far

frameVars == <<index, stack, closed, finished, stream, breaks>>

Open == [fn : Fns \cup {Unknown}, level : Int, start : Nat, openAtStart : BOOLEAN]

Opened(f, level, unseen) ==
  [fn |-> f, level |-> level, start |-> index, openAtStart |-> unseen]

Closed(frame, open) ==
  [fn |-> frame.fn, level |-> frame.level, start |-> frame.start,
   end |-> index, openAtStart |-> frame.openAtStart, openAtEnd |-> open]

Top(frames) == frames[Len(frames)]

FramesInit ==
  /\ index = 0
  /\ stack = <<>>
  /\ closed = {}
  /\ finished = FALSE
  /\ stream = <<>>
  /\ breaks = {}

-------------------------------------------------------------------------------
(***************************************************************************)
(* One turn of the loop.  f and entry are the instruction, brk says that   *)
(* its index is a boundary.                                                *)
(***************************************************************************)

\* Mutant: the stack survives the hole.
StackAcross(brk) == stack

\* What is on the stack after the boundary check.
StackAfter(brk) == IF brk THEN <<>> ELSE stack

\* The boundary check closes every frame, as not having returned.
ClosedAfter(brk) ==
  IF brk THEN closed \cup {Closed(stack[p], TRUE) : p \in 1 .. Len(stack)}
         ELSE closed

Observed(f, entry, brk) ==
  /\ ~finished
  /\ index < MaxStream
  /\ index' = index + 1
  /\ stream' = Append(stream, [fn |-> f, entry |-> entry])
  /\ breaks' = IF brk THEN breaks \cup {index} ELSE breaks
  /\ UNCHANGED finished

\* Nothing is open: whatever runs now was entered earlier.
FirstFrame(f, entry, brk) ==
  /\ Observed(f, entry, brk)
  /\ StackAfter(brk) = <<>>
  /\ stack' = <<Opened(f, 0, TRUE)>>
  /\ closed' = ClosedAfter(brk)

\* Not at an entry, in the function of the deepest frame.
SameFrame(f, entry, brk) ==
  /\ Observed(f, entry, brk)
  /\ StackAfter(brk) # <<>>
  /\ ~entry
  /\ Top(StackAfter(brk)).fn = f
  /\ stack' = StackAfter(brk)
  /\ closed' = ClosedAfter(brk)

\* An entry address is a call, recursive or not.
Call(f, entry, brk) ==
  /\ Observed(f, entry, brk)
  /\ StackAfter(brk) # <<>>
  /\ entry
  /\ Len(StackAfter(brk)) < MaxDepth
  /\ stack' = Append(StackAfter(brk), Opened(f, Top(StackAfter(brk)).level + 1, FALSE))
  /\ closed' = ClosedAfter(brk)

\* At max_depth a call is not followed.
CappedCall(f, entry, brk) ==
  /\ Observed(f, entry, brk)
  /\ StackAfter(brk) # <<>>
  /\ entry
  /\ Len(StackAfter(brk)) >= MaxDepth
  /\ stack' = StackAfter(brk)
  /\ closed' = ClosedAfter(brk)

\* The positions on the stack a known function may return to.
Ancestors(f, frames) ==
  {p \in 1 .. Len(frames) : f # Unknown /\ frames[p].fn = f}

\* Mutant: the frames above the ancestor are closed but stay on the stack.
ReturnKeeps(f, entry, brk) ==
  /\ Observed(f, entry, brk)
  /\ StackAfter(brk) # <<>>
  /\ ~entry
  /\ Top(StackAfter(brk)).fn # f
  /\ \E p \in Ancestors(f, StackAfter(brk)) :
       /\ \A q \in Ancestors(f, StackAfter(brk)) : q <= p
       /\ stack' = StackAfter(brk)
       /\ closed' = ClosedAfter(brk) \cup
            {Closed(StackAfter(brk)[q], FALSE) : q \in (p + 1) .. Len(StackAfter(brk))}

\* A return into the innermost frame of f closes every frame above it.
Return(f, entry, brk) ==
  /\ Observed(f, entry, brk)
  /\ StackAfter(brk) # <<>>
  /\ ~entry
  /\ Top(StackAfter(brk)).fn # f
  /\ \E p \in Ancestors(f, StackAfter(brk)) :
       /\ \A q \in Ancestors(f, StackAfter(brk)) : q <= p
       /\ stack' = SubSeq(StackAfter(brk), 1, p)
       /\ closed' = ClosedAfter(brk) \cup
            {Closed(StackAfter(brk)[q], FALSE) : q \in (p + 1) .. Len(StackAfter(brk))}

\* Mutant: levels walk down without a floor.
LevelBelowUnbounded(level) == level - 1

LevelBelow(level) == IF level - 1 < MinLevel THEN MinLevel ELSE level - 1

\* Mutant: the frame of an unseen ancestor goes on top of the one that returned.
ReturnUnseenOnTop(f, entry, brk) ==
  /\ Observed(f, entry, brk)
  /\ StackAfter(brk) # <<>>
  /\ ~entry
  /\ Top(StackAfter(brk)).fn # f
  /\ Ancestors(f, StackAfter(brk)) = {}
  /\ stack' = Append(StackAfter(brk), Opened(f, LevelBelow(Top(StackAfter(brk)).level), TRUE))
  /\ closed' = ClosedAfter(brk)

\* A function that is not on the stack, entered elsewhere than at its entry:
\* it takes the place of the deepest frame, one level down.
ReturnUnseen(f, entry, brk) ==
  /\ Observed(f, entry, brk)
  /\ StackAfter(brk) # <<>>
  /\ ~entry
  /\ Top(StackAfter(brk)).fn # f
  /\ Ancestors(f, StackAfter(brk)) = {}
  /\ LET open == StackAfter(brk)
         kept == SubSeq(open, 1, Len(open) - 1)
     IN  /\ stack' = Append(kept, Opened(f, LevelBelow(Top(open).level), TRUE))
         /\ closed' = ClosedAfter(brk) \cup {Closed(Top(open), FALSE)}

Observe(f, entry, brk) ==
  \/ FirstFrame(f, entry, brk)
  \/ SameFrame(f, entry, brk)
  \/ Call(f, entry, brk)
  \/ CappedCall(f, entry, brk)
  \/ Return(f, entry, brk)
  \/ ReturnUnseen(f, entry, brk)

\* Past the last instruction, what is open has not returned.
Finish ==
  /\ ~finished
  /\ finished' = TRUE
  /\ closed' = closed \cup {Closed(stack[p], TRUE) : p \in 1 .. Len(stack)}
  /\ stack' = <<>>
  /\ UNCHANGED <<index, stream, breaks>>

Done == finished /\ UNCHANGED frameVars

FramesNext ==
  \/ \E f \in Fns, entry \in BOOLEAN, brk \in BOOLEAN : Observe(f, entry, brk)
  \/ \E brk \in BOOLEAN : Observe(Unknown, FALSE, brk)
  \/ Finish
  \/ Done

FramesSpec == FramesInit /\ [][FramesNext]_frameVars

-------------------------------------------------------------------------------
(***************************************************************************)
(* Properties, of any stream whatever                                      *)
(***************************************************************************)

\* Every variable keeps the type its Python counterpart has, and from the first
\* instruction to the last there is a deepest frame for it to be in.
FramesTypeOK ==
  /\ index \in Nat
  /\ index > 0 /\ ~finished => stack # <<>>
  /\ stack \in Seq(Open)
  /\ \A c \in closed :
       /\ [fn |-> c.fn, level |-> c.level, start |-> c.start,
           openAtStart |-> c.openAtStart] \in Open
       /\ c.end \in Nat
       /\ c.openAtEnd \in BOOLEAN
  /\ finished \in BOOLEAN
  /\ Len(stream) = index
  /\ breaks \subseteq Nat

\* The frames so far, as they would be if the stream ended here.
Frames == closed \cup {Closed(stack[p], TRUE) : p \in 1 .. Len(stack)}

Inside(a, b) == b.start < a.start /\ a.end <= b.end
Apart(a, b) == a.end <= b.start \/ b.end <= a.start

\* Frames nest like calls do: of any two, one lies within the other or they do
\* not overlap, no two start at the same instruction, and none is empty.
FramesNest ==
  \A a \in Frames :
    /\ a.start < a.end
    /\ \A b \in Frames : a = b \/ Apart(a, b) \/ Inside(a, b) \/ Inside(b, a)

\* Nothing spans a hole in the stream: a frame ends where it meets a boundary
\* (frames.py:121-126), so no call or return is inferred across one.
NothingSpansAHole ==
  \A a \in Frames, b \in breaks : ~(a.start < b /\ b < a.end)

\* However the stream calls and returns, the nesting stays within max_depth and
\* the levels, and with them FrameResult.max_depth, between MIN_LEVEL and
\* max_depth - 1 (frames.py:32-39).
LevelsBounded ==
  /\ Len(stack) <= MaxDepth
  /\ \A a \in Frames : a.level \in MinLevel .. (MaxDepth - 1)
===============================================================================
