------------------------------ MODULE BoundedTail ------------------------------
(***************************************************************************)
(* What a TraceStore promises to a caller that only sees it as a sequence  *)
(* of program counters: it holds the newest part of what was appended,     *)
(* minus what the caller cut off the end, forgets from the oldest end      *)
(* only, only when the bound forces it, and counts what it forgot.         *)
(* Blocks do not appear here.                                              *)
(***************************************************************************)
EXTENDS Integers, Sequences

CONSTANTS
  Capacity,     \* the bound, in instructions
  MaxWindow,    \* the longest window a caller appends
  MaxFed        \* serials are below this

VARIABLES
  kept,         \* the serials held, oldest first
  forgotten     \* how many were forgotten to keep the bound

Run(first, n) == [i \in 1 .. n |-> first + i - 1]

TailInit ==
  /\ kept = <<>>
  /\ forgotten = 0

\* The caller appends w; the oldest d instructions make room.  If that is not
\* enough, w is all that remains, even when w alone exceeds the bound.
Put(w) ==
  LET all == kept \o w
  IN  \E d \in 0 .. Len(kept) :
        /\ Len(all) <= Capacity => d = 0
        /\ Len(all) - d <= Capacity \/ d = Len(kept)
        /\ kept' = SubSeq(all, d + 1, Len(all))
        /\ forgotten' = forgotten + d

\* The caller keeps the oldest count instructions.
Cut(count) ==
  /\ count < Len(kept)
  /\ kept' = SubSeq(kept, 1, count)
  /\ UNCHANGED forgotten

TailNext ==
  \/ \E first \in 0 .. MaxFed, n \in 0 .. MaxWindow : Put(Run(first, n))
  \/ \E count \in 0 .. MaxFed : Cut(count)

TailSpec == TailInit /\ [][TailNext]_<<kept, forgotten>>
===============================================================================
