---------------------------- MODULE CallFramesProofs ----------------------------
(***************************************************************************)
(* Theorems about build_call_frames on every stream, of any length, for    *)
(* every set of functions, depth cap and level floor.                      *)
(* On the stream of a program that calls and returns, what is found is     *)
(* compared with the calls that were made.                                 *)
(***************************************************************************)
EXTENDS CalledProgram, SequenceTheorems, TLAPS

(***************************************************************************)
(* The nesting of the frames rests on the stack: its frames start in       *)
(* ascending order, and a closed frame lies wholly before or wholly after  *)
(* the start of each open one.  The levels rest on the position: a frame   *)
(* at depth p of the stack has a level below p.                            *)
(***************************************************************************)
ClosedFrame ==
  [fn : Fns \cup {Unknown}, level : Int, start : Nat, end : Nat,
   openAtStart : BOOLEAN, openAtEnd : BOOLEAN]

StackInv ==
  /\ index \in Nat
  /\ stack \in Seq(Open)
  /\ Len(stack) <= MaxDepth
  /\ \A p \in 1 .. Len(stack) :
       /\ stack[p].start < index
       /\ MinLevel <= stack[p].level /\ stack[p].level < p
  /\ \A p, q \in 1 .. Len(stack) : p < q => stack[p].start < stack[q].start

ClosedInv ==
  /\ closed \subseteq ClosedFrame
  /\ \A c \in closed :
       /\ c.start < c.end /\ c.end <= index
       /\ MinLevel <= c.level /\ c.level < MaxDepth
       /\ \A p \in 1 .. Len(stack) : c.end <= stack[p].start \/ stack[p].start < c.start
  /\ \A c, d \in closed : c = d \/ Apart(c, d) \/ Inside(c, d) \/ Inside(d, c)

BreaksInv ==
  /\ breaks \subseteq Nat
  /\ \A b \in breaks :
       /\ b < index
       /\ \A c \in closed : ~(c.start < b /\ b < c.end)
       /\ \A p \in 1 .. Len(stack) : b <= stack[p].start

FramesInv ==
  /\ StackInv
  /\ ClosedInv
  /\ BreaksInv
  /\ finished \in BOOLEAN
  /\ stream \in Seq([fn : Fns \cup {Unknown}, entry : BOOLEAN])
  /\ Len(stream) = index
  /\ index > 0 /\ ~finished => stack # <<>>

(***************************************************************************)
(* Every step keeps a prefix of k frames, closes the others, all of them   *)
(* as returned or all of them as not, and may open one frame on top; a     *)
(* boundary keeps none.                                                    *)
(***************************************************************************)
Steps(k, o) ==
  /\ index' \in {index, index + 1}
  /\ stack' \in Seq(Open)
  /\ \A p \in 1 .. k : stack'[p] = stack[p]
  /\ \/ Len(stack') = k
     \/ /\ Len(stack') = k + 1
        /\ k < MaxDepth
        /\ index' = index + 1
        /\ stack'[k + 1].start = index
        /\ MinLevel <= stack'[k + 1].level /\ stack'[k + 1].level <= k
  /\ closed' = closed \cup {Closed(stack[q], o) : q \in (k + 1) .. Len(stack)}
  /\ \/ breaks' = breaks
     \/ k = 0 /\ index' = index + 1 /\ breaks' = breaks \cup {index}

LEMMA StepKeepsStack ==
  ASSUME StackInv, NEW k \in 0 .. Len(stack), NEW o \in BOOLEAN, Steps(k, o)
  PROVE  StackInv'
<1>1. /\ index \in Nat /\ index' \in Nat /\ index <= index'
      /\ Len(stack) \in Nat /\ k \in Nat /\ k <= Len(stack)
      /\ MaxDepth \in Nat /\ Len(stack) <= MaxDepth
      /\ stack' \in Seq(Open) /\ Len(stack') \in Nat
  BY FramesAssumption DEF StackInv, Steps
<1>2. Len(stack') <= MaxDepth
  BY <1>1 DEF Steps
<1>3. \A p \in 1 .. Len(stack') : stack'[p].start \in Nat /\ stack'[p].level \in Int
  <2>1. \A p \in 1 .. Len(stack') : stack'[p] \in Open
    BY <1>1
  <2> QED
    BY <2>1 DEF Open
<1>4. ASSUME NEW p \in 1 .. Len(stack')
      PROVE  \/ p \in 1 .. k /\ p \in 1 .. Len(stack) /\ stack'[p] = stack[p]
             \/ /\ p = k + 1 /\ index' = index + 1 /\ stack'[p].start = index
                /\ MinLevel <= stack'[p].level /\ stack'[p].level <= k
  <2>1. CASE p <= k
    BY <1>1, <2>1 DEF Steps
  <2>2. CASE ~(p <= k)
    <3>1. p = k + 1 /\ Len(stack') = k + 1
      BY <1>1, <2>2 DEF Steps
    <3> QED
      BY <3>1, <1>1 DEF Steps
  <2> QED
    BY <2>1, <2>2
<1>5. ASSUME NEW p \in 1 .. Len(stack')
      PROVE  /\ stack'[p].start < index'
             /\ MinLevel <= stack'[p].level /\ stack'[p].level < p
  <2>1. CASE p \in 1 .. Len(stack) /\ stack'[p] = stack[p]
    <3>1. /\ stack[p].start < index
          /\ MinLevel <= stack[p].level /\ stack[p].level < p
      BY <2>1 DEF StackInv
    <3> QED
      BY <3>1, <2>1, <1>1, <1>3
  <2>2. CASE /\ p = k + 1 /\ index' = index + 1 /\ stack'[p].start = index
             /\ MinLevel <= stack'[p].level /\ stack'[p].level <= k
    BY <2>2, <1>1, <1>3
  <2> QED
    BY <1>4, <2>1, <2>2
<1>6. ASSUME NEW p \in 1 .. Len(stack'), NEW q \in 1 .. Len(stack'), p < q
      PROVE  stack'[p].start < stack'[q].start
  <2>1. p \in 1 .. k /\ p \in 1 .. Len(stack) /\ stack'[p] = stack[p]
    BY <1>1, <1>4, <1>6 DEF Steps
  <2>2. CASE q \in 1 .. Len(stack) /\ stack'[q] = stack[q]
    BY <2>1, <2>2, <1>6 DEF StackInv
  <2>3. CASE q = k + 1 /\ stack'[q].start = index
    BY <2>1, <2>3 DEF StackInv
  <2> QED
    BY <1>4, <2>2, <2>3
<1> QED
  BY <1>1, <1>2, <1>5, <1>6 DEF StackInv

(***************************************************************************)
(* The frames a step closes, against each other and against the rest.      *)
(***************************************************************************)
LEMMA ClosingFrame ==
  ASSUME StackInv, NEW q \in 1 .. Len(stack), NEW o \in BOOLEAN
  PROVE  /\ Closed(stack[q], o) \in ClosedFrame
         /\ Closed(stack[q], o).start = stack[q].start
         /\ Closed(stack[q], o).end = index
         /\ Closed(stack[q], o).level = stack[q].level
         /\ stack[q].start \in Nat /\ stack[q].level \in Int
         /\ stack[q].start < index
         /\ MinLevel <= stack[q].level /\ stack[q].level < MaxDepth
<1>1. stack[q] \in Open /\ index \in Nat
  BY DEF StackInv
<1>2. Closed(stack[q], o) \in ClosedFrame
  BY <1>1 DEF Closed, ClosedFrame, Open
<1>3. stack[q].start \in Nat /\ stack[q].level \in Int
  BY <1>1 DEF Open
<1>4. /\ stack[q].start < index
      /\ MinLevel <= stack[q].level /\ stack[q].level < q
      /\ q \in Nat /\ q <= Len(stack) /\ Len(stack) \in Nat /\ Len(stack) <= MaxDepth
  BY DEF StackInv
<1>5. stack[q].level < MaxDepth
  BY <1>3, <1>4, FramesAssumption
<1> QED
  BY <1>2, <1>3, <1>4, <1>5 DEF Closed

LEMMA StepKeepsClosed ==
  ASSUME StackInv, StackInv', ClosedInv,
         NEW k \in 0 .. Len(stack), NEW o \in BOOLEAN, Steps(k, o)
  PROVE  ClosedInv'
<1> DEFINE Goes(c) == \E q \in (k + 1) .. Len(stack) :
                        q \in 1 .. Len(stack) /\ c = Closed(stack[q], o)
<1>1. /\ index \in Nat /\ index' \in Nat /\ index <= index'
      /\ Len(stack) \in Nat /\ Len(stack') \in Nat /\ k \in Nat
      /\ MinLevel \in Int /\ MaxDepth \in Nat
  BY FramesAssumption DEF StackInv, Steps, MinLevel
<1>2. ASSUME NEW c \in closed'
      PROVE  c \in closed \/ Goes(c)
  <2>1. \A q \in (k + 1) .. Len(stack) : q \in 1 .. Len(stack)
    BY <1>1
  <2> QED
    BY <2>1 DEF Steps
<1>3. ASSUME NEW c \in closed
      PROVE  /\ c.start \in Nat /\ c.end \in Nat /\ c.level \in Int
             /\ c.start < c.end /\ c.end <= index
             /\ MinLevel <= c.level /\ c.level < MaxDepth
             /\ c \in ClosedFrame
  <2>1. c \in ClosedFrame
    BY DEF ClosedInv
  <2>2. c.start \in Nat /\ c.end \in Nat /\ c.level \in Int
    BY <2>1 DEF ClosedFrame
  <2> QED
    BY <2>1, <2>2 DEF ClosedInv
<1>4. ASSUME NEW c \in closed'
      PROVE  /\ c \in ClosedFrame
             /\ c.start \in Nat /\ c.end \in Nat
             /\ c.start < c.end /\ c.end <= index'
             /\ MinLevel <= c.level /\ c.level < MaxDepth
  <2>1. CASE c \in closed
    BY <2>1, <1>1, <1>3
  <2>2. CASE Goes(c)
    <3>1. PICK q \in 1 .. Len(stack) : c = Closed(stack[q], o)
      BY <2>2
    <3> QED
      BY <3>1, <1>1, ClosingFrame
  <2> QED
    BY <1>2, <2>1, <2>2
<1>5. ASSUME NEW c \in closed', NEW p \in 1 .. Len(stack')
      PROVE  c.end <= stack'[p].start \/ stack'[p].start < c.start
  <2>1. \/ p \in 1 .. k /\ p \in 1 .. Len(stack) /\ stack'[p] = stack[p]
        \/ p = k + 1 /\ stack'[p].start = index
    <3>1. CASE p <= k
      BY <3>1, <1>1 DEF Steps
    <3>2. CASE ~(p <= k)
      <4>1. p = k + 1 /\ Len(stack') = k + 1
        BY <3>2, <1>1 DEF Steps
      <4> QED
        BY <4>1, <1>1 DEF Steps
    <3> QED
      BY <3>1, <3>2
  <2>2. CASE c \in closed
    <3>1. CASE p \in 1 .. Len(stack) /\ stack'[p] = stack[p]
      BY <2>2, <3>1 DEF ClosedInv
    <3>2. CASE stack'[p].start = index
      BY <2>2, <3>2, <1>3
    <3> QED
      BY <2>1, <3>1, <3>2
  <2>3. CASE Goes(c)
    <3>1. PICK q \in (k + 1) .. Len(stack) : q \in 1 .. Len(stack) /\ c = Closed(stack[q], o)
      BY <2>3
    <3>2. c.start = stack[q].start /\ c.end = index
      BY <3>1, ClosingFrame
    <3>3. CASE p \in 1 .. k /\ p \in 1 .. Len(stack) /\ stack'[p] = stack[p]
      <4>1. p < q
        BY <3>1, <3>3, <1>1
      <4>2. stack[p].start < stack[q].start
        BY <4>1, <3>1, <3>3 DEF StackInv
      <4> QED
        BY <4>2, <3>2, <3>3
    <3>4. CASE stack'[p].start = index
      BY <3>2, <3>4, <1>1
    <3> QED
      BY <2>1, <3>3, <3>4
  <2> QED
    BY <1>2, <2>2, <2>3
<1>6. ASSUME NEW c \in closed, NEW q \in 1 .. Len(stack)
      PROVE  Apart(c, Closed(stack[q], o)) \/ Inside(c, Closed(stack[q], o))
  <2>1. c.end <= stack[q].start \/ stack[q].start < c.start
    BY DEF ClosedInv
  <2>2. c.end <= index
    BY <1>3
  <2> QED
    BY <2>1, <2>2, ClosingFrame DEF Apart, Inside
<1>7. ASSUME NEW p \in 1 .. Len(stack), NEW q \in 1 .. Len(stack), p < q
      PROVE  Inside(Closed(stack[q], o), Closed(stack[p], o))
  <2>1. stack[p].start < stack[q].start
    BY <1>7 DEF StackInv
  <2> QED
    BY <2>1, <1>1, ClosingFrame DEF Inside
<1>8. ASSUME NEW c \in closed', NEW d \in closed'
      PROVE  c = d \/ Apart(c, d) \/ Inside(c, d) \/ Inside(d, c)
  <2>1. CASE c \in closed /\ d \in closed
    BY <2>1 DEF ClosedInv
  <2>2. CASE c \in closed /\ Goes(d)
    BY <2>2, <1>6
  <2>3. CASE Goes(c) /\ d \in closed
    <3>1. Apart(d, c) \/ Inside(d, c)
      BY <2>3, <1>6
    <3> QED
      BY <3>1 DEF Apart
  <2>4. CASE Goes(c) /\ Goes(d)
    <3>1. PICK p \in 1 .. Len(stack) : c = Closed(stack[p], o)
      BY <2>4
    <3>2. PICK q \in 1 .. Len(stack) : d = Closed(stack[q], o)
      BY <2>4
    <3>3. p < q \/ q < p \/ p = q
      BY <1>1
    <3>4. CASE p = q
      BY <3>1, <3>2, <3>4
    <3>5. CASE p < q
      BY <3>1, <3>2, <3>5, <1>7
    <3>6. CASE q < p
      BY <3>1, <3>2, <3>6, <1>7
    <3> QED
      BY <3>3, <3>4, <3>5, <3>6
  <2> QED
    BY <1>2, <2>1, <2>2, <2>3, <2>4
<1> QED
  BY <1>4, <1>5, <1>8 DEF ClosedInv

LEMMA StepKeepsBreaks ==
  ASSUME StackInv, StackInv', ClosedInv, ClosedInv', BreaksInv,
         NEW k \in 0 .. Len(stack), NEW o \in BOOLEAN, Steps(k, o)
  PROVE  BreaksInv'
<1>1. /\ index \in Nat /\ index' \in Nat /\ index <= index'
      /\ Len(stack) \in Nat /\ Len(stack') \in Nat /\ k \in Nat
  BY DEF StackInv, Steps
<1>2. breaks' \subseteq Nat
  BY <1>1 DEF BreaksInv, Steps
<1>3. ASSUME NEW b \in breaks'
      PROVE  \/ b \in breaks
             \/ b = index /\ k = 0 /\ index' = index + 1
  BY DEF Steps
<1>4. ASSUME NEW p \in 1 .. Len(stack')
      PROVE  \/ p \in 1 .. k /\ p \in 1 .. Len(stack) /\ stack'[p] = stack[p]
             \/ stack'[p].start = index
  <2>1. CASE p <= k
    BY <2>1, <1>1 DEF Steps
  <2>2. CASE ~(p <= k)
    <3>1. p = k + 1 /\ Len(stack') = k + 1
      BY <2>2, <1>1 DEF Steps
    <3> QED
      BY <3>1, <1>1 DEF Steps
  <2> QED
    BY <2>1, <2>2
<1>5. ASSUME NEW c \in closed'
      PROVE  \/ c \in closed
             \/ \E q \in 1 .. Len(stack) : c.start = stack[q].start /\ c.end = index
  <2>1. CASE c \in closed
    BY <2>1
  <2>2. CASE ~(c \in closed)
    <3>1. PICK q \in (k + 1) .. Len(stack) : c = Closed(stack[q], o)
      BY <2>2 DEF Steps
    <3>2. q \in 1 .. Len(stack)
      BY <1>1
    <3> QED
      BY <3>1, <3>2, ClosingFrame
  <2> QED
    BY <2>1, <2>2
<1>6. ASSUME NEW b \in breaks
      PROVE  /\ b < index'
             /\ \A c \in closed' : ~(c.start < b /\ b < c.end)
             /\ \A p \in 1 .. Len(stack') : b <= stack'[p].start
  <2>1. b \in Nat /\ b < index
    BY DEF BreaksInv
  <2>2. ASSUME NEW c \in closed'
        PROVE  ~(c.start < b /\ b < c.end)
    <3>1. CASE c \in closed
      BY <3>1 DEF BreaksInv
    <3>2. ASSUME NEW q \in 1 .. Len(stack), c.start = stack[q].start
          PROVE  ~(c.start < b /\ b < c.end)
      <4>1. b <= stack[q].start
        BY DEF BreaksInv
      <4>2. stack[q].start \in Nat
        BY ClosingFrame
      <4> QED
        BY <4>1, <4>2, <3>2, <2>1
    <3> QED
      BY <1>5, <3>1, <3>2
  <2>3. ASSUME NEW p \in 1 .. Len(stack')
        PROVE  b <= stack'[p].start
    <3>1. CASE p \in 1 .. Len(stack) /\ stack'[p] = stack[p]
      BY <3>1 DEF BreaksInv
    <3>2. CASE stack'[p].start = index
      BY <3>2, <2>1, <1>1
    <3> QED
      BY <1>4, <3>1, <3>2
  <2> QED
    BY <2>1, <2>2, <2>3, <1>1
<1>7. ASSUME NEW b \in breaks', b = index, k = 0, index' = index + 1
      PROVE  /\ b < index'
             /\ \A c \in closed' : ~(c.start < b /\ b < c.end)
             /\ \A p \in 1 .. Len(stack') : b <= stack'[p].start
  <2>1. ASSUME NEW c \in closed'
        PROVE  ~(b < c.end)
    <3>1. CASE c \in closed
      <4>1. c.end <= index /\ c \in ClosedFrame
        BY <3>1 DEF ClosedInv
      <4>2. c.end \in Nat
        BY <4>1 DEF ClosedFrame
      <4> QED
        BY <4>1, <4>2, <1>7, <1>1
    <3>2. CASE c.end = index
      BY <3>2, <1>7, <1>1
    <3> QED
      BY <1>5, <3>1, <3>2
  <2>2. ASSUME NEW p \in 1 .. Len(stack')
        PROVE  b <= stack'[p].start
    <3>1. stack'[p].start = index
      BY <1>4, <1>7, <1>1
    <3> QED
      BY <3>1, <1>7, <1>1
  <2> QED
    BY <2>1, <2>2, <1>7, <1>1
<1> QED
  BY <1>2, <1>3, <1>6, <1>7 DEF BreaksInv

(***************************************************************************)
(* Every action is such a step.                                            *)
(***************************************************************************)
LEMMA FirstFrameSteps ==
  ASSUME StackInv,
         NEW f \in Fns \cup {Unknown}, NEW entry \in BOOLEAN, NEW brk \in BOOLEAN,
         FirstFrame(f, entry, brk)
  PROVE  Steps(0, TRUE) /\ stack' # <<>>
<1> DEFINE fr == Opened(f, 0, TRUE)
<1>1. /\ index \in Nat /\ index' = index + 1
      /\ MaxDepth \in Nat /\ MaxDepth # 0 /\ MinLevel <= 0
      /\ stack' = <<fr>>
      /\ stack \in Seq(Open)
  BY FramesAssumption DEF FirstFrame, Observed, StackInv, MinLevel
<1>2. fr \in Open /\ fr.start = index /\ fr.level = 0
  BY <1>1 DEF Opened, Open
<1> HIDE DEF fr
<1>3. stack' \in Seq(Open) /\ Len(stack') = 1 /\ stack'[1] = fr
  BY <1>1, <1>2
<1>4. closed' = closed \cup {Closed(stack[q], TRUE) : q \in 1 .. Len(stack)}
  <2>1. CASE brk
    BY <2>1 DEF FirstFrame, ClosedAfter
  <2>2. CASE ~brk
    <3>1. stack = <<>>
      BY <2>2 DEF FirstFrame, StackAfter
    <3>2. 1 .. Len(stack) = {}
      BY <3>1
    <3>3. closed' = closed
      BY <2>2 DEF FirstFrame, ClosedAfter
    <3> QED
      BY <3>2, <3>3
  <2> QED
    BY <2>1, <2>2
<1>5. breaks' = breaks \/ breaks' = breaks \cup {index}
  BY DEF FirstFrame, Observed
<1>6. stack' # <<>>
  BY <1>1
<1> QED
  <2>1. /\ \A p \in 1 .. 0 : stack'[p] = stack[p]
        /\ Len(stack') = 0 + 1 /\ stack'[0 + 1] = fr
    BY <1>3
  <2>2. closed' = closed \cup {Closed(stack[q], TRUE) : q \in (0 + 1) .. Len(stack)}
    BY <1>4
  <2> QED
    BY <2>1, <2>2, <1>1, <1>2, <1>3, <1>5, <1>6 DEF Steps

\* Past the first frame there is no boundary: it would have emptied the stack.
LEMMA NoBoundary ==
  ASSUME StackInv, NEW f, NEW entry, NEW brk \in BOOLEAN,
         Observed(f, entry, brk), StackAfter(brk) # <<>>
  PROVE  /\ StackAfter(brk) = stack /\ ClosedAfter(brk) = closed
         /\ breaks' = breaks
         /\ index \in Nat /\ index' = index + 1
         /\ stack # <<>> /\ stack \in Seq(Open)
         /\ Len(stack) \in Nat /\ Len(stack) >= 1
         /\ MaxDepth \in Nat /\ Len(stack) <= MaxDepth
         /\ MinLevel \in Int
         /\ Top(stack) = stack[Len(stack)]
         /\ Top(stack).level \in Int
         /\ MinLevel <= Top(stack).level /\ Top(stack).level < Len(stack)
<1>1. /\ ~brk /\ StackAfter(brk) = stack /\ ClosedAfter(brk) = closed
      /\ stack # <<>>
  BY DEF StackAfter, ClosedAfter
<1>2. breaks' = breaks /\ index' = index + 1
  BY <1>1 DEF Observed
<1>3. /\ index \in Nat /\ stack \in Seq(Open)
      /\ MaxDepth \in Nat /\ Len(stack) <= MaxDepth
      /\ MinLevel \in Int
  BY FramesAssumption DEF StackInv, MinLevel
<1>4. Len(stack) \in Nat /\ Len(stack) >= 1
  BY <1>1, <1>3
<1>5. /\ Len(stack) \in 1 .. Len(stack)
      /\ stack[Len(stack)] \in Open
  BY <1>3, <1>4
<1>6. stack[Len(stack)].level \in Int
  BY <1>5 DEF Open
<1>7. MinLevel <= stack[Len(stack)].level /\ stack[Len(stack)].level < Len(stack)
  BY <1>5 DEF StackInv
<1> QED
  BY <1>1, <1>2, <1>3, <1>4, <1>6, <1>7 DEF Top

\* Nothing opens and nothing closes.
LEMMA KeepingSteps ==
  ASSUME StackInv, index' = index + 1, stack' = stack, closed' = closed,
         breaks' = breaks
  PROVE  Steps(Len(stack), FALSE)
<1>1. Len(stack) \in Nat /\ stack \in Seq(Open)
  BY DEF StackInv
<1>2. (Len(stack) + 1) .. Len(stack) = {}
  BY <1>1
<1>3. closed' = closed \cup {Closed(stack[q], FALSE) : q \in (Len(stack) + 1) .. Len(stack)}
  BY <1>2
<1> QED
  BY <1>1, <1>3 DEF Steps

LEMMA CallSteps ==
  ASSUME StackInv,
         NEW f \in Fns \cup {Unknown}, NEW entry \in BOOLEAN, NEW brk \in BOOLEAN,
         Call(f, entry, brk)
  PROVE  Steps(Len(stack), FALSE) /\ stack' # <<>>
<1> DEFINE fr == Opened(f, Top(stack).level + 1, FALSE)
<1>1. Observed(f, entry, brk) /\ StackAfter(brk) # <<>>
  BY DEF Call
<1>2. /\ StackAfter(brk) = stack /\ ClosedAfter(brk) = closed
      /\ breaks' = breaks
      /\ index \in Nat /\ index' = index + 1
      /\ stack \in Seq(Open)
      /\ Len(stack) \in Nat /\ Len(stack) >= 1
      /\ MaxDepth \in Nat /\ MinLevel \in Int
      /\ Top(stack).level \in Int
      /\ MinLevel <= Top(stack).level /\ Top(stack).level < Len(stack)
  BY <1>1, NoBoundary
<1>3. Len(stack) < MaxDepth /\ stack' = Append(stack, fr) /\ closed' = closed
  BY <1>2 DEF Call
<1>4. fr \in Open /\ fr.start = index /\ fr.level = Top(stack).level + 1
  BY <1>2 DEF Opened, Open
<1> HIDE DEF fr
<1>5. /\ stack' \in Seq(Open) /\ Len(stack') = Len(stack) + 1
      /\ \A p \in 1 .. Len(stack) : stack'[p] = stack[p]
      /\ stack'[Len(stack) + 1] = fr
  BY <1>2, <1>3, <1>4
<1>6. MinLevel <= fr.level /\ fr.level <= Len(stack)
  BY <1>2, <1>4
<1>7. (Len(stack) + 1) .. Len(stack) = {}
  BY <1>2
<1>8. closed' = closed \cup {Closed(stack[q], FALSE) : q \in (Len(stack) + 1) .. Len(stack)}
  BY <1>3, <1>7
<1>9. stack' # <<>>
  BY <1>2, <1>5
<1> QED
  BY <1>2, <1>3, <1>4, <1>5, <1>6, <1>8, <1>9 DEF Steps

LEMMA ReturnSteps ==
  ASSUME StackInv,
         NEW f \in Fns \cup {Unknown}, NEW entry \in BOOLEAN, NEW brk \in BOOLEAN,
         Return(f, entry, brk)
  PROVE  \E k \in 0 .. Len(stack) : Steps(k, FALSE) /\ stack' # <<>>
<1>1. Observed(f, entry, brk) /\ StackAfter(brk) # <<>>
  BY DEF Return
<1>2. /\ StackAfter(brk) = stack /\ ClosedAfter(brk) = closed
      /\ breaks' = breaks
      /\ index \in Nat /\ index' = index + 1
      /\ stack \in Seq(Open) /\ Len(stack) \in Nat
  BY <1>1, NoBoundary
<1>a. PICK p \in Ancestors(f, StackAfter(brk)) :
        /\ stack' = SubSeq(StackAfter(brk), 1, p)
        /\ closed' = ClosedAfter(brk) \cup
             {Closed(StackAfter(brk)[q], FALSE) : q \in (p + 1) .. Len(StackAfter(brk))}
  BY DEF Return
<1>3. /\ stack' = SubSeq(stack, 1, p)
      /\ closed' = closed \cup {Closed(stack[q], FALSE) : q \in (p + 1) .. Len(stack)}
  BY <1>a, <1>2
<1>4. p \in 1 .. Len(stack)
  BY <1>2 DEF Ancestors
<1>5. /\ stack' \in Seq(Open) /\ Len(stack') = p
      /\ \A i \in 1 .. p : stack'[i] = stack[i]
  BY <1>2, <1>3, <1>4, SubSeqProperties
<1>6. stack' # <<>> /\ p \in 0 .. Len(stack)
  BY <1>4, <1>5, <1>2
<1> QED
  BY <1>2, <1>3, <1>5, <1>6 DEF Steps

LEMMA ReturnUnseenSteps ==
  ASSUME StackInv,
         NEW f \in Fns \cup {Unknown}, NEW entry \in BOOLEAN, NEW brk \in BOOLEAN,
         ReturnUnseen(f, entry, brk)
  PROVE  Steps(Len(stack) - 1, FALSE) /\ stack' # <<>>
<1> DEFINE k == Len(stack) - 1
           kept == SubSeq(stack, 1, k)
           level == LevelBelow(Top(stack).level)
           fr == Opened(f, level, TRUE)
<1>1. Observed(f, entry, brk) /\ StackAfter(brk) # <<>>
  BY DEF ReturnUnseen
<1>2. /\ StackAfter(brk) = stack /\ ClosedAfter(brk) = closed
      /\ breaks' = breaks
      /\ index \in Nat /\ index' = index + 1
      /\ stack \in Seq(Open)
      /\ Len(stack) \in Nat /\ Len(stack) >= 1
      /\ MaxDepth \in Nat /\ Len(stack) <= MaxDepth /\ MinLevel \in Int
      /\ Top(stack) = stack[Len(stack)]
      /\ Top(stack).level \in Int
      /\ MinLevel <= Top(stack).level /\ Top(stack).level < Len(stack)
  BY <1>1, NoBoundary
<1>3. stack' = Append(kept, fr) /\ closed' = closed \cup {Closed(stack[Len(stack)], FALSE)}
  BY <1>2 DEF ReturnUnseen
<1>4. level \in Int /\ MinLevel <= level /\ level <= k
  <2>1. MinLevel <= 0
    BY FramesAssumption DEF MinLevel
  <2>2. CASE Top(stack).level - 1 < MinLevel
    BY <2>1, <2>2, <1>2 DEF LevelBelow
  <2>3. CASE ~(Top(stack).level - 1 < MinLevel)
    BY <2>3, <1>2 DEF LevelBelow
  <2> QED
    BY <2>2, <2>3
<1>5. fr \in Open /\ fr.start = index /\ fr.level = level
  <2> HIDE DEF level
  <2> QED
    BY <1>2, <1>4 DEF Opened, Open
<1>6. k \in Nat /\ k < MaxDepth /\ k + 1 = Len(stack)
  BY <1>2
<1>7. /\ kept \in Seq(Open) /\ Len(kept) = k
      /\ \A i \in 1 .. k : kept[i] = stack[i]
  BY <1>2, <1>6, SubSeqProperties
<1>8. {Closed(stack[q], FALSE) : q \in (k + 1) .. Len(stack)} = {Closed(stack[Len(stack)], FALSE)}
  <2>1. (k + 1) .. Len(stack) = {Len(stack)}
    BY <1>2, <1>6
  <2> QED
    BY <2>1
<1> HIDE DEF fr, kept, level, k
<1>9. /\ stack' \in Seq(Open) /\ Len(stack') = k + 1
      /\ \A i \in 1 .. k : stack'[i] = stack[i]
      /\ stack'[k + 1] = fr
  BY <1>3, <1>5, <1>6, <1>7
<1>10. stack' # <<>>
  BY <1>6, <1>9
<1>11. Steps(k, FALSE)
  BY <1>2, <1>3, <1>4, <1>5, <1>6, <1>8, <1>9 DEF Steps
<1> QED
  BY <1>10, <1>11 DEF k

LEMMA ObserveSteps ==
  ASSUME StackInv,
         NEW f \in Fns \cup {Unknown}, NEW entry \in BOOLEAN, NEW brk \in BOOLEAN,
         Observe(f, entry, brk)
  PROVE  /\ Observed(f, entry, brk)
         /\ stack' # <<>>
         /\ \E k \in 0 .. Len(stack), o \in BOOLEAN : Steps(k, o)
<1>1. Len(stack) \in Nat
  BY DEF StackInv
<1>2. CASE FirstFrame(f, entry, brk)
  <2>1. Steps(0, TRUE) /\ stack' # <<>>
    BY <1>2, FirstFrameSteps
  <2>2. 0 \in 0 .. Len(stack)
    BY <1>1
  <2>3. Observed(f, entry, brk)
    BY <1>2 DEF FirstFrame
  <2> QED
    BY <2>1, <2>2, <2>3
<1>3. CASE SameFrame(f, entry, brk) \/ CappedCall(f, entry, brk)
  <2>1. Observed(f, entry, brk) /\ StackAfter(brk) # <<>>
    BY <1>3 DEF SameFrame, CappedCall
  <2>2. /\ stack # <<>> /\ index' = index + 1 /\ breaks' = breaks
        /\ StackAfter(brk) = stack /\ ClosedAfter(brk) = closed
    BY <2>1, NoBoundary
  <2>3. stack' = stack /\ closed' = closed
    BY <1>3, <2>2 DEF SameFrame, CappedCall
  <2>4. Steps(Len(stack), FALSE)
    BY <2>2, <2>3, KeepingSteps
  <2>5. Len(stack) \in 0 .. Len(stack)
    BY <1>1
  <2> QED
    BY <2>1, <2>2, <2>3, <2>4, <2>5
<1>4. CASE Call(f, entry, brk)
  <2>1. Steps(Len(stack), FALSE) /\ stack' # <<>>
    BY <1>4, CallSteps
  <2>2. Len(stack) \in 0 .. Len(stack)
    BY <1>1
  <2>3. Observed(f, entry, brk)
    BY <1>4 DEF Call
  <2> QED
    BY <2>1, <2>2, <2>3
<1>5. CASE Return(f, entry, brk)
  <2>1. Observed(f, entry, brk)
    BY <1>5 DEF Return
  <2> QED
    BY <2>1, <1>5, ReturnSteps
<1>6. CASE ReturnUnseen(f, entry, brk)
  <2>1. Steps(Len(stack) - 1, FALSE) /\ stack' # <<>>
    BY <1>6, ReturnUnseenSteps
  <2>2. Observed(f, entry, brk) /\ StackAfter(brk) # <<>>
    BY <1>6 DEF ReturnUnseen
  <2>3. Len(stack) >= 1
    BY <2>2, NoBoundary
  <2>4. Len(stack) - 1 \in 0 .. Len(stack)
    BY <1>1, <2>3
  <2> QED
    BY <2>1, <2>2, <2>4
<1> QED
  BY <1>2, <1>3, <1>4, <1>5, <1>6 DEF Observe

LEMMA FinishSteps ==
  ASSUME StackInv, Finish
  PROVE  Steps(0, TRUE) /\ 0 \in 0 .. Len(stack)
<1>1. index' = index /\ breaks' = breaks /\ stack' = <<>>
  BY DEF Finish
<1>2. closed' = closed \cup {Closed(stack[q], TRUE) : q \in (0 + 1) .. Len(stack)}
  BY DEF Finish
<1>3. stack' \in Seq(Open) /\ Len(stack') = 0 /\ \A p \in 1 .. 0 : stack'[p] = stack[p]
  BY <1>1
<1>4. Len(stack) \in Nat
  BY DEF StackInv
<1> QED
  BY <1>1, <1>2, <1>3, <1>4 DEF Steps

LEMMA FramesInvInit == FramesInit => FramesInv
<1> SUFFICES ASSUME FramesInit PROVE FramesInv
  OBVIOUS
<1>1. /\ index = 0 /\ stack = <<>> /\ closed = {} /\ finished = FALSE
      /\ stream = <<>> /\ breaks = {} /\ MaxDepth \in Nat
  BY FramesAssumption DEF FramesInit
<1>2. Len(stack) = 0 /\ 1 .. Len(stack) = {}
  BY <1>1
<1>3. StackInv
  BY <1>1, <1>2 DEF StackInv
<1>4. ClosedInv /\ BreaksInv
  BY <1>1 DEF ClosedInv, BreaksInv
<1>5. stream \in Seq([fn : Fns \cup {Unknown}, entry : BOOLEAN]) /\ Len(stream) = index
  BY <1>1
<1>6. ~(index > 0)
  BY <1>1
<1> QED
  BY <1>1, <1>3, <1>4, <1>5, <1>6 DEF FramesInv

LEMMA FramesInvNext == FramesInv /\ [FramesNext]_frameVars => FramesInv'
<1> SUFFICES ASSUME FramesInv, [FramesNext]_frameVars
             PROVE  FramesInv'
  OBVIOUS
<1>1. StackInv /\ ClosedInv /\ BreaksInv
  BY DEF FramesInv
<1>2. ASSUME NEW k \in 0 .. Len(stack), NEW o \in BOOLEAN, Steps(k, o)
      PROVE  StackInv' /\ ClosedInv' /\ BreaksInv'
  <2>1. StackInv'
    BY <1>1, <1>2, StepKeepsStack
  <2>2. ClosedInv'
    BY <1>1, <1>2, <2>1, StepKeepsClosed
  <2> QED
    BY <1>1, <1>2, <2>1, <2>2, StepKeepsBreaks
<1>3. ASSUME NEW f \in Fns \cup {Unknown}, NEW entry \in BOOLEAN, NEW brk \in BOOLEAN,
             Observe(f, entry, brk)
      PROVE  FramesInv'
  <2>1. /\ Observed(f, entry, brk) /\ stack' # <<>>
        /\ StackInv' /\ ClosedInv' /\ BreaksInv'
    BY <1>1, <1>2, <1>3, ObserveSteps
  <2>2. /\ index' = index + 1 /\ finished' = finished
        /\ stream' = Append(stream, [fn |-> f, entry |-> entry])
    BY <2>1 DEF Observed
  <2>3. /\ stream' \in Seq([fn : Fns \cup {Unknown}, entry : BOOLEAN])
        /\ Len(stream') = index'
    <3>1. [fn |-> f, entry |-> entry] \in [fn : Fns \cup {Unknown}, entry : BOOLEAN]
      OBVIOUS
    <3>2. stream \in Seq([fn : Fns \cup {Unknown}, entry : BOOLEAN]) /\ Len(stream) = index
      BY DEF FramesInv
    <3> QED
      BY <2>2, <3>1, <3>2, AppendProperties
  <2> QED
    BY <2>1, <2>2, <2>3 DEF FramesInv
<1>4. CASE \E f \in Fns, entry \in BOOLEAN, brk \in BOOLEAN : Observe(f, entry, brk)
  BY <1>3, <1>4
<1>5. CASE \E brk \in BOOLEAN : Observe(Unknown, FALSE, brk)
  BY <1>3, <1>5
<1>6. CASE Finish
  <2>1. StackInv' /\ ClosedInv' /\ BreaksInv'
    BY <1>1, <1>2, <1>6, FinishSteps
  <2>2. finished' = TRUE /\ UNCHANGED <<index, stream>>
    BY <1>6 DEF Finish
  <2> QED
    BY <2>1, <2>2 DEF FramesInv
<1>7. CASE UNCHANGED frameVars
  BY <1>7 DEF frameVars, FramesInv, StackInv, ClosedInv, BreaksInv
<1> QED
  BY <1>4, <1>5, <1>6, <1>7 DEF FramesNext, Done

(***************************************************************************)
(* The theorems                                                            *)
(***************************************************************************)

THEOREM FramesInvariant == FramesSpec => []FramesInv
BY FramesInvInit, FramesInvNext, PTL DEF FramesSpec

\* The open frames, as the properties see them, are as good as closed.
LEMMA FrameOf ==
  ASSUME NEW a \in Frames
  PROVE  a \in closed \/ \E p \in 1 .. Len(stack) : a = Closed(stack[p], TRUE)
BY DEF Frames

\* At any point of any stream, however long, the frames found so far nest.
THEOREM FramesNested == FramesSpec => []FramesNest
<1>1. FramesInv => FramesNest
  <2> SUFFICES ASSUME FramesInv
               PROVE  FramesNest
    OBVIOUS
  <2>1. StackInv /\ ClosedInv /\ index \in Nat
    BY DEF FramesInv, StackInv
  <2>2. ASSUME NEW a \in Frames
        PROVE  a.start < a.end
    <3>1. CASE a \in closed
      BY <2>1, <3>1 DEF ClosedInv
    <3>2. ASSUME NEW p \in 1 .. Len(stack), a = Closed(stack[p], TRUE)
          PROVE  a.start < a.end
      BY <3>2, <2>1, ClosingFrame
    <3> QED
      BY <3>1, <3>2, FrameOf
  <2>3. ASSUME NEW c \in closed, NEW p \in 1 .. Len(stack)
        PROVE  Apart(c, Closed(stack[p], TRUE)) \/ Inside(c, Closed(stack[p], TRUE))
    <3>1. c.end <= stack[p].start \/ stack[p].start < c.start
      BY <2>1 DEF ClosedInv
    <3>2. c.end <= index
      BY <2>1 DEF ClosedInv
    <3>3. Closed(stack[p], TRUE).start = stack[p].start /\ Closed(stack[p], TRUE).end = index
      BY DEF Closed
    <3> QED
      BY <3>1, <3>2, <3>3 DEF Apart, Inside
  <2>4. ASSUME NEW p \in 1 .. Len(stack), NEW q \in 1 .. Len(stack), p < q
        PROVE  Inside(Closed(stack[q], TRUE), Closed(stack[p], TRUE))
    <3> DEFINE outer == Closed(stack[p], TRUE)
               inner == Closed(stack[q], TRUE)
    <3>1. stack[p].start < stack[q].start
      BY <2>1, <2>4 DEF StackInv
    <3>2. /\ outer.start = stack[p].start /\ inner.start = stack[q].start
          /\ outer.end = index /\ inner.end = index
      BY DEF Closed
    <3> HIDE DEF outer, inner
    <3>3. Inside(inner, outer)
      BY <2>1, <3>1, <3>2 DEF Inside
    <3> QED
      BY <3>3 DEF outer, inner
  <2>5. ASSUME NEW a \in Frames, NEW b \in Frames
        PROVE  a = b \/ Apart(a, b) \/ Inside(a, b) \/ Inside(b, a)
    <3>1. CASE a \in closed /\ b \in closed
      BY <2>1, <3>1 DEF ClosedInv
    <3>2. ASSUME a \in closed, NEW p \in 1 .. Len(stack), b = Closed(stack[p], TRUE)
          PROVE  Apart(a, b) \/ Inside(a, b)
      BY <3>2, <2>3
    <3>3. ASSUME b \in closed, NEW p \in 1 .. Len(stack), a = Closed(stack[p], TRUE)
          PROVE  Apart(a, b) \/ Inside(b, a)
      <4>1. Apart(b, a) \/ Inside(b, a)
        BY <3>3, <2>3
      <4> QED
        BY <4>1 DEF Apart
    <3>4. ASSUME NEW p \in 1 .. Len(stack), a = Closed(stack[p], TRUE),
                 NEW q \in 1 .. Len(stack), b = Closed(stack[q], TRUE)
          PROVE  a = b \/ Inside(a, b) \/ Inside(b, a)
      <4>1. p < q \/ q < p \/ p = q
        BY <2>1 DEF StackInv
      <4> QED
        BY <3>4, <4>1, <2>4
    <3> QED
      BY <3>1, <3>2, <3>3, <3>4, FrameOf
  <2> QED
    BY <2>2, <2>5 DEF FramesNest
<1> QED
  BY <1>1, FramesInvariant, PTL

\* No frame reaches over a hole in the stream, wherever the holes are.
THEOREM HolesRespected == FramesSpec => []NothingSpansAHole
<1>1. FramesInv => NothingSpansAHole
  <2> SUFFICES ASSUME FramesInv, NEW a \in Frames, NEW b \in breaks
               PROVE  ~(a.start < b /\ b < a.end)
    BY DEF NothingSpansAHole
  <2>1. StackInv /\ BreaksInv
    BY DEF FramesInv
  <2>2. CASE a \in closed
    BY <2>1, <2>2 DEF BreaksInv
  <2>3. ASSUME NEW p \in 1 .. Len(stack), a = Closed(stack[p], TRUE)
        PROVE  ~(a.start < b)
    <3>1. b <= stack[p].start /\ b \in Nat
      BY <2>1 DEF BreaksInv
    <3>2. a.start = stack[p].start /\ stack[p].start \in Nat
      BY <2>1, <2>3, ClosingFrame
    <3> QED
      BY <3>1, <3>2
  <2> QED
    BY <2>2, <2>3, FrameOf
<1> QED
  BY <1>1, FramesInvariant, PTL

\* The depth cap and the level floor hold on every stream.
THEOREM LevelsStayBounded == FramesSpec => []LevelsBounded
<1>1. FramesInv => LevelsBounded
  <2> SUFFICES ASSUME FramesInv
               PROVE  LevelsBounded
    OBVIOUS
  <2>1. StackInv /\ ClosedInv
    BY DEF FramesInv
  <2>2. MaxDepth \in Nat /\ MinLevel \in Int
    BY FramesAssumption DEF MinLevel
  <2>3. ASSUME NEW a \in Frames
        PROVE  a.level \in MinLevel .. (MaxDepth - 1)
    <3>1. CASE a \in closed
      <4>1. a \in ClosedFrame /\ MinLevel <= a.level /\ a.level < MaxDepth
        BY <2>1, <3>1 DEF ClosedInv
      <4>2. a.level \in Int
        BY <4>1 DEF ClosedFrame
      <4> QED
        BY <4>1, <4>2, <2>2
    <3>2. ASSUME NEW p \in 1 .. Len(stack), a = Closed(stack[p], TRUE)
          PROVE  a.level \in MinLevel .. (MaxDepth - 1)
      <4>1. /\ a.level = stack[p].level /\ stack[p].level \in Int
            /\ MinLevel <= stack[p].level /\ stack[p].level < MaxDepth
        BY <3>2, <2>1, ClosingFrame
      <4> QED
        BY <4>1, <2>2
    <3> QED
      BY <3>1, <3>2, FrameOf
  <2> QED
    BY <2>1, <2>3 DEF LevelsBounded, StackInv
<1> QED
  BY <1>1, FramesInvariant, PTL

\* The types, and that no instruction is observed without a frame to be in.
THEOREM FramesTypeCorrect == FramesSpec => []FramesTypeOK
<1>1. FramesInv => FramesTypeOK
  <2> SUFFICES ASSUME FramesInv
               PROVE  FramesTypeOK
    OBVIOUS
  <2>1. ASSUME NEW c \in closed
        PROVE  /\ [fn |-> c.fn, level |-> c.level, start |-> c.start,
                   openAtStart |-> c.openAtStart] \in Open
               /\ c.end \in Nat
               /\ c.openAtEnd \in BOOLEAN
    <3>1. c \in ClosedFrame
      BY DEF FramesInv, ClosedInv
    <3> QED
      BY <3>1 DEF ClosedFrame, Open
  <2>2. index \in Nat /\ stack \in Seq(Open) /\ breaks \subseteq Nat
    BY DEF FramesInv, StackInv, BreaksInv
  <2>3. finished \in BOOLEAN /\ Len(stream) = index /\ (index > 0 /\ ~finished => stack # <<>>)
    BY DEF FramesInv
  <2> QED
    BY <2>1, <2>2, <2>3 DEF FramesTypeOK
<1> QED
  BY <1>1, FramesInvariant, PTL

-------------------------------------------------------------------------------
(***************************************************************************)
(* On the stream of a program: what is known of the calls themselves.      *)
(***************************************************************************)
OpenCall == [fn : Fns, since : Int]

CallsInv ==
  /\ calls \in Seq(OpenCall)
  /\ hole \in BOOLEAN
  /\ \A p \in 1 .. Len(calls) : calls[p].since < index
  /\ NestsOnce =>
       \A p \in 1 .. Len(calls), q \in 1 .. Len(calls) : p # q => calls[p].fn # calls[q].fn

LEMMA CallsInvInit == ProgramInit => CallsInv
<1> SUFFICES ASSUME ProgramInit
             PROVE  CallsInv
  OBVIOUS
<1>1. PICK depth \in 0 .. MaxCalls : \E fns \in [1 .. depth -> Fns] :
         /\ NestsOnce => \A p, q \in 1 .. depth : p # q => fns[p] # fns[q]
         /\ calls = [p \in 1 .. depth |-> [fn |-> fns[p], since |-> -1]]
  BY DEF ProgramInit
<1>2. PICK fns \in [1 .. depth -> Fns] :
         /\ NestsOnce => \A p, q \in 1 .. depth : p # q => fns[p] # fns[q]
         /\ calls = [p \in 1 .. depth |-> [fn |-> fns[p], since |-> -1]]
  BY <1>1
<1>3. depth \in Nat
  BY ProgramAssumption
<1>4. \A p \in 1 .. depth : calls[p] = [fn |-> fns[p], since |-> -1] /\ calls[p] \in OpenCall
  BY <1>2 DEF OpenCall
<1>5. calls \in Seq(OpenCall) /\ Len(calls) = depth
  BY <1>2, <1>3, <1>4
<1>6. hole \in BOOLEAN
  BY Zenon DEF ProgramInit
<1>7. index = 0
  BY DEF ProgramInit, FramesInit
<1> QED BY <1>2, <1>4, <1>5, <1>6, <1>7 DEF CallsInv

\* The function a call of the program runs.
LEMMA CallFacts ==
  ASSUME CallsInv
  PROVE  /\ calls \in Seq(OpenCall) /\ Len(calls) \in Nat
         /\ \A p \in 1 .. Len(calls) :
              calls[p] \in OpenCall /\ calls[p].fn \in Fns /\ calls[p].since \in Int
         /\ Known => Len(calls) \in 1 .. Len(calls) /\ Running \in Fns
         /\ Len(calls) > 1 => Len(calls) - 1 \in 1 .. Len(calls)
<1>1. calls \in Seq(OpenCall) /\ Len(calls) \in Nat
  BY DEF CallsInv
<1>2. \A p \in 1 .. Len(calls) : calls[p] \in OpenCall
  BY <1>1
<1>3. \A p \in 1 .. Len(calls) : calls[p].fn \in Fns /\ calls[p].since \in Int
  BY <1>2 DEF OpenCall
<1>4. Known => Len(calls) \in 1 .. Len(calls)
  BY <1>1 DEF Known
<1>5. Known => Running \in Fns
  BY <1>3, <1>4 DEF Running, Top
<1> QED BY <1>1, <1>2, <1>3, <1>4, <1>5

\* An instruction the program retires is one of the stream build_call_frames
\* reads, or none.
LEMMA ProgramStep ==
  ASSUME CallsInv, [ProgramNext]_programVars
  PROVE  [FramesNext]_frameVars
<1>1. hole \in BOOLEAN
  BY DEF CallsInv
<1>2. ASSUME NEW f \in Fns, NEW entry \in BOOLEAN, Seen(f, entry)
      PROVE  FramesNext
  BY <1>1, <1>2 DEF Seen, FramesNext
<1>3. CASE \E f \in Fns : Enter(f)
  BY <1>2, <1>3 DEF Enter, Lost
<1>4. CASE Run
  BY <1>2, <1>4, CallFacts DEF Run, Lost
<1>5. CASE Leave
  BY <1>2, <1>5, CallFacts DEF Leave, Lost
<1>6. CASE \E f \in Fns, entry \in BOOLEAN, brk \in BOOLEAN : Stray(f, entry, brk)
  BY <1>6 DEF Stray, FramesNext
<1>7. CASE \E brk \in BOOLEAN : Stray(Unknown, FALSE, brk)
  BY <1>7 DEF Stray, FramesNext
<1>8. CASE EndOfCapture \/ (Done /\ UNCHANGED <<calls, hole, returned>>)
  BY <1>8 DEF EndOfCapture, FramesNext
<1>9. CASE UNCHANGED programVars
  BY <1>9 DEF programVars
<1> QED BY <1>3, <1>4, <1>5, <1>6, <1>7, <1>8, <1>9 DEF ProgramNext

LEMMA LaterSince ==
  ASSUME CallsInv, index \in Nat, index' \in Nat, index' >= index
  PROVE  \A p \in 1 .. Len(calls) : calls[p].since < index'
BY CallFacts DEF CallsInv

LEMMA SeenOrLost ==
  ASSUME index \in Nat, NEW f, NEW entry, Seen(f, entry) \/ Lost
  PROVE  /\ hole' \in BOOLEAN /\ ~finished
         /\ index' \in Nat /\ index' >= index
         /\ Seen(f, entry) => index' = index + 1 /\ ~finished'
<1>1. hole' = FALSE \/ hole' = TRUE
  BY DEF Seen, Lost
<1>2. hole' \in BOOLEAN
  BY <1>1, Zenon
<1>3. Seen(f, entry) => index' = index + 1 /\ ~finished /\ finished' = finished
  BY DEF Seen, Observe, FirstFrame, SameFrame, Call, CappedCall, Return, ReturnUnseen,
         Observed
<1>4. Lost => index' = index /\ ~finished
  BY DEF Lost, frameVars
<1>5. Seen(f, entry) => ~finished'
  BY <1>3, Zenon
<1> QED BY <1>2, <1>3, <1>4, <1>5

LEMMA NewCall ==
  ASSUME NEW f \in Fns, NEW i \in Int
  PROVE  [fn |-> f, since |-> i] \in OpenCall
BY DEF OpenCall

LEMMA EnterKeepsCalls ==
  ASSUME CallsInv, index \in Nat, NEW f \in Fns, Enter(f)
  PROVE  CallsInv'
<1>1. /\ hole' \in BOOLEAN /\ index' \in Nat /\ index' >= index
      /\ Seen(f, TRUE) => index' = index + 1
  BY SeenOrLost DEF Enter
<1>2. PICK call \in OpenCall : calls' = Append(calls, call) /\ call.fn = f /\ call.since < index'
  <2>1. CASE calls' = Append(calls, [fn |-> f, since |-> -1])
    <3>1. [fn |-> f, since |-> -1] \in OpenCall
      BY DEF OpenCall
    <3> QED BY <1>1, <2>1, <3>1
  <2>2. CASE Seen(f, TRUE) /\ calls' = Append(calls, [fn |-> f, since |-> index])
    <3>1. [fn |-> f, since |-> index] \in OpenCall
      BY DEF OpenCall
    <3> QED BY <1>1, <2>2, <3>1
  <2> QED BY <2>1, <2>2 DEF Enter
<1>3. /\ calls' \in Seq(OpenCall) /\ Len(calls') = Len(calls) + 1
      /\ calls'[Len(calls) + 1] = call
      /\ \A p \in 1 .. Len(calls) : calls'[p] = calls[p]
  BY <1>2, CallFacts, AppendProperties
<1>4. \A p \in 1 .. Len(calls') : p \in 1 .. Len(calls) \/ p = Len(calls) + 1
  BY <1>3, CallFacts
<1>5. \A p \in 1 .. Len(calls') : calls'[p].since < index'
  BY <1>1, <1>2, <1>3, <1>4, LaterSince
<1>6. ASSUME NestsOnce, NEW p \in 1 .. Len(calls'), NEW q \in 1 .. Len(calls'), p # q
      PROVE  calls'[p].fn # calls'[q].fn
  <2>1. \A r \in 1 .. Len(calls) : calls[r].fn # f
    BY <1>6 DEF Enter
  <2> QED BY <1>2, <1>3, <1>4, <1>6, <2>1 DEF CallsInv
<1> QED BY <1>1, <1>3, <1>5, <1>6 DEF CallsInv

LEMMA CallsInvNext ==
  ASSUME CallsInv, StackInv, [ProgramNext]_programVars
  PROVE  CallsInv'
<1>1. index \in Nat
  BY DEF StackInv
<1>2. CASE \E f \in Fns : Enter(f)
  BY <1>1, <1>2, EnterKeepsCalls
<1>3. CASE Run
  <2>1. hole' \in BOOLEAN /\ index' \in Nat /\ index' >= index /\ calls' = calls
    BY <1>1, <1>3, SeenOrLost DEF Run
  <2> QED BY <1>1, <2>1, LaterSince DEF CallsInv
<1>4. CASE Leave
  <2>1. /\ hole' \in BOOLEAN /\ index' \in Nat /\ index' >= index
        /\ Len(calls) > 1 /\ calls' = SubSeq(calls, 1, Len(calls) - 1)
    BY <1>1, <1>4, SeenOrLost DEF Leave
  <2>2. PICK n \in Nat : n = Len(calls) - 1 /\ n <= Len(calls) /\ calls' = SubSeq(calls, 1, n)
    BY <2>1, CallFacts
  <2>3. /\ calls' \in Seq(OpenCall) /\ Len(calls') = n
        /\ \A p \in 1 .. n : calls'[p] = calls[p] /\ p \in 1 .. Len(calls)
    BY <2>1, <2>2, CallFacts
  <2>4. \A p \in 1 .. Len(calls') : calls'[p].since < index'
    BY <1>1, <2>1, <2>3, LaterSince
  <2>5. NestsOnce =>
          \A p \in 1 .. Len(calls'), q \in 1 .. Len(calls') : p # q => calls'[p].fn # calls'[q].fn
    BY <2>3 DEF CallsInv
  <2> QED BY <2>1, <2>3, <2>4, <2>5 DEF CallsInv
<1>5. CASE \/ \E f \in Fns, entry \in BOOLEAN, brk \in BOOLEAN : Stray(f, entry, brk)
           \/ \E brk \in BOOLEAN : Stray(Unknown, FALSE, brk)
  <2>1. calls' = calls /\ hole' = hole /\ calls = <<>>
    BY <1>5 DEF Stray, Known
  <2>2. 1 .. Len(calls') = {}
    BY <2>1
  <2> QED BY <2>1, <2>2 DEF CallsInv
<1>6. CASE EndOfCapture \/ (Done /\ UNCHANGED <<calls, hole, returned>>)
  BY <1>6 DEF EndOfCapture, Finish, Done, frameVars, CallsInv
<1>7. CASE UNCHANGED programVars
  BY <1>7 DEF programVars, frameVars, CallsInv
<1> QED BY <1>2, <1>3, <1>4, <1>5, <1>6, <1>7 DEF ProgramNext

ProgramInv == FramesInv /\ CallsInv

LEMMA ProgramInvariant == ProgramSpec => []ProgramInv
<1>1. ProgramInit => ProgramInv
  BY FramesInvInit, CallsInvInit DEF ProgramInit, ProgramInv
<1>2. ProgramInv /\ [ProgramNext]_programVars => ProgramInv'
  BY ProgramStep, FramesInvNext, CallsInvNext DEF ProgramInv, FramesInv
<1> QED BY <1>1, <1>2, PTL DEF ProgramSpec

\* What a program retires, with holes where the probe lost it, is one of the
\* streams build_call_frames is modelled on: the frames found on it nest, span
\* no hole and keep their levels like those of any other stream.
THEOREM ProgramIsAStream == ProgramSpec => FramesSpec
<1>1. ProgramInit => FramesInit
  BY DEF ProgramInit
<1>2. ProgramInv /\ [ProgramNext]_programVars => [FramesNext]_frameVars
  BY ProgramStep DEF ProgramInv
<1> QED BY <1>1, <1>2, ProgramInvariant, PTL DEF ProgramSpec, FramesSpec

(***************************************************************************)
(* The frames against the calls.  The stack shows the innermost calls, as  *)
(* many as it has frames; what lies further out was entered before the     *)
(* stream was last picked up, or unseen.                                   *)
(***************************************************************************)
Shows(frame, call, seg) ==
  /\ frame.fn = call.fn
  /\ IF call.since > seg THEN frame.start = call.since /\ ~frame.openAtStart
                         ELSE frame.openAtStart

Tracks(frames, open, seg) ==
  /\ Len(frames) <= Len(open)
  /\ \A p \in 1 .. Len(frames) :
       /\ Shows(frames[p], open[Len(open) - Len(frames) + p], seg)
       /\ frames[p].level = frames[1].level + p - 1
  /\ \A p \in 1 .. (Len(open) - Len(frames)) : open[p].since <= seg

TrackInv ==
  /\ SegmentStart \in Nat
  /\ index > 0 => SegmentStart < index
  /\ Watching => Tracks(stack, calls, SegmentStart)
  /\ Known => \A c \in closed :
       ~c.openAtStart /\ ~c.openAtEnd =>
         [fn |-> c.fn, start |-> c.start, end |-> c.end] \in returned

LEMMA TracksFresh ==
  ASSUME NEW open \in Seq(OpenCall), Len(open) >= 1, NEW seg \in Nat, NEW frame \in Open,
         frame.fn = open[Len(open)].fn, frame.openAtStart,
         \A p \in 1 .. Len(open) : open[p].since <= seg
  PROVE  Tracks(<<frame>>, open, seg)
<1>1. Len(open) \in Nat /\ Len(open) \in 1 .. Len(open) /\ open[Len(open)] \in OpenCall
  OBVIOUS
<1>2. open[Len(open)].since \in Int /\ frame.level \in Int
  BY <1>1 DEF OpenCall, Open
<1>3. Shows(frame, open[Len(open)], seg)
  BY <1>1, <1>2 DEF Shows
<1>4. Len(<<frame>>) = 1 /\ <<frame>>[1] = frame /\ Len(open) - 1 + 1 = Len(open)
  BY <1>1
<1>5. \A p \in 1 .. 1 : /\ Shows(<<frame>>[p], open[Len(open) - 1 + p], seg)
                        /\ <<frame>>[p].level = <<frame>>[1].level + p - 1
  <2> SUFFICES ASSUME NEW p \in 1 .. 1
               PROVE  /\ Shows(<<frame>>[p], open[Len(open) - 1 + p], seg)
                      /\ <<frame>>[p].level = <<frame>>[1].level + p - 1
    OBVIOUS
  <2>1. p = 1
    OBVIOUS
  <2>2. frame.level = frame.level + 1 - 1
    BY <1>2
  <2> QED BY <1>3, <1>4, <2>1, <2>2
<1>6. \A p \in 1 .. (Len(open) - 1) : open[p].since <= seg
  BY <1>1
<1> QED BY <1>1, <1>4, <1>5, <1>6 DEF Tracks

LEMMA TracksCall ==
  ASSUME NEW open \in Seq(OpenCall), NEW frames \in Seq(Open), frames # <<>>, NEW seg \in Nat,
         Tracks(frames, open, seg), NEW call \in OpenCall, NEW frame \in Open,
         Shows(frame, call, seg), frame.level = frames[Len(frames)].level + 1
  PROVE  Tracks(Append(frames, frame), Append(open, call), seg)
<1>1. PICK m \in Nat, n \in Nat : m = Len(frames) /\ n = Len(open) /\ m >= 1 /\ m <= n
  <2>1. Len(frames) \in Nat /\ Len(open) \in Nat /\ Len(frames) >= 1
    OBVIOUS
  <2> QED BY <2>1 DEF Tracks
<1>2. PICK fs \in Seq(Open) : fs = Append(frames, frame)
  BY AppendProperties
<1>3. PICK cs \in Seq(OpenCall) : cs = Append(open, call)
  BY AppendProperties
<1>4. /\ Len(fs) = m + 1 /\ fs[m + 1] = frame
      /\ \A p \in 1 .. m : fs[p] = frames[p]
  BY <1>1, <1>2, AppendProperties
<1>5. /\ Len(cs) = n + 1 /\ cs[n + 1] = call
      /\ \A p \in 1 .. n : cs[p] = open[p]
  BY <1>1, <1>3, AppendProperties
<1>6. \A p \in 1 .. m : frames[p] \in Open /\ frames[p].level \in Int
  <2>1. \A p \in 1 .. m : frames[p] \in Open
    BY <1>1
  <2> QED BY <2>1 DEF Open
<1>7. ASSUME NEW p \in 1 .. (m + 1)
      PROVE  /\ Shows(fs[p], cs[(n + 1) - (m + 1) + p], seg)
             /\ fs[p].level = fs[1].level + p - 1
  <2>1. CASE p \in 1 .. m
    <3>1. (n + 1) - (m + 1) + p = n - m + p /\ n - m + p \in 1 .. n /\ 1 \in 1 .. m
      BY <1>1, <2>1
    <3>2. Shows(frames[p], open[n - m + p], seg) /\ frames[p].level = frames[1].level + p - 1
      BY <1>1, <2>1 DEF Tracks
    <3> QED BY <1>4, <1>5, <2>1, <3>1, <3>2
  <2>2. CASE p = m + 1
    <3>1. (n + 1) - (m + 1) + p = n + 1 /\ m \in 1 .. m /\ 1 \in 1 .. m
      BY <1>1, <2>2
    <3>2. frames[m].level = frames[1].level + m - 1
      BY <1>1, <3>1 DEF Tracks
    <3>3. frame.level = frames[1].level + (m + 1) - 1
      BY <1>1, <1>6, <3>1, <3>2
    <3> QED BY <1>4, <1>5, <2>2, <3>1, <3>3
  <2> QED BY <1>1, <2>1, <2>2
<1>8. ASSUME NEW p \in 1 .. ((n + 1) - (m + 1))
      PROVE  cs[p].since <= seg
  <2>1. p \in 1 .. (n - m) /\ p \in 1 .. n
    BY <1>1
  <2>2. open[p].since <= seg
    BY <1>1, <2>1 DEF Tracks
  <2> QED BY <1>5, <2>1, <2>2
<1>9. m + 1 <= n + 1
  BY <1>1
<1>10. Tracks(fs, cs, seg)
  BY <1>4, <1>5, <1>7, <1>8, <1>9 DEF Tracks
<1> QED BY <1>2, <1>3, <1>10

LEMMA TracksLeave ==
  ASSUME NEW open \in Seq(OpenCall), NEW frames \in Seq(Open), NEW seg \in Nat,
         Tracks(frames, open, seg), Len(frames) > 1,
         NEW fs, fs = SubSeq(frames, 1, Len(frames) - 1),
         NEW cs, cs = SubSeq(open, 1, Len(open) - 1)
  PROVE  Tracks(fs, cs, seg)
<1>1. PICK m \in Nat, n \in Nat : Len(frames) = m + 1 /\ Len(open) = n + 1 /\ m >= 1 /\ m <= n
  <2>1. Len(frames) \in Nat /\ Len(open) \in Nat /\ Len(frames) <= Len(open)
    BY DEF Tracks
  <2> DEFINE m == Len(frames) - 1
             n == Len(open) - 1
  <2>2. m \in Nat /\ n \in Nat
    BY <2>1
  <2>3. Len(frames) = m + 1 /\ Len(open) = n + 1 /\ m >= 1 /\ m <= n
    BY <2>1, <2>2
  <2> HIDE DEF m, n
  <2> QED BY <2>2, <2>3
<1>2. fs = SubSeq(frames, 1, m) /\ cs = SubSeq(open, 1, n)
  BY <1>1
<1>3. Len(fs) = m /\ \A p \in 1 .. m : fs[p] = frames[p]
  BY <1>1, <1>2
<1>4. Len(cs) = n /\ \A p \in 1 .. n : cs[p] = open[p]
  BY <1>1, <1>2
<1>5. ASSUME NEW p \in 1 .. m
      PROVE  /\ Shows(fs[p], cs[n - m + p], seg)
             /\ fs[p].level = fs[1].level + p - 1
  <2>1. (n + 1) - (m + 1) + p = n - m + p /\ n - m + p \in 1 .. n /\ 1 \in 1 .. m
        /\ p \in 1 .. (m + 1)
    BY <1>1
  <2>2. Shows(frames[p], open[n - m + p], seg) /\ frames[p].level = frames[1].level + p - 1
    BY <1>1, <2>1 DEF Tracks
  <2> QED BY <1>3, <1>4, <2>1, <2>2
<1>6. ASSUME NEW p \in 1 .. (n - m)
      PROVE  cs[p].since <= seg
  <2>1. p \in 1 .. ((n + 1) - (m + 1)) /\ p \in 1 .. n
    BY <1>1
  <2>2. open[p].since <= seg
    BY <1>1, <2>1 DEF Tracks
  <2> QED BY <1>4, <2>1, <2>2
<1> QED BY <1>1, <1>3, <1>4, <1>5, <1>6 DEF Tracks

\* Where the stream was last picked up moves with each boundary, and with no
\* other instruction.
LEMMA SegmentMoves ==
  ASSUME StackInv, BreaksInv, NEW f, NEW entry, NEW brk \in BOOLEAN,
         Observed(f, entry, brk)
  PROVE  SegmentStart' = IF brk THEN index ELSE SegmentStart
<1>1. index \in Nat /\ \A b \in breaks : b \in Nat /\ b < index
  BY DEF StackInv, BreaksInv
<1>2. CASE brk
  <2>1. breaks' = breaks \cup {index}
    BY <1>2 DEF Observed
  <2>2. \A c \in breaks' : c <= index
    BY <1>1, <2>1
  <2>3. index \in breaks' /\ breaks' # {}
    BY <2>1
  <2> DEFINE Latest(b) == \A c \in breaks' : c <= b
  <2>4. PICK s : s = SegmentStart' /\ s = CHOOSE b \in breaks' : Latest(b)
    BY <2>3 DEF SegmentStart
  <2>5. index \in breaks' /\ Latest(index)
    BY <2>2, <2>3
  <2>6. s \in breaks' /\ Latest(s)
    <3> HIDE DEF Latest
    <3> QED BY <2>4, <2>5
  <2>7. s <= index /\ index <= s /\ s \in Nat
    BY <1>1, <2>1, <2>2, <2>5, <2>6
  <2> QED BY <1>1, <1>2, <2>4, <2>7
<1>3. CASE ~brk
  BY <1>3 DEF Observed, SegmentStart
<1> QED BY <1>2, <1>3

\* The first instruction of a segment begins a frame that was open before.
LEMMA SeenFresh ==
  ASSUME FramesInv, CallsInv, SegmentStart \in Nat, index > 0 => SegmentStart < index,
         NEW f \in Fns, NEW entry \in BOOLEAN, Seen(f, entry),
         hole \/ stack = <<>>
  PROVE  /\ stack' = <<Opened(f, 0, TRUE)>> /\ Opened(f, 0, TRUE) \in Open
         /\ SegmentStart' = index
         /\ \A c \in closed' : c \in closed \/ c.openAtEnd
<1>1. hole \in BOOLEAN /\ index \in Nat /\ StackInv /\ BreaksInv
  BY DEF CallsInv, FramesInv, StackInv
<1>2. StackAfter(hole) = <<>>
  BY DEF StackAfter
<1>3. FirstFrame(f, entry, hole)
  BY <1>2 DEF Seen, Observe, SameFrame, Call, CappedCall, Return, ReturnUnseen
<1>4. Observed(f, entry, hole) /\ closed' = ClosedAfter(hole)
  BY <1>3 DEF FirstFrame
<1>5. SegmentStart' = index
  <2>1. CASE hole
    BY <1>1, <1>4, <2>1, SegmentMoves
  <2>2. CASE ~hole
    <3>1. index = 0
      BY <1>1, <1>4, <2>2 DEF FramesInv, Observed
    <3>2. breaks = {}
      BY <1>1, <3>1 DEF BreaksInv
    <3>3. SegmentStart' = SegmentStart /\ SegmentStart = 0
      BY <1>1, <1>4, <2>2, <3>2, SegmentMoves DEF SegmentStart
    <3> QED BY <3>1, <3>3
  <2> QED BY <2>1, <2>2
<1>6. \A c \in closed' : c \in closed \/ c.openAtEnd
  BY <1>4 DEF ClosedAfter, Closed
<1>7. Opened(f, 0, TRUE) \in Open
  BY <1>1 DEF Opened, Open
<1> QED BY <1>3, <1>5, <1>6, <1>7 DEF FirstFrame

\* Any other instruction leaves the boundaries alone and meets the frames as
\* they are.
LEMMA SeenOn ==
  ASSUME FramesInv, CallsInv, TrackInv, Known, NEW f \in Fns, NEW entry \in BOOLEAN,
         Seen(f, entry), ~hole, stack # <<>>
  PROVE  /\ Tracks(stack, calls, SegmentStart) /\ SegmentStart' = SegmentStart
         /\ SegmentStart < index /\ SegmentStart \in Nat /\ index \in Nat
         /\ StackAfter(hole) = stack /\ ClosedAfter(hole) = closed
         /\ ~FirstFrame(f, entry, hole)
         /\ Len(stack) \in Nat /\ Len(stack) >= 1 /\ stack \in Seq(Open)
         /\ Top(stack).fn = Running
<1>1. hole \in BOOLEAN /\ index \in Nat /\ StackInv /\ BreaksInv /\ stack \in Seq(Open)
  BY DEF CallsInv, FramesInv, StackInv
<1>2. Observed(f, entry, hole)
  BY DEF Seen, Observe, FirstFrame, SameFrame, Call, CappedCall, Return, ReturnUnseen
<1>3. Len(stack) \in Nat /\ Len(stack) >= 1 /\ 1 \in 1 .. Len(stack) /\ Len(stack) \in 1 .. Len(stack)
  BY <1>1
<1>4. stack[1] \in Open /\ stack[1].start < index /\ stack[1].start \in Nat
  <2>1. stack[1] \in Open /\ stack[1].start < index
    BY <1>1, <1>3 DEF StackInv
  <2> QED BY <2>1 DEF Open
<1>5. Watching
  BY <1>1, <1>2, <1>4 DEF Watching, Observed
<1>6. SegmentStart' = SegmentStart
  BY <1>1, <1>2, SegmentMoves
<1>7. Tracks(stack, calls, SegmentStart) /\ SegmentStart < index /\ SegmentStart \in Nat
  BY <1>5 DEF TrackInv, Watching
<1>8. Top(stack).fn = Running
  <2>1. Len(calls) - Len(stack) + Len(stack) = Len(calls)
    BY <1>3, CallFacts
  <2>2. Shows(stack[Len(stack)], calls[Len(calls) - Len(stack) + Len(stack)], SegmentStart)
    BY <1>3, <1>7 DEF Tracks
  <2> QED BY <2>1, <2>2 DEF Shows, Top, Running
<1>9. StackAfter(hole) = stack /\ ClosedAfter(hole) = closed /\ ~FirstFrame(f, entry, hole)
  BY DEF StackAfter, ClosedAfter, FirstFrame
<1> QED BY <1>1, <1>3, <1>6, <1>7, <1>8, <1>9

LEMMA EnterTracks ==
  ASSUME NestsOnce, MaxCalls <= MaxDepth,
         FramesInv, CallsInv, TrackInv, FramesInv', CallsInv', NEW f \in Fns, Enter(f)
  PROVE  TrackInv'
<1>1. /\ Known /\ Known' /\ returned' = returned /\ Len(calls) < MaxCalls /\ hole \in BOOLEAN
      /\ index \in Nat /\ SegmentStart \in Nat /\ (index > 0 => SegmentStart < index)
  <2>1. calls' # <<>>
    <3>1. [fn |-> f, since |-> -1] \in OpenCall /\ [fn |-> f, since |-> index] \in OpenCall
      BY NewCall DEF FramesInv, StackInv
    <3>2. PICK new \in OpenCall : calls' = Append(calls, new)
      BY <3>1 DEF Enter
    <3> QED BY <3>2, CallFacts, AppendProperties
  <2> QED BY <2>1 DEF Enter, Known, CallsInv, FramesInv, StackInv, TrackInv
<1>2. CASE Lost
  BY <1>1, <1>2 DEF Lost, frameVars, TrackInv, Watching, SegmentStart
<1>3. CASE Seen(f, TRUE) /\ calls' = Append(calls, [fn |-> f, since |-> index])
  <2>1. PICK call \in OpenCall : call = [fn |-> f, since |-> index]
    <3>1. [fn |-> f, since |-> index] \in OpenCall
      BY <1>1, NewCall
    <3> QED BY <3>1, Zenon
  <2>2. /\ calls' = Append(calls, call) /\ call.fn = f /\ call.since = index
        /\ index' = index + 1 /\ ~finished'
    BY <1>1, <1>3, <2>1, SeenOrLost
  <2>3. /\ calls' \in Seq(OpenCall) /\ Len(calls') = Len(calls) + 1
        /\ calls'[Len(calls) + 1] = call /\ Len(calls) \in Nat
        /\ \A p \in 1 .. Len(calls) : calls'[p] = calls[p]
    BY <2>2, CallFacts, AppendProperties
  <2>4. CASE hole \/ stack = <<>>
    <3>1. /\ stack' = <<Opened(f, 0, TRUE)>> /\ Opened(f, 0, TRUE) \in Open
          /\ SegmentStart' = index
          /\ \A c \in closed' : c \in closed \/ c.openAtEnd
      BY <1>1, <1>3, <2>4, SeenFresh
    <3>2. PICK frame \in Open : frame = Opened(f, 0, TRUE)
      BY <3>1
    <3>3. frame.fn = f /\ frame.openAtStart
      BY <3>2, Zenon DEF Opened
    <3>4. \A p \in 1 .. Len(calls') : calls'[p].since <= index
      BY <1>1, <2>2, CallFacts DEF CallsInv
    <3>5. Len(calls') >= 1 /\ calls'[Len(calls')].fn = frame.fn
      BY <2>2, <2>3, <3>3
    <3>6. Tracks(<<frame>>, calls', index)
      BY <1>1, <2>3, <3>3, <3>4, <3>5, TracksFresh
    <3>7. Tracks(stack', calls', SegmentStart')
      BY <3>1, <3>2, <3>6, Zenon
    <3> QED BY <1>1, <2>2, <3>1, <3>7 DEF TrackInv
  <2>5. CASE ~(hole \/ stack = <<>>)
    <3>1. /\ Tracks(stack, calls, SegmentStart) /\ SegmentStart' = SegmentStart
          /\ SegmentStart < index
          /\ StackAfter(hole) = stack /\ ClosedAfter(hole) = closed
          /\ ~FirstFrame(f, TRUE, hole)
          /\ Len(stack) \in Nat /\ Len(stack) >= 1 /\ stack \in Seq(Open)
      BY <1>1, <1>3, <2>5, SeenOn
    <3>2. Len(stack) < MaxDepth
      <4>1. Len(stack) <= Len(calls)
        BY <3>1 DEF Tracks
      <4> QED BY <1>1, <2>3, <3>1, <4>1, FramesAssumption, ProgramAssumption
    <3>3. Call(f, TRUE, hole)
      <4>1. ~SameFrame(f, TRUE, hole) /\ ~Return(f, TRUE, hole) /\ ~ReturnUnseen(f, TRUE, hole)
        BY Zenon DEF SameFrame, Return, ReturnUnseen
      <4>2. ~CappedCall(f, TRUE, hole)
        <5>1. ~(Len(stack) >= MaxDepth)
          BY <3>1, <3>2, FramesAssumption
        <5> QED BY <3>1, <5>1, Zenon DEF CappedCall
      <4> QED BY <1>3, <3>1, <4>1, <4>2, Zenon DEF Seen, Observe
    <3>4. /\ stack' = Append(stack, Opened(f, Top(stack).level + 1, FALSE)) /\ closed' = closed
      BY <3>1, <3>3, Zenon DEF Call
    <3>5. Top(stack).level \in Int
      <4>1. stack[Len(stack)] \in Open
        BY <3>1
      <4> QED BY <4>1 DEF Top, Open
    <3>6. PICK frame \in Open : frame = Opened(f, Top(stack).level + 1, FALSE)
      <4>1. PICK level \in Int : level = Top(stack).level + 1
        BY <3>5
      <4>2. Opened(f, level, FALSE) \in Open
        BY <1>1 DEF Opened, Open
      <4> QED BY <4>1, <4>2
    <3>7. frame.fn = f /\ frame.level = Top(stack).level + 1 /\ frame.start = index
      BY <3>6 DEF Opened
    <3>8. ~frame.openAtStart
      BY <3>6, Zenon DEF Opened
    <3>9. Shows(frame, call, SegmentStart)
      BY <1>1, <2>2, <3>1, <3>7, <3>8 DEF Shows
    <3>10. Tracks(Append(stack, frame), Append(calls, call), SegmentStart)
      BY <1>1, <3>1, <3>7, <3>9, CallFacts, TracksCall DEF Top
    <3>11. Tracks(stack', calls', SegmentStart')
      BY <2>2, <3>1, <3>4, <3>6, <3>10, Zenon
    <3>12. SegmentStart' \in Nat /\ SegmentStart' < index'
      BY <1>1, <2>2, <3>1
    <3> QED BY <1>1, <3>4, <3>11, <3>12, Zenon DEF TrackInv
  <2> QED BY <2>4, <2>5
<1> QED BY <1>2, <1>3 DEF Enter

LEMMA RunTracks ==
  ASSUME FramesInv, CallsInv, TrackInv, Run
  PROVE  TrackInv'
<1>1. /\ Known /\ calls' = calls /\ returned' = returned /\ hole \in BOOLEAN
      /\ index \in Nat /\ SegmentStart \in Nat /\ (index > 0 => SegmentStart < index)
      /\ Running \in Fns
  BY CallFacts DEF Run, CallsInv, FramesInv, StackInv, TrackInv
<1>2. CASE Lost
  BY <1>1, <1>2 DEF Lost, frameVars, TrackInv, Watching, SegmentStart, Known
<1>3. CASE Seen(Running, FALSE)
  <2>1. index' = index + 1 /\ ~finished'
    BY <1>1, <1>3, SeenOrLost
  <2>2. CASE hole \/ stack = <<>>
    <3>1. /\ stack' = <<Opened(Running, 0, TRUE)>> /\ Opened(Running, 0, TRUE) \in Open
          /\ SegmentStart' = index
          /\ \A c \in closed' : c \in closed \/ c.openAtEnd
      BY <1>1, <1>3, <2>2, SeenFresh
    <3>2. PICK frame \in Open : frame = Opened(Running, 0, TRUE)
      BY <3>1
    <3>3. frame.fn = Running /\ frame.openAtStart
      BY <3>2, Zenon DEF Opened
    <3>4. \A p \in 1 .. Len(calls) : calls[p].since <= index
      BY <1>1, CallFacts DEF CallsInv
    <3>5. Len(calls) >= 1 /\ calls[Len(calls)].fn = frame.fn
      BY <1>1, <3>3, CallFacts DEF Running, Top
    <3>6. Tracks(<<frame>>, calls, index)
      BY <1>1, <3>3, <3>4, <3>5, CallFacts, TracksFresh
    <3>7. Tracks(stack', calls', SegmentStart')
      BY <1>1, <3>1, <3>2, <3>6, Zenon
    <3> QED BY <1>1, <2>1, <3>1, <3>7 DEF TrackInv, Known
  <2>3. CASE ~(hole \/ stack = <<>>)
    <3>1. /\ Tracks(stack, calls, SegmentStart) /\ SegmentStart' = SegmentStart
          /\ SegmentStart < index
          /\ StackAfter(hole) = stack /\ ClosedAfter(hole) = closed
          /\ ~FirstFrame(Running, FALSE, hole)
          /\ Top(stack).fn = Running
      BY <1>1, <1>3, <2>3, SeenOn
    <3>2. SameFrame(Running, FALSE, hole)
      BY <1>3, <3>1 DEF Seen, Observe, Call, CappedCall, Return, ReturnUnseen
    <3>3. stack' = stack /\ closed' = closed
      BY <3>1, <3>2 DEF SameFrame
    <3> QED BY <1>1, <2>1, <3>1, <3>3 DEF TrackInv, Known
  <2> QED BY <2>2, <2>3
<1> QED BY <1>2, <1>3 DEF Run

\* What Return does to the frames open and closed before it.
ReturnsInto(f, open, shut, kept, ended) ==
  \E p \in Ancestors(f, open) :
    /\ \A q \in Ancestors(f, open) : q <= p
    /\ kept = SubSeq(open, 1, p)
    /\ ended = shut \cup {Closed(open[q], FALSE) : q \in (p + 1) .. Len(open)}

\* A return is seen in the caller, whose frame is the next one down; or, where
\* there is none, it takes the place of the only frame.
LEMMA LeaveTracks ==
  ASSUME NestsOnce, FramesInv, CallsInv, CallsInv', TrackInv, Leave
  PROVE  TrackInv'
<1>1. /\ Known /\ hole \in BOOLEAN /\ Len(calls) > 1 /\ Len(calls) \in Nat
      /\ calls' = SubSeq(calls, 1, Len(calls) - 1)
      /\ index \in Nat /\ SegmentStart \in Nat /\ (index > 0 => SegmentStart < index)
      /\ calls \in Seq(OpenCall) /\ Len(calls) - 1 \in 1 .. Len(calls)
      /\ Len(calls) \in 1 .. Len(calls)
  BY CallFacts DEF Leave, Known, CallsInv, FramesInv, StackInv, TrackInv
<1>2. PICK f \in Fns : f = calls[Len(calls) - 1].fn
  BY <1>1, CallFacts
<1>3. /\ calls' \in Seq(OpenCall) /\ Len(calls') = Len(calls) - 1 /\ Len(calls') >= 1
      /\ \A p \in 1 .. Len(calls') : calls'[p] = calls[p] /\ p \in 1 .. Len(calls)
      /\ calls'[Len(calls')].fn = f
  BY <1>1, <1>2
<1>4. Known'
  BY <1>3 DEF Known
<1>5. CASE Lost /\ UNCHANGED returned
  BY <1>1, <1>5 DEF Lost, frameVars, TrackInv, Watching, SegmentStart
<1>6. CASE /\ Seen(f, FALSE)
           /\ returned' = IF hole THEN returned ELSE returned \cup
                {[fn |-> Running, start |-> Top(calls).since, end |-> index]}
  <2>1. index' = index + 1 /\ ~finished'
    BY <1>1, <1>6, SeenOrLost
  <2>2. returned \subseteq returned'
    BY <1>6
  <2>3. CASE hole \/ stack = <<>>
    <3>1. /\ stack' = <<Opened(f, 0, TRUE)>> /\ Opened(f, 0, TRUE) \in Open
          /\ SegmentStart' = index
          /\ \A c \in closed' : c \in closed \/ c.openAtEnd
      BY <1>1, <1>6, <2>3, SeenFresh
    <3>2. PICK frame \in Open : frame = Opened(f, 0, TRUE)
      BY <3>1
    <3>3. frame.fn = f /\ frame.openAtStart
      BY <3>2, Zenon DEF Opened
    <3>4. \A p \in 1 .. Len(calls') : calls'[p].since <= index
      BY <1>1, <1>3, CallFacts DEF CallsInv
    <3>5. Tracks(<<frame>>, calls', index)
      BY <1>1, <1>3, <3>3, <3>4, TracksFresh
    <3>6. Tracks(stack', calls', SegmentStart')
      BY <3>1, <3>2, <3>5, Zenon
    <3> QED BY <1>1, <2>1, <2>2, <3>1, <3>6 DEF TrackInv
  <2>4. CASE ~(hole \/ stack = <<>>)
    <3>1. /\ Tracks(stack, calls, SegmentStart) /\ SegmentStart' = SegmentStart
          /\ SegmentStart < index
          /\ StackAfter(hole) = stack /\ ClosedAfter(hole) = closed
          /\ ~FirstFrame(f, FALSE, hole)
          /\ Len(stack) \in Nat /\ Len(stack) >= 1 /\ stack \in Seq(Open)
          /\ Top(stack).fn = Running
      BY <1>1, <1>6, <2>4, SeenOn
    <3>2. Top(stack).fn # f
      <4>1. calls[Len(calls) - 1].fn # calls[Len(calls)].fn
        BY <1>1 DEF CallsInv
      <4> QED BY <1>2, <3>1, <4>1 DEF Running, Top
    <3>3. Return(f, FALSE, hole) \/ ReturnUnseen(f, FALSE, hole)
      BY <1>6, <3>1, <3>2, Zenon DEF Seen, Observe, SameFrame, Call, CappedCall
    <3>4. /\ Top(stack) \in Open /\ Len(stack) \in 1 .. Len(stack)
          /\ Shows(Top(stack), calls[Len(calls)], SegmentStart)
          /\ Len(stack) <= Len(calls)
      <4>1. Len(stack) \in 1 .. Len(stack) /\ Len(calls) - Len(stack) + Len(stack) = Len(calls)
        BY <1>1, <3>1
      <4>2. Shows(stack[Len(stack)], calls[Len(calls) - Len(stack) + Len(stack)], SegmentStart)
        BY <3>1, <4>1 DEF Tracks
      <4>3. stack[Len(stack)] \in Open
        BY <3>1, <4>1
      <4> QED BY <3>1, <4>1, <4>2, <4>3 DEF Top, Tracks
    <3>5. returned' = returned \cup
                {[fn |-> Running, start |-> Top(calls).since, end |-> index]}
      BY <1>6, <2>4
    \* The frame that is closed is that of the call that returns.
    <3>6. ASSUME NEW c, c = Closed(Top(stack), FALSE), ~c.openAtStart
          PROVE  [fn |-> c.fn, start |-> c.start, end |-> c.end] \in returned'
      <4>1. c.fn = Running /\ c.end = index /\ c.start = Top(stack).start
        BY <3>1, <3>6 DEF Closed
      <4>2. ~Top(stack).openAtStart
        BY <3>6, Zenon DEF Closed
      <4>3. Top(stack).start = Top(calls).since
        BY <3>4, <4>2, Zenon DEF Shows, Top
      <4> QED BY <3>5, <4>1, <4>3
    <3>7. ASSUME closed' = closed \cup {Closed(Top(stack), FALSE)}
          PROVE  \A c \in closed' : ~c.openAtStart /\ ~c.openAtEnd =>
                   [fn |-> c.fn, start |-> c.start, end |-> c.end] \in returned'
      <4> SUFFICES ASSUME NEW c \in closed', ~c.openAtStart, ~c.openAtEnd
                   PROVE  [fn |-> c.fn, start |-> c.start, end |-> c.end] \in returned'
        OBVIOUS
      <4>1. CASE c \in closed
        BY <1>1, <2>2, <4>1 DEF TrackInv
      <4>2. CASE c = Closed(Top(stack), FALSE)
        BY <3>6, <4>2
      <4> QED BY <3>7, <4>1, <4>2
    <3>8. CASE Len(stack) > 1
      <4>1. PICK m \in 1 .. Len(stack) : m = Len(stack) - 1
        <5>1. Len(stack) - 1 \in 1 .. Len(stack)
          BY <3>1, <3>8
        <5> QED BY <5>1, Zenon
      <4>2. stack[m].fn = f /\ f # Unknown
        <5>1. Len(calls) - Len(stack) + m = Len(calls) - 1
          BY <1>1, <3>1, <4>1
        <5>2. Shows(stack[m], calls[Len(calls) - Len(stack) + m], SegmentStart)
          BY <3>1, <4>1 DEF Tracks
        <5> QED BY <1>2, <5>1, <5>2, FramesAssumption DEF Shows
      <4>3. m \in Ancestors(f, stack)
        BY <4>1, <4>2 DEF Ancestors
      <4>4. PICK p \in Ancestors(f, stack) :
              /\ \A q \in Ancestors(f, stack) : q <= p
              /\ stack' = SubSeq(stack, 1, p)
              /\ closed' = closed \cup
                   {Closed(stack[q], FALSE) : q \in (p + 1) .. Len(stack)}
        <5>1. Return(f, FALSE, hole)
          <6>1. Ancestors(f, stack) # {}
            BY <4>3
          <6> QED BY <3>1, <3>3, <6>1, Zenon DEF ReturnUnseen
        <5>2. ReturnsInto(f, StackAfter(hole), ClosedAfter(hole), stack', closed')
          BY <5>1, Zenon DEF Return, ReturnsInto
        <5>3. ReturnsInto(f, stack, closed, stack', closed')
          BY <3>1, <5>2
        <5> QED BY <5>3, Zenon DEF ReturnsInto
      <4>5. p \in 1 .. Len(stack) /\ stack[p].fn = f /\ p # Len(stack)
        BY <3>2, <4>4 DEF Ancestors, Top
      <4>6. p = m /\ (p + 1) .. Len(stack) = {Len(stack)}
        BY <3>1, <4>1, <4>3, <4>4, <4>5
      <4>7. closed' = closed \cup {Closed(Top(stack), FALSE)}
        BY <4>4, <4>6 DEF Top
      <4>8. Tracks(stack', calls', SegmentStart')
        <5>1. stack' = SubSeq(stack, 1, Len(stack) - 1)
          BY <4>1, <4>4, <4>6
        <5> QED BY <1>1, <3>1, <3>8, <5>1, TracksLeave
      <4>9. SegmentStart' \in Nat /\ SegmentStart' < index'
        BY <1>1, <2>1, <3>1
      <4> QED BY <3>7, <4>7, <4>8, <4>9, Zenon DEF TrackInv
    <3>9. CASE Len(stack) = 1
      <4>1. \A p \in 1 .. Len(stack) : stack[p] = Top(stack)
        BY <3>9 DEF Top
      <4>2. Ancestors(f, stack) = {}
        BY <3>2, <4>1 DEF Ancestors
      <4>3. /\ stack' = Append(SubSeq(stack, 1, Len(stack) - 1),
                               Opened(f, LevelBelow(Top(stack).level), TRUE))
            /\ closed' = closed \cup {Closed(Top(stack), FALSE)}
        BY <3>1, <3>3, <4>2, Zenon DEF Return, ReturnUnseen
      <4>4. LevelBelow(Top(stack).level) \in Int
        BY <3>4, FramesAssumption DEF LevelBelow, MinLevel, Open
      <4>5. PICK frame \in Open : frame = Opened(f, LevelBelow(Top(stack).level), TRUE)
        <5>1. PICK level \in Int : level = LevelBelow(Top(stack).level)
          BY <4>4
        <5>2. Opened(f, level, TRUE) \in Open
          BY <1>1 DEF Opened, Open
        <5> QED BY <5>1, <5>2
      <4>6. frame.fn = f /\ frame.openAtStart
        BY <4>5, Zenon DEF Opened
      <4>7. stack' = <<frame>>
        <5>1. PICK kept : kept = SubSeq(stack, 1, Len(stack) - 1)
          OBVIOUS
        <5>2. Len(kept) = 0 /\ kept \in Seq(Open)
          BY <3>1, <3>9, <5>1
        <5>3. Append(kept, frame) = <<frame>>
          BY <5>2
        <5>4. stack' = Append(kept, frame)
          BY <4>3, <4>5, <5>1, Zenon
        <5> QED BY <5>3, <5>4, Zenon
      <4>8. \A p \in 1 .. Len(calls') : calls'[p].since <= SegmentStart
        BY <1>1, <1>3, <3>1, <3>9 DEF Tracks
      <4>9. Tracks(<<frame>>, calls', SegmentStart)
        BY <1>1, <1>3, <4>6, <4>8, TracksFresh
      <4>10. Tracks(stack', calls', SegmentStart')
        BY <3>1, <4>7, <4>9
      <4>11. SegmentStart' \in Nat /\ SegmentStart' < index'
        BY <1>1, <2>1, <3>1
      <4>12. closed' = closed \cup {Closed(Top(stack), FALSE)}
        BY <4>3
      <4> QED BY <3>7, <4>10, <4>11, <4>12, Zenon DEF TrackInv
    <3>10. Len(stack) > 1 \/ Len(stack) = 1
      <4>1. PICK n \in Nat : n = Len(stack)
        BY <3>1, Zenon
      <4>2. n >= 1
        BY <3>1, <4>1, Zenon
      <4>3. n > 1 \/ n = 1
        BY <4>2
      <4> QED BY <4>1, <4>3, Zenon
    <3> QED BY <3>8, <3>9, <3>10
  <2> QED BY <2>3, <2>4
<1> QED BY <1>2, <1>5, <1>6 DEF Leave

\* A program of which nothing is known has no calls to compare with.
LEMMA StrayTracks ==
  ASSUME FramesInv, CallsInv, TrackInv, NEW f, NEW entry, NEW brk \in BOOLEAN,
         Stray(f, entry, brk)
  PROVE  TrackInv'
<1>1. Observed(f, entry, brk) /\ ~Known'
  BY DEF Stray, Observe, FirstFrame, SameFrame, Call, CappedCall, Return, ReturnUnseen, Known
<1>2. SegmentStart' = IF brk THEN index ELSE SegmentStart
  BY <1>1, SegmentMoves DEF FramesInv
<1>3. /\ index \in Nat /\ index' = index + 1 /\ SegmentStart \in Nat
      /\ (index > 0 => SegmentStart < index) /\ breaks \subseteq Nat
      /\ (index = 0 => breaks = {})
  BY <1>1 DEF Observed, FramesInv, StackInv, BreaksInv, TrackInv
<1>4. SegmentStart' \in Nat /\ SegmentStart' < index'
  <2>1. index = 0 => SegmentStart = 0
    BY <1>3 DEF SegmentStart
  <2> QED BY <1>2, <1>3, <2>1
<1> QED BY <1>1, <1>4 DEF TrackInv, Watching

\* The end of the capture marks every frame it closes as open there.
LEMMA EndTracks ==
  ASSUME TrackInv, EndOfCapture
  PROVE  TrackInv'
<1>1. \A c \in closed' : c \in closed \/ c.openAtEnd
  BY DEF EndOfCapture, Finish, Closed
<1>2. ~Watching'
  BY DEF EndOfCapture, Finish, Watching
<1>3. /\ SegmentStart' = SegmentStart /\ index' = index /\ returned' = returned
      /\ (Known' <=> Known)
  BY DEF EndOfCapture, Finish, SegmentStart, Known
<1> QED BY <1>1, <1>2, <1>3 DEF TrackInv

LEMMA TrackInvInit == ProgramInit => TrackInv
BY DEF ProgramInit, FramesInit, TrackInv, SegmentStart, Watching

LEMMA TrackInvNext ==
  ASSUME NestsOnce, MaxCalls <= MaxDepth
  PROVE  ProgramInv /\ ProgramInv' /\ TrackInv /\ [ProgramNext]_programVars => TrackInv'
<1> SUFFICES ASSUME FramesInv, CallsInv, FramesInv', CallsInv', TrackInv,
                    [ProgramNext]_programVars
             PROVE  TrackInv'
  BY DEF ProgramInv
<1>1. ASSUME NEW f \in Fns, Enter(f)
      PROVE  TrackInv'
  BY <1>1, EnterTracks
<1>2. CASE Run
  BY <1>2, RunTracks
<1>3. CASE Leave
  BY <1>3, LeaveTracks
<1>4. ASSUME NEW f, NEW entry, NEW brk \in BOOLEAN, Stray(f, entry, brk)
      PROVE  TrackInv'
  BY <1>4, StrayTracks
<1>5. CASE EndOfCapture
  BY <1>5, EndTracks
<1>6. CASE UNCHANGED programVars
  BY <1>6 DEF programVars, frameVars, TrackInv, Watching, Known, SegmentStart
<1>7. CASE Done /\ UNCHANGED <<calls, hole, returned>>
  BY <1>6, <1>7 DEF Done, programVars
<1> QED BY <1>1, <1>2, <1>3, <1>4, <1>5, <1>6, <1>7 DEF ProgramNext

LEMMA TracksExactly == TrackInv => ReconstructionExact
<1> SUFFICES ASSUME TrackInv
             PROVE  ReconstructionExact
  OBVIOUS
<1>1. ASSUME Watching
      PROVE  /\ Len(stack) <= Len(calls)
             /\ \A p \in 1 .. Len(stack) :
                  LET call == calls[Len(calls) - Len(stack) + p]
                  IN  /\ stack[p].fn = call.fn
                      /\ stack[p].level = stack[1].level + p - 1
                      /\ IF call.since > SegmentStart
                         THEN stack[p].start = call.since /\ ~stack[p].openAtStart
                         ELSE stack[p].openAtStart
  BY <1>1, Zenon DEF TrackInv, Tracks, Shows
<1> QED BY <1>1, Zenon DEF TrackInv, ReconstructionExact

\* What build_call_frames infers of a program whose functions call and return,
\* and of which the probe may lose any instructions, is exact: the frames open
\* are the innermost calls open, each one level above its caller and begun
\* where its entry was observed, and a frame with both ends inside the stream
\* is a call that was made and returned there.  It needs what frames.py says
\* it cannot see: that no function is called while it is running, and that the
\* nesting stays within max_depth.
THEOREM ReconstructionIsExact ==
  ASSUME NestsOnce, MaxCalls <= MaxDepth
  PROVE  ProgramSpec => []ReconstructionExact
<1>1. ProgramInit => TrackInv
  BY TrackInvInit
<1>2. ProgramInv /\ ProgramInv' /\ TrackInv /\ [ProgramNext]_programVars => TrackInv'
  BY TrackInvNext
<1>3. TrackInv => ReconstructionExact
  BY TracksExactly
<1> QED BY <1>1, <1>2, <1>3, ProgramInvariant, PTL DEF ProgramSpec
===============================================================================
