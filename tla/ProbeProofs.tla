---------------------------- MODULE ProbeProofs -----------------------------
(* What Link promises of the handles of a process, the register cache and    *)
(* halted(), for any number of handles, devices, breakpoints and nested      *)
(* blocks.  A script of handles, streams and windows is, for the handles, a  *)
(* behaviour of Link, so it holds there as well; for the readers it is one   *)
(* of Streams, of whose bytes, walks, samples and packets this module proves *)
(* what they return and decode to, whatever arrives in between; and for the  *)
(* time axis one of Timeline, of whose blocks it proves that each is one     *)
(* window in the order it ran, from which the promises about stamps and      *)
(* interpolated cycles follow.                                               *)
EXTENDS Probe, SequenceTheorems, FiniteSetTheorems, TLAPS

\* The calls that can be in progress.
Calls ==
  {Idle} \union [op : {"connecting"}, by : Handles, to : Devices, opening : BOOLEAN]
         \union [op : {"halting"}] \union [op : {"waiting"}, late : BOOLEAN]

(* The invariant: the part about handles, the probe and register lists.      *)

HandleTypeOK ==
  /\ openInstance \in Handles \union {None}
  /\ opened \in [Handles -> BOOLEAN]
  /\ listed \in [Handles -> Devices \union {None}]
  /\ tried \in [Handles -> SUBSET Devices]
  /\ attached \in Devices \union {None}
  /\ call \in Calls

\* A handle that is being connected is the open one.
ConnectingIsOpen == call.op = "connecting" => opened[call.by]

\* What is attached was asked for through the open handle, and nothing is when
\* the probe is closed.
AttachedWasTried ==
  attached # None => openInstance # None /\ attached \in tried[openInstance]

\* The register list of the open handle is that of a device it has asked for.
ListedWasTried ==
  \A h \in Handles : opened[h] /\ listed[h] # None => listed[h] \in tried[h]

HandlesInv ==
  /\ HandleTypeOK
  /\ HandleHoldsProbe
  /\ ConnectingIsOpen
  /\ AttachedWasTried
  /\ ListedWasTried

------------------------------------------------------------------------------
(* The invariant: the part about the core and the blocks of halted().        *)

CoreTypeOK ==
  /\ core \in {"running", "halted"}
  /\ nest \in Seq(BOOLEAN)

\* Only the outermost block can have found the core running, and a block that
\* is about to halt it is the outermost.
OnlyOutermostResumes ==
  /\ \A i \in 2 .. Len(nest) : nest[i] = FALSE
  /\ call.op = "halting" => nest = <<>>

CoreInv ==
  /\ CoreTypeOK
  /\ OnlyOutermostResumes
  /\ BodyRunsHalted

------------------------------------------------------------------------------
(* Calls are records of four kinds, told apart by their op.                  *)

LEMMA CallKinds ==
  /\ Idle \in Calls /\ Idle.op = "idle"
  /\ \A h \in Handles, d \in Devices, o \in BOOLEAN :
       /\ Connecting(h, d, o) \in Calls
       /\ Connecting(h, d, o).op = "connecting"
       /\ Connecting(h, d, o).by = h
  /\ \A c \in Calls : c.op = "connecting" => c.by \in Handles /\ c.to \in Devices
  /\ [op |-> "halting"] \in Calls
  /\ \A b \in BOOLEAN : [op |-> "waiting", late |-> b] \in Calls
  BY DEF Calls, Idle, Connecting

LEMMA InitialHandles == LinkInit => HandlesInv /\ CoreInv
<1> SUFFICES ASSUME LinkInit PROVE HandlesInv /\ CoreInv
  OBVIOUS
<1>1. HandleTypeOK /\ ConnectingIsOpen
  BY CallKinds DEF LinkInit, HandleTypeOK, ConnectingIsOpen, Idle
<1>2. HandleHoldsProbe /\ AttachedWasTried /\ ListedWasTried
  BY LinkAssumption DEF LinkInit, HandleHoldsProbe, AttachedWasTried, ListedWasTried
<1>3. CoreInv
  BY DEF LinkInit, CoreInv, CoreTypeOK, OnlyOutermostResumes, BodyRunsHalted, Idle
<1> QED BY <1>1, <1>2, <1>3 DEF HandlesInv

------------------------------------------------------------------------------
(* Handles                                                                   *)

\* What leaves the handles alone and begins no connect() keeps their invariant.
LEMMA HandlesUntouched ==
  ASSUME HandlesInv,
         UNCHANGED <<openInstance, opened, listed, tried, cut, probeOpen, attached>>,
         call' \in Calls,
         call' = call \/ call'.op # "connecting"
  PROVE  HandlesInv'
<1>1. HandleTypeOK' /\ ConnectingIsOpen'
  BY DEF HandlesInv, HandleTypeOK, ConnectingIsOpen
<1>2. HandleHoldsProbe' /\ AttachedWasTried' /\ ListedWasTried'
  BY DEF HandlesInv, HandleHoldsProbe, AttachedWasTried, ListedWasTried
<1> QED BY <1>1, <1>2 DEF HandlesInv

\* Closing the open handle hands the probe back, and nothing is open then.
LEMMA HandBackKeeps ==
  ASSUME HandlesInv,
         NEW h \in Handles, opened[h],
         HandBack(h),
         listed' = listed,
         tried' \in [Handles -> SUBSET Devices],
         call' = Idle
  PROVE  HandlesInv'
<1>1. openInstance = h
  BY DEF HandlesInv, HandleHoldsProbe
<1>2. openInstance' = None /\ ~probeOpen' /\ attached' = None
  BY <1>1 DEF HandBack
<1>3. \A g \in Handles : ~opened'[g]
  BY <1>1 DEF HandlesInv, HandleTypeOK, HandleHoldsProbe, HandBack
<1>4. HandleTypeOK' /\ ConnectingIsOpen'
  BY <1>2, CallKinds DEF HandlesInv, HandleTypeOK, ConnectingIsOpen, HandBack
<1>5. HandleHoldsProbe' /\ AttachedWasTried' /\ ListedWasTried'
  BY <1>2, <1>3, LinkAssumption DEF HandleHoldsProbe, AttachedWasTried, ListedWasTried
<1> QED BY <1>4, <1>5 DEF HandlesInv

\* A close() cut short leaves the handle's registration, and perhaps _opened;
\* nothing is attached then.
LEMMA HandBackCutKeeps ==
  ASSUME HandlesInv,
         NEW h \in Handles, opened[h],
         HandBackCut(h),
         listed' = listed,
         tried' \in [Handles -> SUBSET Devices],
         \A g \in Handles : tried[g] \subseteq tried'[g],
         call' = Idle
  PROVE  HandlesInv'
<1>1. /\ openInstance' = openInstance /\ ~probeOpen' /\ attached' = None
      /\ cut' = "closing"
  BY DEF HandBackCut
<1>2. opened' \in [Handles -> BOOLEAN] /\ \A g \in Handles : opened'[g] => opened[g]
  BY DEF HandBackCut, HandlesInv, HandleTypeOK
<1>3. HandleTypeOK' /\ ConnectingIsOpen'
  BY <1>1, <1>2, CallKinds DEF HandlesInv, HandleTypeOK, ConnectingIsOpen
<1>4. HandleHoldsProbe' /\ AttachedWasTried'
  BY <1>1, <1>2 DEF HandlesInv, HandleHoldsProbe, AttachedWasTried
<1>5. ListedWasTried'
  BY <1>2 DEF HandlesInv, ListedWasTried
<1> QED BY <1>3, <1>4, <1>5 DEF HandlesInv

LEMMA OpenKeepsHandles ==
  ASSUME HandlesInv, NEW h \in Handles, OpenHandle(h)
  PROVE  HandlesInv'
<1>1. openInstance = None /\ openInstance' = h /\ probeOpen'
  BY DEF OpenHandle, MayOpen
<1>2. attached = None /\ attached' = None
  BY <1>1 DEF OpenHandle, HandlesInv, AttachedWasTried
<1>3. \A g \in Handles : opened'[g] <=> g = h
  BY <1>1, LinkAssumption DEF OpenHandle, HandlesInv, HandleTypeOK, HandleHoldsProbe
<1>4. opened' \in [Handles -> BOOLEAN]
  BY DEF OpenHandle, HandlesInv, HandleTypeOK
<1>5. /\ listed' = [listed EXCEPT ![h] = None] /\ listed'[h] = None
      /\ listed' \in [Handles -> Devices \union {None}]
      /\ tried' \in [Handles -> SUBSET Devices]
  BY DEF OpenHandle, FreshList, HandlesInv, HandleTypeOK
<1>6. PICK d \in Devices \union {None} :
        call' = Idle \/ (d # None /\ call' = Connecting(h, d, TRUE))
  BY DEF OpenHandle
<1>7. call' \in Calls /\ (call'.op = "connecting" => call'.by = h)
  <2>1. CASE call' = Idle
    BY <2>1, CallKinds
  <2>2. CASE d # None /\ call' = Connecting(h, d, TRUE)
    <3>1. d \in Devices /\ TRUE \in BOOLEAN
      BY <2>2
    <3> QED BY <2>2, <3>1, CallKinds
  <2> QED BY <1>6, <2>1, <2>2
<1>8. HandleTypeOK' /\ ConnectingIsOpen'
  BY <1>1, <1>2, <1>3, <1>4, <1>5, <1>7 DEF HandleTypeOK, ConnectingIsOpen
<1>9. HandleHoldsProbe' /\ AttachedWasTried' /\ ListedWasTried'
  BY <1>1, <1>2, <1>3, <1>5, LinkAssumption
     DEF HandleHoldsProbe, AttachedWasTried, ListedWasTried
<1> QED BY <1>8, <1>9 DEF HandlesInv

\* The end of a connect(): what it asked for counts as tried, whatever is
\* attached now.
LEMMA TriedKeepsHandles ==
  ASSUME HandlesInv, call.op = "connecting",
         UNCHANGED <<openInstance, opened, listed, cut, probeOpen>>,
         tried' = [tried EXCEPT ![call.by] = @ \union {call.to}],
         attached' \in {attached, None, call.to},
         call' = Idle
  PROVE  HandlesInv'
<1>1. call.by \in Handles /\ call.to \in Devices
  BY CallKinds DEF HandlesInv, HandleTypeOK
<1>2. openInstance = call.by
  BY <1>1 DEF HandlesInv, HandleHoldsProbe, ConnectingIsOpen
<1>3. /\ tried' \in [Handles -> SUBSET Devices]
      /\ call.to \in tried'[call.by]
      /\ \A h \in Handles : tried[h] \subseteq tried'[h]
  BY <1>1 DEF HandlesInv, HandleTypeOK
<1>4. attached' # None => attached' \in tried'[openInstance]
  BY <1>1, <1>2, <1>3 DEF HandlesInv, AttachedWasTried
<1>5. HandleTypeOK' /\ ConnectingIsOpen'
  BY <1>1, <1>3, CallKinds DEF HandlesInv, HandleTypeOK, ConnectingIsOpen
<1>6. HandleHoldsProbe' /\ ListedWasTried'
  BY <1>3 DEF HandlesInv, HandleHoldsProbe, ListedWasTried
<1>7. AttachedWasTried'
  BY <1>1, <1>2, <1>4, LinkAssumption DEF AttachedWasTried
<1> QED BY <1>5, <1>6, <1>7 DEF HandlesInv

LEMMA RegistersKeepsHandles ==
  ASSUME HandlesInv, NEW h \in Handles, Registers(h)
  PROVE  HandlesInv'
<1>1. /\ UNCHANGED <<openInstance, opened, tried, cut, probeOpen, attached, call>>
      /\ attached # None /\ attached \in Devices
      /\ listed' = [listed EXCEPT ![h] = attached]
  BY DEF Registers, Driven, HandlesInv, HandleTypeOK
<1>2. HandleTypeOK' /\ ConnectingIsOpen' /\ AttachedWasTried' /\ HandleHoldsProbe'
  BY <1>1 DEF HandlesInv, HandleTypeOK, ConnectingIsOpen, AttachedWasTried, HandleHoldsProbe
<1>3. opened[h] => attached \in tried[h]
  BY <1>1 DEF HandlesInv, HandleHoldsProbe, AttachedWasTried
<1>4. ListedWasTried'
  BY <1>1, <1>3 DEF HandlesInv, HandleTypeOK, ListedWasTried
<1> QED BY <1>2, <1>4 DEF HandlesInv

LEMMA HandlesKept == HandlesInv /\ [LinkNext]_linkVars => HandlesInv'
<1> SUFFICES ASSUME HandlesInv, [LinkNext]_linkVars PROVE HandlesInv'
  OBVIOUS
<1>0. call \in Calls
  BY DEF HandlesInv, HandleTypeOK
<1>1. CASE \E h \in Handles : OpenHandle(h)
  BY <1>1, OpenKeepsHandles
<1>2. CASE \E h \in Handles : ConnectTo(h)
  <2> PICK h \in Handles, d \in Devices :
        /\ opened[h] /\ call' = Connecting(h, d, FALSE)
        /\ UNCHANGED <<openInstance, opened, listed, tried, cut, probeOpen, attached>>
    BY <1>2 DEF ConnectTo, handleVars
  <2>1. call' \in Calls /\ call'.by = h
    BY CallKinds
  <2>2. HandleTypeOK' /\ ConnectingIsOpen'
    BY <2>1 DEF HandlesInv, HandleTypeOK, ConnectingIsOpen
  <2>3. HandleHoldsProbe' /\ AttachedWasTried' /\ ListedWasTried'
    BY DEF HandlesInv, HandleHoldsProbe, AttachedWasTried, ListedWasTried
  <2> QED BY <2>2, <2>3 DEF HandlesInv
<1>3. CASE Connected
  BY <1>3, TriedKeepsHandles DEF Connected
<1>4. CASE ConnectInterrupted
  BY <1>4, TriedKeepsHandles DEF ConnectInterrupted
<1>5. CASE ConnectRaises
  <2>1. call.op = "connecting" /\ call.by \in Handles /\ call.to \in Devices
    BY <1>5, <1>0, CallKinds DEF ConnectRaises
  <2>2. opened[call.by] /\ listed' = listed /\ call' = Idle
    BY <1>5, <2>1 DEF ConnectRaises, HandlesInv, ConnectingIsOpen
  <2>3. CASE call.opening
    <3>1. HandBack(call.by) \/ HandBackCut(call.by)
      BY <1>5, <2>3 DEF ConnectRaises
    <3>2. /\ tried' \in [Handles -> SUBSET Devices]
          /\ \A g \in Handles : tried[g] \subseteq tried'[g]
      BY <1>5, <2>1 DEF ConnectRaises, HandlesInv, HandleTypeOK
    <3> QED BY <2>1, <2>2, <3>1, <3>2, HandBackKeeps, HandBackCutKeeps
  <2>4. CASE ~call.opening
    BY <1>5, <2>1, <2>4, TriedKeepsHandles DEF ConnectRaises
  <2> QED BY <2>3, <2>4
<1>6. CASE CloseOpenLink \/ \E h \in Handles : CloseHandle(h)
  <2> PICK h \in Handles : Close(h) /\ call = Idle
    BY <1>6 DEF CloseHandle, CloseOpenLink, HandlesInv, HandleTypeOK
  <2>1. call' = call /\ listed' = listed /\ tried' = tried
    BY DEF Close
  <2>2. CASE opened[h]
    <3>1. HandBack(h)
      BY <2>2 DEF Close, AlreadyClosed
    <3> QED BY <2>1, <2>2, <3>1, HandBackKeeps DEF HandlesInv, HandleTypeOK
  <2>3. CASE ~opened[h]
    BY <1>0, <2>1, <2>3, HandlesUntouched DEF Close, AlreadyClosed
  <2> QED BY <2>2, <2>3
<1>7. CASE \E h \in Handles : OpenInterrupted(h) \/ CloseInterrupted(h)
  <2> PICK h \in Handles : OpenInterrupted(h) \/ CloseInterrupted(h)
    BY <1>7
  <2>1. CASE OpenInterrupted(h)
    <3>1. /\ UNCHANGED <<openInstance, opened, listed, tried, attached, call>>
          /\ openInstance = None /\ cut' = "opening"
      BY <2>1 DEF OpenInterrupted, MayOpen
    <3>2. HandleTypeOK' /\ ConnectingIsOpen' /\ AttachedWasTried' /\ ListedWasTried'
      BY <3>1 DEF HandlesInv, HandleTypeOK, ConnectingIsOpen, AttachedWasTried,
                  ListedWasTried
    <3>3. HandleHoldsProbe'
      BY <3>1 DEF HandlesInv, HandleHoldsProbe
    <3> QED BY <3>2, <3>3 DEF HandlesInv
  <2>2. CASE CloseInterrupted(h)
    <3>1. /\ opened[h] /\ HandBackCut(h) /\ call' = Idle
          /\ UNCHANGED <<listed, tried>>
      BY <2>2 DEF CloseInterrupted, AlreadyClosed
    <3> QED BY <3>1, HandBackCutKeeps DEF HandlesInv, HandleTypeOK
  <2> QED BY <2>1, <2>2
<1>8. CASE \E h \in Handles : Forget(h)
  BY <1>0, <1>8, HandlesUntouched DEF Forget
<1>9. CASE \E h \in Handles : Registers(h)
  BY <1>9, RegistersKeepsHandles
<1>10. CASE Halt \/ Go \/ Reset
  BY <1>0, <1>10, HandlesUntouched DEF Halt, Go, Reset, handleVars
<1>11. CASE HaltedLook \/ HaltedHalt \/ HaltedRaises \/ HaltedExit
  <2>1. UNCHANGED <<openInstance, opened, listed, tried, cut, probeOpen, attached>>
    BY <1>11 DEF HaltedLook, HaltedHalt, HaltedRaises, HaltedExit, handleVars
  <2>2. call' = call \/ call' = Idle \/ call' = [op |-> "halting"]
    BY <1>11 DEF HaltedLook, HaltedHalt, HaltedRaises, HaltedExit
  <2>3. call' \in Calls /\ (call' = call \/ call'.op # "connecting")
    BY <1>0, <2>2, CallKinds
  <2> QED BY <2>1, <2>3, HandlesUntouched
<1>12. CASE WaitForHalt \/ WaitPolls \/ WaitEnds \/ WaitDeadline
  <2>1. UNCHANGED <<openInstance, opened, listed, tried, cut, probeOpen, attached>>
    BY <1>12 DEF WaitForHalt, WaitPolls, WaitEnds, WaitDeadline, handleVars, linkVars
  <2>2. call' = call \/ call' = Idle \/ \E b \in BOOLEAN : call' = [op |-> "waiting", late |-> b]
    BY <1>12 DEF WaitForHalt, WaitPolls, WaitEnds, WaitDeadline, linkVars
  <2>3. call' \in Calls /\ (call' = call \/ call'.op # "connecting")
    BY <1>0, <2>2, CallKinds
  <2> QED BY <2>1, <2>3, HandlesUntouched
<1>13. CASE \E p \in Points : SetBreakpoint(p) \/ ClearBreakpoint(p)
  BY <1>0, <1>13, HandlesUntouched DEF SetBreakpoint, ClearBreakpoint, handleVars
<1>14. CASE ClearAllBreakpoints \/ Stops
  BY <1>0, <1>14, HandlesUntouched DEF ClearAllBreakpoints, Stops, handleVars
<1>15. CASE UNCHANGED linkVars
  BY <1>0, <1>15, HandlesUntouched DEF linkVars, handleVars
<1> QED
  BY <1>1, <1>2, <1>3, <1>4, <1>5, <1>6, <1>7, <1>8, <1>9, <1>10, <1>11, <1>12,
     <1>13, <1>14, <1>15 DEF LinkNext

------------------------------------------------------------------------------
(* The core                                                                  *)

\* What leaves the core and the blocks alone and halts nothing keeps their
\* invariant.
LEMMA CoreUntouched ==
  ASSUME CoreInv, UNCHANGED <<core, nest>>,
         call' = call \/ call'.op # "halting"
  PROVE  CoreInv'
  BY DEF CoreInv, CoreTypeOK, OnlyOutermostResumes, BodyRunsHalted

\* The core changes and the blocks do not.
LEMMA CoreChanges ==
  ASSUME CoreInv, UNCHANGED nest, core' \in {"running", "halted"},
         nest = <<>> \/ core' = "halted",
         call' = call
  PROVE  CoreInv'
  BY DEF CoreInv, CoreTypeOK, OnlyOutermostResumes, BodyRunsHalted

\* The blocks without the innermost, and the first of them.
LEMMA FrontOfSeq ==
  ASSUME NEW S, NEW s \in Seq(S), s # <<>>
  PROVE  /\ SubSeq(s, 1, Len(s) - 1) \in Seq(S)
         /\ Len(SubSeq(s, 1, Len(s) - 1)) = Len(s) - 1
         /\ \A i \in 1 .. Len(s) - 1 : SubSeq(s, 1, Len(s) - 1)[i] = s[i]
<1>1. PICK n \in Nat : n = Len(s) - 1
  OBVIOUS
<1>2. \A i \in 1 .. n : s[i] \in S
  BY <1>1
<1>3. 1 \in Int /\ n \in Int
  BY <1>1
<1>4. /\ SubSeq(s, 1, n) \in Seq(S)
      /\ Len(SubSeq(s, 1, n)) = IF 1 <= n THEN n - 1 + 1 ELSE 0
      /\ \A i \in 1 .. n - 1 + 1 : SubSeq(s, 1, n)[i] = s[1 + i - 1]
  BY <1>2, <1>3, SubSeqProperties
<1>5. (IF 1 <= n THEN n - 1 + 1 ELSE 0) = n /\ n - 1 + 1 = n
      /\ \A i \in 1 .. n : 1 + i - 1 = i
  BY <1>1
<1>6. Len(SubSeq(s, 1, n)) = n /\ \A i \in 1 .. n : SubSeq(s, 1, n)[i] = s[i]
  BY <1>4, <1>5, Zenon
<1> QED BY <1>1, <1>4, <1>6, Zenon

LEMMA TwoOrMore ==
  ASSUME NEW n \in Nat, n >= 1, n # 1
  PROVE  n \in 2 .. n
  OBVIOUS

LEMMA AppendToEmpty ==
  ASSUME NEW S, NEW e \in S
  PROVE  Append(<<>>, e) \in Seq(S) /\ Len(Append(<<>>, e)) = 1
  OBVIOUS

LEMMA LookKeepsCore == ASSUME CoreInv, HaltedLook PROVE CoreInv'
<1>1. core' = core
  BY DEF HaltedLook, coreVars
<1>2. CASE core = "running"
  <2>1. nest = <<>> /\ nest' = nest
    BY <1>2 DEF HaltedLook, CoreInv, BodyRunsHalted
  <2> QED BY <1>1, <2>1 DEF CoreInv, CoreTypeOK, OnlyOutermostResumes, BodyRunsHalted
<1>3. CASE core # "running"
  <2>1. core' = "halted" /\ nest' = Append(nest, FALSE) /\ call' = Idle
    BY <1>1, <1>3 DEF HaltedLook, Driven, CoreInv, CoreTypeOK
  <2>2. nest' \in Seq(BOOLEAN) /\ \A i \in 2 .. Len(nest') : nest'[i] = FALSE
    BY <2>1 DEF CoreInv, CoreTypeOK, OnlyOutermostResumes
  <2> QED BY <2>1, <2>2 DEF CoreInv, CoreTypeOK, OnlyOutermostResumes, BodyRunsHalted, Idle
<1> QED BY <1>2, <1>3

LEMMA ExitKeepsCore == ASSUME CoreInv, HaltedExit PROVE CoreInv'
<1>1. /\ nest # <<>> /\ nest \in Seq(BOOLEAN) /\ core = "halted"
      /\ nest' = SubSeq(nest, 1, Len(nest) - 1)
      /\ call' = Idle
  BY DEF HaltedExit, CoreInv, CoreTypeOK, BodyRunsHalted
<1>2. Len(nest) \in Nat /\ Len(nest) >= 1
  BY <1>1
<1>3. /\ nest' \in Seq(BOOLEAN) /\ Len(nest') = Len(nest) - 1
      /\ \A i \in 1 .. Len(nest) - 1 : nest'[i] = nest[i]
  BY <1>1, FrontOfSeq, Zenon
<1>4. \A i \in 2 .. Len(nest') : nest'[i] = FALSE
  BY <1>2, <1>3 DEF CoreInv, OnlyOutermostResumes
<1>5. CASE nest[Len(nest)]
  <2>1. Len(nest) = 1
    <3>1. SUFFICES ASSUME Len(nest) # 1 PROVE FALSE
      OBVIOUS
    <3>2. Len(nest) \in 2 .. Len(nest)
      BY <1>2, <3>1, TwoOrMore, Zenon
    <3>3. nest[Len(nest)] = FALSE
      BY <3>2, Zenon DEF CoreInv, OnlyOutermostResumes
    <3> QED BY <1>5, <3>3, Zenon
  <2>2. nest' = <<>> /\ core' = "running"
    BY <1>1, <1>5, <2>1 DEF HaltedExit, Resumes
  <2> QED BY <1>1, <2>2 DEF CoreInv, CoreTypeOK, OnlyOutermostResumes, BodyRunsHalted, Idle
<1>6. CASE ~nest[Len(nest)]
  <2>1. core' = "halted"
    BY <1>1, <1>6 DEF HaltedExit, Resumes
  <2> QED BY <1>1, <1>3, <1>4, <2>1 DEF CoreInv, CoreTypeOK, OnlyOutermostResumes, BodyRunsHalted, Idle
<1> QED BY <1>5, <1>6

LEMMA CoreKept == CoreInv /\ call \in Calls /\ [LinkNext]_linkVars => CoreInv'
<1> SUFFICES ASSUME CoreInv, call \in Calls, [LinkNext]_linkVars PROVE CoreInv'
  OBVIOUS
<1>1. CASE \E h \in Handles : OpenHandle(h)
  <2> PICK h \in Handles, d \in Devices \union {None} :
        /\ UNCHANGED <<core, nest>>
        /\ call' = Idle \/ (d # None /\ call' = Connecting(h, d, TRUE))
    BY <1>1 DEF OpenHandle, coreVars
  <2>1. call'.op # "halting"
    BY CallKinds
  <2> QED BY <2>1, CoreUntouched
<1>2. CASE \E h \in Handles : ConnectTo(h)
  <2> PICK h \in Handles, d \in Devices :
        UNCHANGED <<core, nest>> /\ call' = Connecting(h, d, FALSE)
    BY <1>2 DEF ConnectTo, coreVars
  <2>1. call'.op # "halting"
    BY CallKinds
  <2> QED BY <2>1, CoreUntouched
<1>3. CASE Connected \/ ConnectRaises \/ ConnectInterrupted \/ CloseOpenLink
           \/ \E h \in Handles : \/ CloseHandle(h) \/ Forget(h) \/ Registers(h)
                                 \/ OpenInterrupted(h) \/ CloseInterrupted(h)
  <2>1. UNCHANGED <<core, nest>> /\ (call' = call \/ call' = Idle)
    BY <1>3 DEF Connected, ConnectRaises, ConnectInterrupted, CloseOpenLink, CloseHandle,
                Close, Forget, Registers, OpenInterrupted, CloseInterrupted, coreVars
  <2> QED BY <2>1, CallKinds, CoreUntouched
<1>4. CASE Halt \/ Go \/ Reset
  BY <1>4, CoreChanges DEF Halt, Go, Reset
<1>5. CASE HaltedLook
  BY <1>5, LookKeepsCore
<1>6. CASE HaltedHalt
  <2>1. nest = <<>> /\ core' = "halted" /\ nest' = Append(nest, TRUE) /\ call' = Idle
    BY <1>6, Zenon DEF HaltedHalt, CoreInv, OnlyOutermostResumes
  <2>2. nest' \in Seq(BOOLEAN) /\ Len(nest') = 1
    <3>1. TRUE \in BOOLEAN
      OBVIOUS
    <3> QED BY <2>1, <3>1, AppendToEmpty, Zenon
  <2> QED BY <2>1, <2>2 DEF CoreInv, CoreTypeOK, OnlyOutermostResumes, BodyRunsHalted, Idle
<1>7. CASE HaltedRaises
  BY <1>7, CallKinds, CoreUntouched DEF HaltedRaises, coreVars
<1>8. CASE HaltedExit
  BY <1>8, ExitKeepsCore
<1>9. CASE WaitForHalt \/ WaitPolls \/ WaitEnds \/ WaitDeadline
  <2>1. UNCHANGED <<core, nest>>
    BY <1>9 DEF WaitForHalt, WaitPolls, WaitEnds, WaitDeadline, coreVars, linkVars
  <2>2. call' = call \/ call' = Idle \/ \E b \in BOOLEAN : call' = [op |-> "waiting", late |-> b]
    BY <1>9 DEF WaitForHalt, WaitPolls, WaitEnds, WaitDeadline, linkVars
  <2>3. call' = call \/ call'.op # "halting"
    BY <2>2, CallKinds
  <2> QED BY <2>1, <2>3, CoreUntouched
<1>10. CASE (\E p \in Points : SetBreakpoint(p) \/ ClearBreakpoint(p)) \/ ClearAllBreakpoints
  BY <1>10, CoreUntouched DEF SetBreakpoint, ClearBreakpoint, ClearAllBreakpoints
<1>11. CASE Stops
  BY <1>11, CoreChanges DEF Stops
<1>12. CASE UNCHANGED linkVars
  BY <1>12, CoreUntouched DEF linkVars, coreVars
<1> QED
  BY <1>1, <1>2, <1>3, <1>4, <1>5, <1>6, <1>7, <1>8, <1>9, <1>10, <1>11, <1>12 DEF LinkNext

------------------------------------------------------------------------------
(* The invariant of Link, from which its three properties follow (see the    *)
(* comments there): interrupts between any two steps of opening, connecting  *)
(* and closing a handle included.                                            *)
THEOREM LinkSafety == LinkSpec => [](HandlesInv /\ CoreInv)
<1>1. HandlesInv => call \in Calls
  BY DEF HandlesInv, HandleTypeOK
<1>2. HandlesInv /\ CoreInv /\ [LinkNext]_linkVars => (HandlesInv /\ CoreInv)'
  BY <1>1, HandlesKept, CoreKept
<1> QED BY InitialHandles, <1>2, PTL DEF LinkSpec

(* Whatever failed, was interrupted or was closed twice, an open handle is   *)
(* the one close_open_link() closes; an open probe has one, unless the last  *)
(* opening was interrupted between OpenEx and _open_instance; and a handle   *)
(* that keeps others from opening has the probe, unless the last closing was *)
(* interrupted between JLINKARM_Close and _open_instance                     *)
(* (link.py:132-180, 776-788).                                               *)
THEOREM OneHandleHoldsTheProbe == LinkSpec => []HandleHoldsProbe
<1>1. HandlesInv => HandleHoldsProbe
  BY DEF HandlesInv
<1> QED BY LinkSafety, <1>1, PTL

(* A handle that has asked for one device only names registers by the list   *)
(* of the device that is attached (link.py:522-548).                         *)
THEOREM RegistersAreOfTheDevice == LinkSpec => []RegistersOfDevice
<1>1. HandlesInv => RegistersOfDevice
  BY DEF HandlesInv, ListedWasTried, RegistersOfDevice
<1> QED BY LinkSafety, <1>1, PTL

(* In every block of a nest of halted() the core is halted, and still is     *)
(* when the blocks inside have ended (link.py:430-440).                      *)
THEOREM HaltedBodiesRunHalted == LinkSpec => []BodyRunsHalted
<1>1. CoreInv => BodyRunsHalted
  BY DEF CoreInv
<1> QED BY LinkSafety, <1>1, PTL

------------------------------------------------------------------------------

(* The composition implements the module of the handles: each of its steps   *)
(* is one of link.py's, or leaves the handles and the core alone.            *)
THEOREM ProbeRunsLink == ProbeSpec => LinkSpec
<1>1. ProbeInit => LinkInit
  BY DEF ProbeInit
<1>2. [ProbeNext]_probeVars => [LinkNext]_linkVars
  BY DEF ProbeNext, probeVars, LinkStep, StreamStep, TimeStep
<1> QED BY <1>1, <1>2, PTL DEF ProbeSpec, LinkSpec

(* The three properties of the handles, under the specification that is      *)
(* model-checked (link.py:132-180, 430-440, 522-548).                        *)
THEOREM ProbeHandlesSafe ==
  ProbeSpec => [](HandleHoldsProbe /\ RegistersOfDevice /\ BodyRunsHalted)
  BY ProbeRunsLink, OneHandleHoldsTheProbe, RegistersAreOfTheDevice,
     HaltedBodiesRunHalted, PTL

------------------------------------------------------------------------------
(* The bytes of a reader. What was taken goes up, then what the DLL holds,   *)
(* and neither has anything that was lost: what each step of a read does to  *)
(* the three is a lemma, of any bytes.                                       *)
Ascending(s) == \A i, j \in 1..Len(s) : i < j => s[i] < s[j]

Accounted(taken, have, lost, n) ==
  /\ taken \in Seq(Nat) /\ have \in Seq(Nat)
  /\ Ascending(taken) /\ Ascending(have)
  /\ \A i \in 1..Len(taken), j \in 1..Len(have) : taken[i] < have[j]
  /\ \A i \in 1..Len(taken) : taken[i] \in 1..n /\ taken[i] \notin lost
  /\ \A j \in 1..Len(have) : have[j] \in 1..n /\ have[j] \notin lost
  /\ lost \subseteq 1..n
  /\ \A b \in 1..n :
       \/ b \in lost
       \/ \E i \in 1..Len(taken) : taken[i] = b
       \/ \E j \in 1..Len(have) : have[j] = b

(* A read in progress asks for no more than was there when it asked, and     *)
(* only it takes.                                                            *)
ByteInv ==
  kind \in BufferKinds =>
    /\ arrived \in Nat
    /\ Accounted(got, buffer, gone, arrived)
    /\ reading.op \in {"read", "flush", "items"} => reading.n \in 0..Len(buffer)
    /\ ~walk.on

(* A walk has read as much as it has advanced, and it began with no more     *)
(* than there is now: the buffer does not shrink while it runs.              *)
WalkInv ==
  kind = "trace" =>
    /\ buffer \in Seq(Nat) /\ got \in Seq(Nat) /\ arrived \in Nat
    /\ reading \in [op : {"none"}, n : Nat]
    /\ walk \in [total : Nat, shifted : BOOLEAN, short : BOOLEAN, on : BOOLEAN]
    /\ walk.on =>
         reading.n = Len(got) /\ Len(got) <= walk.total /\ walk.total <= Len(buffer)
    /\ ~walk.shifted =>
         /\ Len(got) <= Len(buffer)
         /\ \A i \in 1..Len(got) : got[i] = buffer[i]
         /\ walk.on \/ walk.short \/ Len(got) = walk.total

LEMMA AccountedLengths ==
  ASSUME NEW t, NEW h, NEW l, NEW n \in Nat, Accounted(t, h, l, n)
  PROVE  /\ t \in Seq(Nat) /\ h \in Seq(Nat) /\ Len(t) \in Nat /\ Len(h) \in Nat
BY DEF Accounted

(* What a read takes moves from the DLL to the reader.                       *)
LEMMA TakeAccounted ==
  ASSUME NEW t, NEW h, NEW l, NEW n \in Nat, Accounted(t, h, l, n),
         NEW k \in 0..Len(h)
  PROVE  Accounted(t \o SubSeq(h, 1, k), SubSeq(h, k + 1, Len(h)), l, n)
<1>1. t \in Seq(Nat) /\ h \in Seq(Nat) /\ Len(t) \in Nat /\ Len(h) \in Nat /\ k \in Nat
  BY DEF Accounted
<1>2. PICK s \in Seq(Nat) : s = SubSeq(h, 1, k)
  <2>1. SubSeq(h, 1, k) \in Seq(Nat)
    BY <1>1
  <2> QED BY <2>1, Zenon
<1>3. PICK u \in Seq(Nat) : u = SubSeq(h, k + 1, Len(h))
  <2>1. SubSeq(h, k + 1, Len(h)) \in Seq(Nat)
    BY <1>1
  <2> QED BY <2>1, Zenon
<1>4. Len(s) = k /\ \A i \in 1..k : s[i] = h[i] /\ i \in 1..Len(h)
  BY <1>1, <1>2
<1>5. /\ Len(u) = Len(h) - k
      /\ \A i \in 1..Len(u) : u[i] = h[k + i] /\ k + i \in 1..Len(h)
  BY <1>1, <1>3
<1>6. PICK v \in Seq(Nat) : v = t \o s
  <2>1. t \o s \in Seq(Nat)
    BY <1>1
  <2> QED BY <2>1, Zenon
<1>7. /\ Len(v) = Len(t) + k
      /\ \A i \in 1..Len(t) : v[i] = t[i]
      /\ \A i \in 1..Len(v) : i > Len(t) => v[i] = h[i - Len(t)] /\ i - Len(t) \in 1..k
  <2>1. Len(v) = Len(t) + k /\ \A i \in 1..Len(t) : v[i] = t[i]
    <3>1. t \in Seq(Nat) /\ s \in Seq(Nat) /\ v = t \o s
      BY <1>1, <1>6
    <3>2. Len(v) = Len(t) + Len(s) /\ \A i \in 1..Len(t) : v[i] = t[i]
      BY <3>1
    <3> QED BY <1>4, <3>2, Zenon
  <2>2. ASSUME NEW i \in 1..Len(v), i > Len(t)
        PROVE  v[i] = h[i - Len(t)] /\ i - Len(t) \in 1..k
    <3>1. i - Len(t) \in 1..k
      BY SMTT(40), <1>1, <2>1, <2>2
    <3>2. v[i] = s[i - Len(t)]
      BY <1>1, <1>4, <1>6, <2>1, <2>2
    <3> QED BY <1>4, <3>1, <3>2
  <2> QED BY <2>1, <2>2
<1>8. Ascending(v)
  <2> SUFFICES ASSUME NEW i \in 1..Len(v), NEW j \in 1..Len(v), i < j
               PROVE  v[i] < v[j]
    BY DEF Ascending
  <2>1. CASE j \in 1..Len(t)
    <3>1. i \in 1..Len(t)
      BY <1>1, <2>1
    <3> QED BY <1>7, <2>1, <3>1 DEF Accounted, Ascending
  <2>2. CASE i \in 1..Len(t) /\ j \notin 1..Len(t)
    <3>1. v[j] = h[j - Len(t)] /\ j - Len(t) \in 1..Len(h) /\ v[i] = t[i]
      <4>1. j > Len(t)
        BY <1>1, <1>7, <2>2
      <4> QED BY <1>4, <1>7, <2>2, <4>1
    <3> QED BY <2>2, <3>1 DEF Accounted
  <2>3. CASE i \notin 1..Len(t)
    <3>1. i > Len(t) /\ j > Len(t) /\ i - Len(t) < j - Len(t)
      BY SMTT(40), <1>1, <1>7, <2>3
    <3>2. /\ v[j] = h[j - Len(t)] /\ j - Len(t) \in 1..Len(h)
          /\ v[i] = h[i - Len(t)] /\ i - Len(t) \in 1..Len(h)
      BY <1>4, <1>7, <3>1
    <3> QED BY <3>1, <3>2 DEF Accounted, Ascending
  <2> QED BY <2>1, <2>2, <2>3
<1>9. Ascending(u)
  <2> SUFFICES ASSUME NEW i \in 1..Len(u), NEW j \in 1..Len(u), i < j
               PROVE  u[i] < u[j]
    BY DEF Ascending
  <2>1. k + i \in 1..Len(h) /\ k + j \in 1..Len(h) /\ k + i < k + j
    BY <1>1, <1>5
  <2>2. h[k + i] < h[k + j]
    BY <2>1 DEF Accounted, Ascending
  <2> QED BY <1>5, <2>2
<1>10. ASSUME NEW i \in 1..Len(v), NEW j \in 1..Len(u)
       PROVE  v[i] < u[j]
  <2>1. u[j] = h[k + j] /\ k + j \in 1..Len(h)
    BY <1>5
  <2>2. CASE i \in 1..Len(t)
    BY <1>7, <2>1, <2>2 DEF Accounted
  <2>3. CASE i \notin 1..Len(t)
    <3>1. v[i] = h[i - Len(t)] /\ i - Len(t) \in 1..k /\ i - Len(t) \in 1..Len(h)
          /\ i - Len(t) < k + j
      BY SMTT(40), <1>1, <1>4, <1>7, <2>3
    <3>2. h[i - Len(t)] < h[k + j]
      BY <2>1, <3>1 DEF Accounted, Ascending
    <3> QED BY <2>1, <3>1, <3>2
  <2> QED BY <2>2, <2>3
<1>11. ASSUME NEW i \in 1..Len(v)
       PROVE  v[i] \in 1..n /\ v[i] \notin l
  <2>1. CASE i \in 1..Len(t)
    BY <1>7, <2>1 DEF Accounted
  <2>2. CASE i \notin 1..Len(t)
    <3>1. i > Len(t)
      BY <1>1, <1>7, <2>2
    <3>2. v[i] = h[i - Len(t)] /\ i - Len(t) \in 1..Len(h)
      BY <1>4, <1>7, <3>1
    <3> QED BY <3>2 DEF Accounted
  <2> QED BY <2>1, <2>2
<1>12. \A j \in 1..Len(u) : u[j] \in 1..n /\ u[j] \notin l
  BY <1>5 DEF Accounted
<1>13. ASSUME NEW b \in 1..n
       PROVE  \/ b \in l
              \/ \E i \in 1..Len(v) : v[i] = b
              \/ \E j \in 1..Len(u) : u[j] = b
  <2>1. \/ b \in l
        \/ \E i \in 1..Len(t) : t[i] = b
        \/ \E j \in 1..Len(h) : h[j] = b
    BY DEF Accounted
  <2>2. ASSUME NEW i \in 1..Len(t), t[i] = b
        PROVE  \E q \in 1..Len(v) : v[q] = b
    <3>1. i \in 1..Len(v) /\ v[i] = b
      BY SMTT(40), <1>1, <1>7, <2>2
    <3> QED BY <3>1
  <2>3. ASSUME NEW j \in 1..Len(h), h[j] = b, j <= k
        PROVE  \E q \in 1..Len(v) : v[q] = b
    <3>1. PICK q \in 1..Len(v) : q = Len(t) + j
      <4>1. Len(t) + j \in 1..Len(v)
        BY <1>1, <1>7, <2>3
      <4> QED BY <4>1, Zenon
    <3>2. q > Len(t) /\ q - Len(t) = j
      BY <1>1, <3>1
    <3> QED BY <1>7, <2>3, <3>2
  <2>4. ASSUME NEW j \in 1..Len(h), h[j] = b, ~(j <= k)
        PROVE  \E q \in 1..Len(u) : u[q] = b
    <3>1. PICK q \in 1..Len(u) : q = j - k
      <4>1. j - k \in 1..Len(u)
        BY <1>1, <1>5, <2>4
      <4> QED BY <4>1, Zenon
    <3>2. k + q = j
      BY <1>1, <3>1
    <3> QED BY <1>5, <2>4, <3>2
  <2> QED BY <2>1, <2>2, <2>3, <2>4
<1>14. l \subseteq 1..n
  BY DEF Accounted
<1>15. Accounted(v, u, l, n)
  BY <1>8, <1>9, <1>10, <1>11, <1>12, <1>13, <1>14 DEF Accounted
<1> QED BY <1>2, <1>3, <1>6, <1>15

(* What a flush drops is lost, and nothing else is.                          *)
LEMMA FlushAccounted ==
  ASSUME NEW t, NEW h, NEW l, NEW n \in Nat, Accounted(t, h, l, n),
         NEW k \in 0..Len(h)
  PROVE  Accounted(t, SubSeq(h, k + 1, Len(h)), l \union {h[i] : i \in 1..k}, n)
<1>1. t \in Seq(Nat) /\ h \in Seq(Nat) /\ Len(t) \in Nat /\ Len(h) \in Nat /\ k \in Nat
  BY DEF Accounted
<1>2. PICK u \in Seq(Nat) : u = SubSeq(h, k + 1, Len(h))
  <2>1. SubSeq(h, k + 1, Len(h)) \in Seq(Nat)
    BY <1>1
  <2> QED BY <2>1, Zenon
<1>3. PICK d : d = {h[i] : i \in 1..k}
  OBVIOUS
<1>4. /\ Len(u) = Len(h) - k
      /\ \A i \in 1..Len(u) : u[i] = h[k + i] /\ k + i \in 1..Len(h)
  BY <1>1, <1>2
<1>5. \A b \in d : \E i \in 1..Len(h) : i <= k /\ b = h[i]
  BY <1>1, <1>3
<1>6. ASSUME NEW i \in 1..Len(u), NEW j \in 1..Len(u), i < j
      PROVE  u[i] < u[j]
  <2>1. k + i \in 1..Len(h) /\ k + j \in 1..Len(h) /\ k + i < k + j
    BY <1>1, <1>4, <1>6
  <2>2. h[k + i] < h[k + j]
    BY <2>1 DEF Accounted, Ascending
  <2> QED BY <1>4, <2>2
<1>7. \A i \in 1..Len(t), j \in 1..Len(u) : t[i] < u[j]
  BY <1>4 DEF Accounted
<1>8. ASSUME NEW i \in 1..Len(t)
      PROVE  t[i] \in 1..n /\ t[i] \notin l \union d
  <2>1. \A j \in 1..Len(h) : t[i] < h[j] /\ t[i] \in Nat /\ h[j] \in Nat
    BY SMTT(40), <1>1 DEF Accounted
  <2>2. t[i] \notin d
    BY <1>5, <2>1
  <2> QED BY <2>2 DEF Accounted
<1>9. ASSUME NEW j \in 1..Len(u)
      PROVE  u[j] \in 1..n /\ u[j] \notin l \union d
  <2>1. u[j] = h[k + j] /\ k + j \in 1..Len(h)
    BY <1>4
  <2>2. \A i \in 1..Len(h) : i <= k => h[i] < h[k + j] /\ h[i] \in Nat
    <3>1. \A i \in 1..Len(h) : h[i] \in Nat
      BY SMTT(40), <1>1
    <3>2. \A p, q \in 1..Len(h) : p < q => h[p] < h[q]
      BY DEF Accounted, Ascending
    <3>3. \A i \in 1..Len(h) : i <= k => i < k + j
      BY <1>1, <1>4
    <3> QED BY <2>1, <3>1, <3>2, <3>3
  <2>3. h[k + j] \in Nat
    BY SMTT(40), <1>1, <2>1
  <2>4. ASSUME u[j] \in d
        PROVE  FALSE
    <3>1. PICK i \in 1..Len(h) : i <= k /\ u[j] = h[i]
      BY <1>5, <2>4
    <3>2. h[i] < h[k + j] /\ h[i] = h[k + j] /\ h[i] \in Nat
      BY <2>1, <2>2, <3>1
    <3> QED BY <3>2
  <2> QED BY <2>1, <2>4 DEF Accounted
<1>10. l \union d \subseteq 1..n
  BY <1>5 DEF Accounted
<1>11. ASSUME NEW b \in 1..n
       PROVE  \/ b \in l \union d
              \/ \E i \in 1..Len(t) : t[i] = b
              \/ \E j \in 1..Len(u) : u[j] = b
  <2>1. \/ b \in l
        \/ \E i \in 1..Len(t) : t[i] = b
        \/ \E j \in 1..Len(h) : h[j] = b
    BY DEF Accounted
  <2>2. ASSUME NEW j \in 1..Len(h), h[j] = b, j <= k
        PROVE  b \in d
    BY <1>1, <1>3, <2>2
  <2>3. ASSUME NEW j \in 1..Len(h), h[j] = b, ~(j <= k)
        PROVE  \E q \in 1..Len(u) : u[q] = b
    <3>1. PICK q \in 1..Len(u) : q = j - k
      <4>1. j - k \in 1..Len(u)
        BY <1>1, <1>4, <2>3
      <4> QED BY <4>1, Zenon
    <3>2. k + q = j
      BY <1>1, <3>1
    <3> QED BY <1>4, <2>3, <3>2
  <2> QED BY <2>1, <2>2, <2>3
<1>12. Ascending(u)
  BY <1>6 DEF Ascending
<1>13. Accounted(t, u, l \union d, n)
  BY <1>1, <1>7, <1>8, <1>9, <1>10, <1>11, <1>12 DEF Accounted
<1> QED BY <1>2, <1>3, <1>13

(* A byte that arrives is the next one: held, or lost in a full buffer.      *)
LEMMA ArriveAccounted ==
  ASSUME NEW t, NEW h, NEW l, NEW n \in Nat, Accounted(t, h, l, n)
  PROVE  /\ Accounted(t, Append(h, n + 1), l, n + 1)
         /\ Accounted(t, h, l \union {n + 1}, n + 1)
<1>1. t \in Seq(Nat) /\ h \in Seq(Nat) /\ Len(t) \in Nat /\ Len(h) \in Nat
  BY DEF Accounted
<1>2. PICK u \in Seq(Nat) : u = Append(h, n + 1)
  <2>1. Append(h, n + 1) \in Seq(Nat)
    BY <1>1
  <2> QED BY <2>1, Zenon
<1>3. /\ Len(u) = Len(h) + 1 /\ u[Len(h) + 1] = n + 1
      /\ \A i \in 1..Len(h) : u[i] = h[i] /\ i \in 1..Len(u)
      /\ Len(h) + 1 \in 1..Len(u)
  BY <1>1, <1>2, AppendProperties
<1>4. /\ \A i \in 1..Len(t) : t[i] \in 1..n /\ t[i] \notin l /\ t[i] < n + 1
      /\ \A i \in 1..Len(h) : h[i] \in 1..n /\ h[i] \notin l /\ h[i] < n + 1
      /\ l \subseteq 1..n /\ n + 1 \notin l
  BY DEF Accounted
<1>5. \A b \in 1..(n + 1) : b \in 1..n \/ b = n + 1
  OBVIOUS
<1>6. 1..n \subseteq 1..(n + 1) /\ n + 1 \in 1..(n + 1)
  OBVIOUS
<1>7. \A j \in 1..Len(u) : j \in 1..Len(h) \/ j = Len(h) + 1
  BY <1>1, <1>3
<1>8. Ascending(u)
  <2> SUFFICES ASSUME NEW i \in 1..Len(u), NEW j \in 1..Len(u), i < j
               PROVE  u[i] < u[j]
    BY DEF Ascending
  <2>1. i \in 1..Len(h)
    BY <1>1, <1>3
  <2> QED BY <1>3, <1>4, <1>7, <2>1 DEF Accounted, Ascending
<1>9. \A i \in 1..Len(t), j \in 1..Len(u) : t[i] < u[j]
  BY ZenonT(40), <1>3, <1>4, <1>7 DEF Accounted
<1>10. \A j \in 1..Len(u) : u[j] \in 1..(n + 1) /\ u[j] \notin l
  BY <1>3, <1>4, <1>6, <1>7
<1>11. \A b \in 1..(n + 1) :
         \/ b \in l
         \/ \E i \in 1..Len(t) : t[i] = b
         \/ \E j \in 1..Len(u) : u[j] = b
  BY <1>3, <1>5 DEF Accounted
<1>12. Accounted(t, u, l, n + 1)
  BY <1>1, <1>4, <1>6, <1>8, <1>9, <1>10, <1>11 DEF Accounted
<1>13. Accounted(t, h, l \union {n + 1}, n + 1)
  <2>1. \A i \in 1..Len(t) : t[i] \in 1..(n + 1) /\ t[i] \notin l \union {n + 1}
    BY <1>4, <1>6
  <2>2. \A i \in 1..Len(h) : h[i] \in 1..(n + 1) /\ h[i] \notin l \union {n + 1}
    BY <1>4, <1>6
  <2>3. l \union {n + 1} \subseteq 1..(n + 1)
    BY <1>4, <1>6
  <2>4. \A b \in 1..(n + 1) :
          \/ b \in l \union {n + 1}
          \/ \E i \in 1..Len(t) : t[i] = b
          \/ \E j \in 1..Len(h) : h[j] = b
    BY <1>5 DEF Accounted
  <2> QED BY <1>1, <2>1, <2>2, <2>3, <2>4 DEF Accounted
<1> QED BY <1>2, <1>12, <1>13

LEMMA Joined ==
  ASSUME NEW s \in Seq(Nat), NEW t \in Seq(Nat), NEW r, r = s \o t
  PROVE  /\ r \in Seq(Nat) /\ Len(r) = Len(s) + Len(t)
         /\ \A i \in 1..Len(r) : r[i] = IF i <= Len(s) THEN s[i] ELSE t[i - Len(s)]
<1>1. /\ s \o t \in Seq(Nat) /\ Len(s \o t) = Len(s) + Len(t)
      /\ \A i \in 1..Len(s) + Len(t) :
           (s \o t)[i] = IF i <= Len(s) THEN s[i] ELSE t[i - Len(s)]
  BY ConcatProperties
<1> QED BY <1>1, Zenon

LEMMA LeastOfTwo ==
  ASSUME NEW a \in Nat, NEW b \in Nat
  PROVE  Min({a, b}) \in 0..a /\ Min({a, b}) <= b
<1> DEFINE Least(x) == \A y \in {a, b} : x <= y
<1>1. \E x \in {a, b} : Least(x)
  OBVIOUS
<1>2. PICK m : m = Min({a, b}) /\ m = CHOOSE x \in {a, b} : Least(x)
  BY DEF Min
<1> HIDE DEF Least
<1>3. m \in {a, b} /\ Least(m)
  BY <1>1, <1>2
<1> QED BY <1>2, <1>3 DEF Least

LEMMA LeastOfThree ==
  ASSUME NEW a \in Int, NEW b \in Int, NEW c \in Int
  PROVE  /\ Min({a, b, c}) \in Int
         /\ Min({a, b, c}) <= a /\ Min({a, b, c}) <= b /\ Min({a, b, c}) <= c
<1> DEFINE Least(x) == \A y \in {a, b, c} : x <= y
<1>1. \E x \in {a, b, c} : Least(x)
  <2>1. CASE a <= b /\ a <= c
    BY <2>1
  <2>2. CASE b <= a /\ b <= c
    BY <2>2
  <2>3. CASE c <= a /\ c <= b
    BY <2>3
  <2> QED BY <2>1, <2>2, <2>3
<1>2. PICK m : m = Min({a, b, c}) /\ m = CHOOSE x \in {a, b, c} : Least(x)
  BY DEF Min
<1> HIDE DEF Least
<1>3. m \in {a, b, c} /\ Least(m)
  BY <1>1, <1>2
<1> QED BY <1>2, <1>3 DEF Least

LEMMA ByteInvInit == StreamsInit => ByteInv
<1> SUFFICES ASSUME StreamsInit
             PROVE  ByteInv
  OBVIOUS
<1>1. Accounted(<<>>, <<>>, {}, 0)
  BY DEF Accounted, Ascending
<1> QED BY <1>1 DEF StreamsInit, Resting, ByteInv

(* The reads that ask before they take.                                      *)
LEMMA AskingKeepsBytes ==
  ASSUME ByteInv, SwoRead \/ SwoFlush \/ PowerCount \/ ReadRaises \/ RttWait \/ RttWaitEnds
  PROVE  ByteInv'
<1> SUFFICES ASSUME kind \in BufferKinds, kind' = kind
             PROVE  ByteInv'
  BY DEF ByteInv, SwoRead, SwoFlush, PowerCount, ReadRaises, RttWait, RttWaitEnds
<1>1. /\ arrived' = arrived /\ buffer' = buffer /\ got' = got /\ gone' = gone /\ walk' = walk
  BY DEF SwoRead, SwoFlush, PowerCount, ReadRaises, RttWait, RttWaitEnds
<1>2. /\ arrived \in Nat /\ Accounted(got, buffer, gone, arrived) /\ ~walk.on
      /\ Len(buffer) \in Nat /\ Chunk \in Nat
  BY AccountedLengths, StreamsAssumption DEF ByteInv
<1>3. reading'.op \in {"read", "flush", "items"} => reading'.n \in 0..Len(buffer)
  <2>1. CASE SwoRead
    <3>1. Min({Len(buffer), Chunk}) \in 0..Len(buffer)
      BY <1>2, LeastOfTwo
    <3>2. \/ reading' = Resting
          \/ reading' = [op |-> "read", n |-> Min({Len(buffer), Chunk})]
      BY <2>1, Zenon DEF SwoRead
    <3> QED BY <3>1, <3>2 DEF Resting
  <2>2. CASE SwoFlush
    BY <1>2, <2>2 DEF SwoFlush
  <2>3. CASE PowerCount
    BY <1>2, <2>3 DEF PowerCount, Resting
  <2>4. CASE ReadRaises \/ RttWait \/ RttWaitEnds
    BY <2>4 DEF ReadRaises, RttWait, RttWaitEnds, Resting
  <2> QED BY <2>1, <2>2, <2>3, <2>4
<1> QED BY <1>1, <1>2, <1>3 DEF ByteInv

(* The reads that take, and the flush.                                       *)
LEMMA TakingKeepsBytes ==
  ASSUME ByteInv, SwoReadFlush \/ SwoFlushed \/ RttRead \/ PowerRead
  PROVE  ByteInv'
<1> SUFFICES ASSUME kind \in BufferKinds, kind' = kind
             PROVE  ByteInv'
  BY DEF ByteInv, SwoReadFlush, SwoFlushed, RttRead, PowerRead
<1>1. arrived' = arrived /\ walk' = walk
  BY DEF SwoReadFlush, SwoFlushed, RttRead, PowerRead
<1>2. /\ arrived \in Nat /\ Accounted(got, buffer, gone, arrived) /\ ~walk.on
      /\ Len(buffer) \in Nat /\ Chunk \in Nat
      /\ reading.op \in {"read", "flush", "items"} => reading.n \in 0..Len(buffer)
  BY AccountedLengths, StreamsAssumption DEF ByteInv
<1>3. CASE SwoReadFlush \/ PowerRead
  <2>1. PICK k \in 0..Len(buffer) : k = reading.n
    BY <1>2, <1>3 DEF SwoReadFlush, PowerRead
  <2>2. /\ got' = got \o SubSeq(buffer, 1, k) /\ buffer' = SubSeq(buffer, k + 1, Len(buffer))
        /\ gone' = gone /\ reading' = Resting
    BY <1>3, <2>1 DEF SwoReadFlush, PowerRead, Take, Drop, ReadFlushes
  <2>3. Accounted(got', buffer', gone', arrived)
    BY <1>2, <2>2, TakeAccounted
  <2> QED BY <1>1, <1>2, <2>2, <2>3 DEF ByteInv, Resting
<1>4. CASE SwoFlushed
  <2>1. PICK k \in 0..Len(buffer) : k = reading.n
    BY <1>2, <1>4 DEF SwoFlushed
  <2>2. /\ gone' = gone \union {buffer[i] : i \in 1..k}
        /\ buffer' = SubSeq(buffer, k + 1, Len(buffer))
        /\ got' = got /\ reading' = Resting
    BY <1>4, <2>1 DEF SwoFlushed, Drop
  <2>3. Accounted(got', buffer', gone', arrived)
    BY <1>2, <2>2, FlushAccounted
  <2> QED BY <1>1, <1>2, <2>2, <2>3 DEF ByteInv, Resting
<1>5. CASE RttRead
  <2>1. PICK k \in 0..Len(buffer) : k = Min({Len(buffer), Chunk})
    BY <1>2, LeastOfTwo
  <2>2. /\ got' = got \o SubSeq(buffer, 1, k) /\ buffer' = SubSeq(buffer, k + 1, Len(buffer))
        /\ gone' = gone /\ reading' = reading /\ reading = Resting
    BY <1>5, <2>1 DEF RttRead, Take, Drop, MayRead
  <2>3. Accounted(got', buffer', gone', arrived)
    BY <1>2, <2>2, TakeAccounted
  <2> QED BY <1>1, <1>2, <2>2, <2>3 DEF ByteInv, Resting
<1> QED BY <1>3, <1>4, <1>5

LEMMA ArrivingKeepsBytes ==
  ASSUME ByteInv, Arrive
  PROVE  ByteInv'
<1> SUFFICES ASSUME kind \in BufferKinds, kind' = kind
             PROVE  ByteInv'
  BY DEF ByteInv, Arrive
<1>1. arrived' = arrived + 1 /\ walk' = walk /\ reading' = reading /\ got' = got
  BY DEF Arrive
<1>2. /\ arrived \in Nat /\ Accounted(got, buffer, gone, arrived) /\ ~walk.on
      /\ Len(buffer) \in Nat /\ buffer \in Seq(Nat)
      /\ reading.op \in {"read", "flush", "items"} => reading.n \in 0..Len(buffer)
  BY AccountedLengths DEF ByteInv
<1>3. CASE buffer' = Append(buffer, arrived + 1) /\ gone' = gone
  <2>1. Accounted(got', buffer', gone', arrived')
    BY <1>1, <1>2, <1>3, ArriveAccounted
  <2>2. Len(buffer') = Len(buffer) + 1
    BY <1>2, <1>3, AppendProperties
  <2> QED BY <1>1, <1>2, <2>1, <2>2 DEF ByteInv
<1>4. CASE gone' = gone \union {arrived + 1} /\ buffer' = buffer
  <2>1. Accounted(got', buffer', gone', arrived')
    BY <1>1, <1>2, <1>4, ArriveAccounted
  <2> QED BY <1>1, <1>2, <1>4, <2>1 DEF ByteInv
<1> QED BY <1>3, <1>4 DEF Arrive

LEMMA ByteInvNext == ByteInv /\ [StreamsNext]_streamVars => ByteInv'
<1> SUFFICES ASSUME ByteInv, [StreamsNext]_streamVars
             PROVE  ByteInv'
  OBVIOUS
<1>1. CASE \/ Start \/ TargetReady \/ Stop
           \/ StreamStart \/ StreamLeft \/ DeadlinePasses \/ StreamEnds
           \/ UNCHANGED streamVars
  <2>1. UNCHANGED <<kind, arrived, buffer, got, gone, reading, walk>>
    BY <1>1 DEF Start, TargetReady, Stop, StreamStart, StreamLeft, DeadlinePasses, StreamEnds,
                dataVars, streamVars
  <2> QED BY <2>1 DEF ByteInv
<1>2. CASE SwoRead \/ SwoFlush \/ PowerCount \/ ReadRaises \/ RttWait \/ RttWaitEnds
  BY <1>2, AskingKeepsBytes
<1>3. CASE SwoReadFlush \/ SwoFlushed \/ RttRead \/ PowerRead
  BY <1>3, TakingKeepsBytes
<1>4. CASE Arrive
  BY <1>4, ArrivingKeepsBytes
<1>5. ASSUME NEW o \in Readers, HssStart(o) \/ HssStop(o) \/ HssRead(o)
      PROVE  ByteInv'
  <2>1. kind = "hss" /\ kind' = kind
    BY <1>5 DEF HssStart, HssStop, HssRead, dataVars
  <2> QED BY <2>1 DEF ByteInv, BufferKinds
<1>6. CASE HssSample
  <2>1. kind = "hss" /\ kind' = kind
    BY <1>6 DEF HssSample
  <2> QED BY <2>1 DEF ByteInv, BufferKinds
<1>7. CASE TraceSample \/ TraceFlush \/ WalkStart
  <2>1. kind = "trace" /\ kind' = kind
    BY <1>7 DEF TraceSample, TraceFlush, WalkStart
  <2> QED BY <2>1 DEF ByteInv, BufferKinds
<1>8. CASE WalkRead \/ WalkRaises \/ WalkEnd
  <2>1. walk.on /\ kind' = kind
    BY <1>8 DEF WalkRead, WalkRaises, WalkEnd
  <2> QED BY <2>1 DEF ByteInv
<1> QED BY <1>1, <1>2, <1>3, <1>4, <1>5, <1>6, <1>7, <1>8 DEF StreamsNext

LEMMA BytesAccounted == ByteInv => EachByteOnce
<1> SUFFICES ASSUME ByteInv, kind \in BufferKinds
             PROVE  /\ Increasing(got \o buffer)
                    /\ ToSet(got) \intersect gone = {} /\ ToSet(buffer) \intersect gone = {}
                    /\ ToSet(got) \union ToSet(buffer) \union gone = 1..arrived
  BY DEF EachByteOnce
<1>1. /\ arrived \in Nat /\ Accounted(got, buffer, gone, arrived)
      /\ got \in Seq(Nat) /\ buffer \in Seq(Nat) /\ Len(buffer) \in Nat /\ Len(got) \in Nat
  BY AccountedLengths DEF ByteInv
<1>2. /\ \A b : b \in ToSet(got) <=> \E i \in 1..Len(got) : got[i] = b
      /\ \A b : b \in ToSet(buffer) <=> \E i \in 1..Len(buffer) : buffer[i] = b
  BY <1>1 DEF ToSet
<1>3. ToSet(got) \intersect gone = {} /\ ToSet(buffer) \intersect gone = {}
  BY <1>1, <1>2 DEF Accounted
<1>4. ToSet(got) \union ToSet(buffer) \union gone = 1..arrived
  BY <1>1, <1>2 DEF Accounted
<1>5. PICK s \in Seq(Nat) : s = got \o buffer
  <2>1. got \o buffer \in Seq(Nat)
    BY <1>1
  <2> QED BY <2>1, Zenon
<1>6. Len(s) = Len(got) + Len(buffer)
  BY <1>1, <1>5
<1>7. ASSUME NEW i \in 1..Len(s) - 1
      PROVE  s[i] < s[i + 1]
  <2>1. CASE i + 1 \in 1..Len(got)
    <3>1. i \in 1..Len(got) /\ s[i] = got[i] /\ s[i + 1] = got[i + 1] /\ i < i + 1
      BY <1>1, <1>5, <1>6, <2>1
    <3> QED BY <1>1, <2>1, <3>1 DEF Accounted, Ascending
  <2>2. CASE i = Len(got)
    <3>1. /\ i \in 1..Len(got) /\ 1 \in 1..Len(buffer)
          /\ s[i] = got[i] /\ s[i + 1] = buffer[1]
      BY <1>1, <1>5, <1>6, <2>2
    <3> QED BY <1>1, <3>1 DEF Accounted
  <2>3. CASE i > Len(got)
    <3>1. PICK j \in 1..Len(buffer) : j = i - Len(got) /\ j + 1 \in 1..Len(buffer)
      <4>1. i - Len(got) \in 1..Len(buffer) /\ (i - Len(got)) + 1 \in 1..Len(buffer)
        BY <1>1, <1>6, <2>3
      <4> QED BY <4>1, Zenon
    <3>2. s[i] = buffer[i - Len(got)] /\ s[i + 1] = buffer[(i + 1) - Len(got)]
      <4>1. /\ i \in 1..Len(s) /\ ~(i <= Len(got))
            /\ i + 1 \in 1..Len(s) /\ ~(i + 1 <= Len(got))
        BY <1>1, <1>6, <2>3
      <4> QED BY <1>1, <1>5, <4>1, Joined
    <3>3. i - Len(got) = j /\ (i + 1) - Len(got) = j + 1 /\ j < j + 1
      BY <1>1, <2>3, <3>1
    <3>4. s[i] = buffer[j] /\ s[i + 1] = buffer[j + 1]
      BY <3>2, <3>3
    <3> QED BY <1>1, <3>1, <3>3, <3>4 DEF Accounted, Ascending
  <2> QED BY <1>1, <1>6, <2>1, <2>2, <2>3
<1> QED BY <1>3, <1>4, <1>5, <1>7 DEF Increasing

------------------------------------------------------------------------------
(* The walk of the TRACE buffer.                                             *)
LEMMA WalkInvInit == StreamsInit => WalkInv
BY DEF StreamsInit, WalkInv, Resting

LEMMA SamplingKeepsWalk ==
  ASSUME WalkInv, kind = "trace", kind' = kind, TraceSample
  PROVE  WalkInv'
<1>1. /\ buffer \in Seq(Nat) /\ got \in Seq(Nat) /\ arrived \in Nat /\ TraceRoom \in Nat
      /\ Len(buffer) \in Nat /\ Len(got) \in Nat
      /\ reading \in [op : {"none"}, n : Nat]
      /\ walk \in [total : Nat, shifted : BOOLEAN, short : BOOLEAN, on : BOOLEAN]
  BY StreamsAssumption DEF WalkInv
<1>2. PICK grown \in Seq(Nat) : grown = Append(buffer, arrived + 1)
  <2>1. Append(buffer, arrived + 1) \in Seq(Nat)
    BY <1>1
  <2> QED BY <2>1, Zenon
<1>3. Len(grown) = Len(buffer) + 1 /\ \A i \in 1..Len(buffer) : grown[i] = buffer[i]
  BY <1>1, <1>2, AppendProperties
<1>4. /\ arrived' = arrived + 1 /\ got' = got /\ reading' = reading
      /\ buffer' = IF Len(grown) > TraceRoom THEN Tail(grown) ELSE grown
      /\ walk' = [walk EXCEPT !.shifted = @ \/ Len(grown) > TraceRoom]
  BY <1>2 DEF TraceSample
<1>5. /\ walk' \in [total : Nat, shifted : BOOLEAN, short : BOOLEAN, on : BOOLEAN]
      /\ walk'.total = walk.total
  BY <1>1, <1>4
<1>6. (walk'.on <=> walk.on) /\ (walk'.short <=> walk.short)
  BY <1>1, <1>4
<1>7. CASE Len(grown) > TraceRoom
  <2>1. buffer' \in Seq(Nat) /\ Len(buffer') = Len(buffer)
    BY <1>1, <1>3, <1>4, <1>7
  <2>2. walk'.shifted
    BY <1>1, <1>4, <1>7
  <2> QED BY SMTT(40), <1>1, <1>4, <1>5, <1>6, <2>1, <2>2 DEF WalkInv
<1>8. CASE ~(Len(grown) > TraceRoom)
  <2>1. buffer' = grown
    BY <1>4, <1>8
  <2>2. walk'.shifted <=> walk.shifted
    BY <1>1, <1>4, <1>8
  <2>3. walk.on => /\ reading.n = Len(got) /\ Len(got) <= walk.total
                   /\ walk.total <= Len(grown)
    BY <1>1, <1>3 DEF WalkInv
  <2>4. ~walk.shifted =>
          /\ Len(got) <= Len(grown)
          /\ \A i \in 1..Len(got) : got[i] = grown[i]
          /\ walk.on \/ walk.short \/ Len(got) = walk.total
    BY <1>1, <1>3 DEF WalkInv
  <2> QED BY <1>1, <1>4, <1>5, <1>6, <2>1, <2>2, <2>3, <2>4 DEF WalkInv
<1> QED BY <1>7, <1>8

(* What one read of a walk adds to a prefix leaves it a prefix.              *)
LEMMA PrefixGrows ==
  ASSUME NEW s \in Seq(Nat), NEW t \in Seq(Nat), NEW n \in Nat,
         Len(s) + n <= Len(t)
  PROVE  LET r == s \o SubSeq(t, Len(s) + 1, Len(s) + n)
         IN  /\ r \in Seq(Nat) /\ Len(r) = Len(s) + n
             /\ (\A i \in 1..Len(s) : s[i] = t[i]) => \A i \in 1..Len(r) : r[i] = t[i]
<1>1. PICK l \in Nat : l = Len(s)
  OBVIOUS
<1>2. PICK u \in Seq(Nat) : u = SubSeq(t, l + 1, l + n)
  <2>1. SubSeq(t, l + 1, l + n) \in Seq(Nat)
    BY <1>1
  <2> QED BY <2>1, Zenon
<1>3. Len(u) = n /\ \A i \in 1..n : u[i] = t[l + i]
  BY <1>1, <1>2
<1>4. PICK r \in Seq(Nat) : r = s \o u
  <2>1. s \o u \in Seq(Nat)
    BY <1>1
  <2> QED BY <2>1, Zenon
<1>5. /\ Len(r) = l + n /\ \A i \in 1..l : r[i] = s[i]
      /\ \A i \in 1..Len(r) : i > l => r[i] = u[i - l]
  <2>1. /\ Len(r) = l + n
        /\ \A i \in 1..Len(r) : r[i] = IF i <= l THEN s[i] ELSE u[i - l]
    <3>1. /\ Len(r) = Len(s) + Len(u)
          /\ \A i \in 1..Len(r) : r[i] = IF i <= Len(s) THEN s[i] ELSE u[i - Len(s)]
      BY <1>4, Joined
    <3>2. Len(s) = l /\ Len(u) = n
      BY <1>1, <1>3
    <3> QED BY <3>1, <3>2
  <2>2. \A i \in 1..l : i \in 1..Len(r) /\ i <= l
    BY <1>1, <2>1
  <2>3. \A i \in 1..Len(r) : i > l => ~(i <= l)
    BY <1>1
  <2> QED BY <2>1, <2>2, <2>3
<1>6. ASSUME NEW i \in 1..Len(r), i > l
      PROVE  r[i] = t[i]
  <2>1. PICK j \in 1..n : j = i - l
    <3>1. i - l \in 1..n
      BY <1>5, <1>6
    <3> QED BY <3>1, Zenon
  <2>2. r[i] = u[i - l]
    BY <1>5, <1>6
  <2>3. l + j = i
    BY <1>6, <2>1
  <2> QED BY <1>3, <2>1, <2>2, <2>3
<1>7. (\A i \in 1..l : s[i] = t[i]) => \A i \in 1..Len(r) : r[i] = t[i]
  <2>1. \A i \in 1..Len(r) : i \in 1..l \/ i > l
    BY <1>1
  <2> QED BY <1>5, <1>6, <2>1
<1> QED BY <1>1, <1>2, <1>4, <1>5, <1>7

LEMMA ReadingKeepsWalk ==
  ASSUME WalkInv, kind = "trace", kind' = kind, WalkRead
  PROVE  WalkInv'
<1>1. /\ buffer \in Seq(Nat) /\ got \in Seq(Nat) /\ arrived \in Nat /\ Chunk \in Nat
      /\ Len(buffer) \in Nat /\ Len(got) \in Nat
      /\ reading \in [op : {"none"}, n : Nat]
      /\ walk \in [total : Nat, shifted : BOOLEAN, short : BOOLEAN, on : BOOLEAN]
      /\ walk.on /\ reading.n = Len(got) /\ reading.n < walk.total
      /\ walk.total <= Len(buffer)
      /\ arrived' = arrived /\ buffer' = buffer
  BY StreamsAssumption DEF WalkInv, WalkRead
<1>2. PICK asked : asked = Min({Chunk, walk.total - reading.n, Len(buffer) - reading.n})
  OBVIOUS
<1>3. asked \in Int /\ asked <= walk.total - reading.n
  <2>1. PICK left \in Int : left = walk.total - reading.n
    BY <1>1
  <2>2. PICK rest \in Int : rest = Len(buffer) - reading.n
    <3>1. Len(buffer) - reading.n \in Int
      BY <1>1
    <3> QED BY <3>1, Zenon
  <2>3. asked = Min({Chunk, left, rest})
    BY <1>2, <2>1, <2>2, Zenon
  <2>4. Min({Chunk, left, rest}) \in Int /\ Min({Chunk, left, rest}) <= left
    <3>1. Chunk \in Int
      BY <1>1
    <3> QED BY <3>1, LeastOfThree, Zenon
  <2> QED BY <2>1, <2>3, <2>4
<1>4. PICK n \in 0..asked :
        /\ got' = got \o SubSeq(buffer, reading.n + 1, reading.n + n)
        /\ reading' = IF n = 0 THEN Resting
                      ELSE [reading EXCEPT !.n = @ + WalkAdvance(asked, n)]
        /\ walk' = [walk EXCEPT !.on = n > 0, !.short = n = 0]
  BY <1>2 DEF WalkRead
<1>5. n \in Nat /\ Len(got) + n <= walk.total /\ Len(got) + n <= Len(buffer)
  BY <1>1, <1>3
<1>6. got' = got \o SubSeq(buffer, Len(got) + 1, Len(got) + n)
  BY <1>1, <1>4
<1>7. /\ got' \in Seq(Nat) /\ Len(got') = Len(got) + n
      /\ (\A i \in 1..Len(got) : got[i] = buffer[i]) => \A i \in 1..Len(got') : got'[i] = buffer[i]
  BY SMTT(40), <1>1, <1>5, <1>6, PrefixGrows
<1>8. /\ reading' \in [op : {"none"}, n : Nat]
      /\ n > 0 => reading'.n = Len(got')
  <2>1. CASE n = 0
    BY <1>4, <2>1 DEF Resting
  <2>2. CASE n > 0
    <3>1. PICK next \in Nat : next = reading.n + n
      BY <1>1, <1>5
    <3>2. reading' = [reading EXCEPT !.n = next]
      BY <1>4, <2>2, <3>1 DEF WalkAdvance
    <3>3. reading' \in [op : {"none"}, n : Nat] /\ reading'.n = next
      BY <1>1, <3>2
    <3> QED BY <1>1, <1>7, <3>1, <3>3
  <2> QED BY <1>5, <2>1, <2>2
<1>9. /\ walk' \in [total : Nat, shifted : BOOLEAN, short : BOOLEAN, on : BOOLEAN]
      /\ walk'.total = walk.total
  <2>1. CASE n > 0
    <3>1. (n > 0) = TRUE /\ (n = 0) = FALSE
      BY <2>1
    <3>2. walk' = [walk EXCEPT !.on = TRUE, !.short = FALSE]
      BY <1>4, <3>1, Zenon
    <3> QED BY <1>1, <3>2
  <2>2. CASE n = 0
    <3>1. (n > 0) = FALSE /\ (n = 0) = TRUE
      BY <2>2
    <3>2. walk' = [walk EXCEPT !.on = FALSE, !.short = TRUE]
      BY <1>4, <3>1, Zenon
    <3> QED BY <1>1, <3>2
  <2> QED BY <1>5, <2>1, <2>2
<1>10. (walk'.on <=> n > 0) /\ (walk'.short <=> n = 0) /\ (walk'.shifted <=> walk.shifted)
  BY <1>1, <1>4
<1>11. walk'.on \/ walk'.short
  BY <1>5, <1>10
<1>12. ~walk'.shifted => /\ Len(got') <= Len(buffer')
                         /\ \A i \in 1..Len(got') : got'[i] = buffer'[i]
  BY <1>1, <1>5, <1>7, <1>10 DEF WalkInv
<1> QED BY <1>1, <1>5, <1>7, <1>8, <1>9, <1>10, <1>11, <1>12 DEF WalkInv

LEMMA WalkInvNext == WalkInv /\ [StreamsNext]_streamVars => WalkInv'
<1> SUFFICES ASSUME WalkInv, [StreamsNext]_streamVars, kind' = "trace"
             PROVE  WalkInv'
  BY SMTT(40) DEF WalkInv
<1>1. kind = "trace"
  BY DEF StreamsNext, streamVars, dataVars, Start, TargetReady, Stop, RttWait, RttWaitEnds,
         Arrive, SwoRead, SwoReadFlush, SwoFlush, SwoFlushed, ReadRaises, RttRead, PowerCount,
         PowerRead, StreamStart, StreamLeft, DeadlinePasses, StreamEnds, HssStart, HssStop, HssRead,
         HssSample, TraceSample, TraceFlush, WalkStart, WalkRead, WalkRaises, WalkEnd
<1>2. /\ buffer \in Seq(Nat) /\ got \in Seq(Nat) /\ arrived \in Nat
      /\ Len(buffer) \in Nat /\ Len(got) \in Nat /\ reading.op = "none"
      /\ reading \in [op : {"none"}, n : Nat]
      /\ walk \in [total : Nat, shifted : BOOLEAN, short : BOOLEAN, on : BOOLEAN]
  BY <1>1 DEF WalkInv
<1>3. CASE StreamLeft \/ DeadlinePasses \/ StreamEnds \/ UNCHANGED streamVars
  <2>1. UNCHANGED <<kind, arrived, buffer, got, reading, walk>>
    BY <1>3 DEF StreamLeft, DeadlinePasses, StreamEnds, dataVars, streamVars
  <2> QED BY <2>1 DEF WalkInv
<1>4. CASE TraceSample
  BY <1>1, <1>4, SamplingKeepsWalk
<1>5. CASE WalkRead
  BY <1>1, <1>5, ReadingKeepsWalk
<1>6. CASE TraceFlush
  <2>1. /\ buffer' = <<>> /\ got' = <<>> /\ arrived' = arrived /\ reading' = reading
        /\ walk' = [walk EXCEPT !.total = 0] /\ ~walk.on
    BY <1>6 DEF TraceFlush
  <2>2. /\ walk' \in [total : Nat, shifted : BOOLEAN, short : BOOLEAN, on : BOOLEAN]
        /\ walk'.total = 0
    BY <1>2, <2>1
  <2>3. ~walk'.on
    BY <1>2, <2>1
  <2> QED BY <1>2, <2>1, <2>2, <2>3 DEF WalkInv
<1>7. CASE WalkStart
  <2>1. /\ buffer' = buffer /\ got' = <<>> /\ arrived' = arrived
        /\ reading' = [op |-> "none", n |-> 0]
        /\ walk' = [total |-> Len(buffer), shifted |-> FALSE, short |-> FALSE, on |-> TRUE]
    BY <1>7 DEF WalkStart, Resting
  <2> QED BY <1>2, <2>1 DEF WalkInv
<1>8. CASE WalkRaises
  <2>1. /\ buffer' = buffer /\ got' = <<>> /\ arrived' = arrived
        /\ reading' = [op |-> "none", n |-> 0]
        /\ walk' = [walk EXCEPT !.on = FALSE, !.short = TRUE]
    BY <1>8 DEF WalkRaises, Resting
  <2>2. /\ walk' \in [total : Nat, shifted : BOOLEAN, short : BOOLEAN, on : BOOLEAN]
        /\ walk'.total = walk.total
    BY <1>2, <2>1
  <2>3. ~walk'.on /\ walk'.short
    BY <1>2, <2>1
  <2> QED BY <1>2, <2>1, <2>2, <2>3 DEF WalkInv
<1>9. CASE WalkEnd
  <2>1. /\ buffer' = buffer /\ got' = got /\ arrived' = arrived
        /\ reading' = [op |-> "none", n |-> 0]
        /\ walk' = [walk EXCEPT !.on = FALSE] /\ walk.on /\ reading.n >= walk.total
    BY <1>9 DEF WalkEnd, Resting
  <2>2. /\ walk' \in [total : Nat, shifted : BOOLEAN, short : BOOLEAN, on : BOOLEAN]
        /\ walk'.total = walk.total
    BY <1>2, <2>1
  <2>3. ~walk'.on /\ (walk'.shifted <=> walk.shifted)
    BY <1>2, <2>1
  <2>4. Len(got) = walk.total
    BY <1>1, <1>2, <2>1 DEF WalkInv
  <2>5. ~walk.shifted => /\ Len(got) <= Len(buffer)
                         /\ \A i \in 1..Len(got) : got[i] = buffer[i]
    BY <1>1 DEF WalkInv
  <2> QED BY <1>2, <2>1, <2>2, <2>3, <2>4, <2>5 DEF WalkInv
<1> QED BY <1>1, <1>2, <1>3, <1>4, <1>5, <1>6, <1>7, <1>8, <1>9
        DEF StreamsNext, BufferKinds, Start, TargetReady, Stop, RttWait, RttWaitEnds, Arrive,
            SwoRead, SwoReadFlush, SwoFlush, SwoFlushed, ReadRaises, RttRead, PowerCount,
            PowerRead, StreamStart, HssStart, HssStop, HssRead, HssSample

LEMMA WalksAPrefix == WalkInv => WalkIsPrefix
<1> SUFFICES ASSUME WalkInv, kind = "trace", ~walk.shifted
             PROVE  /\ got = SubSeq(buffer, 1, Len(got))
                    /\ walk.on \/ walk.short \/ Len(got) = walk.total
  BY DEF WalkIsPrefix
<1>1. /\ got \in Seq(Nat) /\ buffer \in Seq(Nat) /\ Len(got) \in Nat /\ Len(got) <= Len(buffer)
      /\ \A i \in 1..Len(got) : got[i] = buffer[i]
      /\ walk.on \/ walk.short \/ Len(got) = walk.total
  BY DEF WalkInv
<1>2. PICK s \in Seq(Nat) : s = SubSeq(buffer, 1, Len(got))
  <2>1. SubSeq(buffer, 1, Len(got)) \in Seq(Nat)
    BY <1>1
  <2> QED BY <2>1, Zenon
<1>3. Len(s) = Len(got) /\ \A i \in 1..Len(got) : s[i] = buffer[i]
  BY <1>1, <1>2
<1>4. got = s
  BY <1>1, <1>3, SeqEqual
<1> QED BY <1>1, <1>2, <1>4

------------------------------------------------------------------------------
(* The time axis: natural numbers, first.                                    *)

LEMMA LeastNatural ==
  ASSUME NEW T, T \subseteq Nat, T # {}
  PROVE  \E x \in T : \A y \in T : x <= y
<1>1. PICK x \in T : \A y \in T : ~(<<y, x>> \in OpToRel(<, Nat))
  BY NatLessThanWellFounded, WFMin
<1>2. ASSUME NEW y \in T
      PROVE  x <= y
  <2>1. x \in Nat /\ y \in Nat /\ <<y, x>> \in Nat \X Nat
    OBVIOUS
  <2>2. ~(y < x)
    BY <1>1, <2>1 DEF OpToRel
  <2> QED BY <2>1, <2>2
<1> QED BY <1>1, <1>2

LEMMA LeastIs ==
  ASSUME NEW T, T \subseteq Nat, T # {}
  PROVE  Min(T) \in T /\ \A y \in T : Min(T) <= y
  BY LeastNatural DEF Min

LEMMA GreatestIs ==
  ASSUME NEW n \in Nat, NEW T, T \subseteq 0 .. n, T # {}
  PROVE  Max(T) \in T /\ \A y \in T : y <= Max(T)
<1> DEFINE U == {n - y : y \in T}
<1>1. U \subseteq Nat /\ U # {}
  <2>1. \A y \in T : n - y \in Nat
    OBVIOUS
  <2> QED BY <2>1
<1> HIDE DEF U
<1>2. PICK x \in U : \A z \in U : x <= z
  BY <1>1, LeastNatural
<1>3. PICK g \in T : x = n - g
  BY <1>2 DEF U
<1>4. ASSUME NEW y \in T
      PROVE  y <= g
  <2>1. n - y \in U
    BY DEF U
  <2> QED BY <1>2, <1>3, <2>1
<1>5. \A y \in T : g >= y
  BY <1>4
<1> QED BY <1>3, <1>5 DEF Max

------------------------------------------------------------------------------
(* Sums that run on, and sequences that rise.                                *)

\* h adds up the first n values of f to what it starts from.
AddsUp(h, n, from, f) == h = [i \in 0 .. n |-> IF i = 0 THEN from ELSE h[i - 1] + f[i]]

CountsOn(g, n, from, f) ==
  /\ g \in [0 .. n -> Nat] /\ g[0] = from
  /\ \A i \in 1 .. n : g[i] = g[i - 1] + f[i]

\* There is a function that adds up another.
LEMMA SomeAddsUp ==
  ASSUME NEW n \in Nat, NEW from \in Nat, NEW f \in [1 .. n -> Nat]
  PROVE  \E g : AddsUp(g, n, from, f)
<1> DEFINE Sums(h, m) == /\ h \in [0 .. m -> Nat] /\ h[0] = from
                         /\ \A i \in 1 .. m : h[i] = h[i - 1] + f[i]
           Some(m) == \E h : Sums(h, m)
           T == {m \in 0 .. n : ~Some(m)}
<1>1. T = {}
  <2> SUFFICES ASSUME T # {}
               PROVE  FALSE
    OBVIOUS
  <2>1. PICK m \in T : \A y \in T : m <= y
    <3>1. T \subseteq Nat
      OBVIOUS
    <3> HIDE DEF T
    <3> QED BY <3>1, LeastNatural
  <2>2. m \in 0 .. n /\ ~Some(m)
    BY <2>1
  <2>3. m # 0
    <3>1. Sums([i \in 0 .. 0 |-> from], 0)
      OBVIOUS
    <3> QED BY <2>2, <3>1
  <2>4. m - 1 \in 0 .. n /\ ~(m <= m - 1)
    BY <2>2, <2>3
  <2>5. PICK h : Sums(h, m - 1)
    <3> HIDE DEF Some
    <3> QED BY <2>1, <2>4 DEF Some
  <2>6. PICK k : k = [i \in 0 .. m |-> IF i = m THEN h[m - 1] + f[m] ELSE h[i]]
    OBVIOUS
  <2>7. m \in 1 .. n /\ f[m] \in Nat /\ h[m - 1] \in Nat
    BY <2>2, <2>3, <2>5
  <2>8. \A i \in 0 .. m : k[i] \in Nat
    BY <2>2, <2>5, <2>6, <2>7
  <2>9. k \in [0 .. m -> Nat]
    BY <2>6, <2>8
  <2>10. k[0] = from
    BY <2>2, <2>3, <2>5, <2>6
  <2>11. ASSUME NEW i \in 1 .. m
         PROVE  k[i] = k[i - 1] + f[i]
    <3>1. i - 1 \in 0 .. m /\ i - 1 # m /\ i \in 0 .. m
      BY <2>7
    <3>2. k[i - 1] = h[i - 1]
      BY <2>6, <3>1
    <3>3. CASE i = m
      <4>1. k[i] = h[m - 1] + f[m]
        BY <2>6, <3>1, <3>3
      <4> QED BY <3>2, <3>3, <4>1
    <3>4. CASE i # m
      <4>1. k[i] = h[i] /\ i \in 1 .. m - 1
        BY <2>6, <2>7, <3>1, <3>4
      <4> QED BY <2>5, <3>2, <4>1
    <3> QED BY <3>3, <3>4
  <2>12. Sums(k, m)
    BY <2>9, <2>10, <2>11
  <2> QED BY <2>2, <2>12
<1>2. PICK h : Sums(h, n)
  <2>1. n \notin T /\ n \in 0 .. n
    <3> HIDE DEF T
    <3> QED BY <1>1
  <2>2. Some(n)
    <3> HIDE DEF Some
    <3> QED BY <2>1
  <2> QED BY <2>2
<1>3. AddsUp(h, n, from, f)
  <2>1. h = [i \in 0 .. n |-> h[i]]
    BY <1>2
  <2>2. \A i \in 0 .. n : h[i] = IF i = 0 THEN from ELSE h[i - 1] + f[i]
    BY <1>2
  <2> QED BY <2>1, <2>2 DEF AddsUp
<1> QED BY <1>3

\* It counts on from where it starts.
LEMMA SumsOf ==
  ASSUME NEW n \in Nat, NEW from \in Nat, NEW f \in [1 .. n -> Nat], NEW g,
         AddsUp(g, n, from, f)
  PROVE  CountsOn(g, n, from, f)
<1>4. g = [i \in 0 .. n |-> IF i = 0 THEN from ELSE g[i - 1] + f[i]]
  BY DEF AddsUp
<1>5. \A i \in 0 .. n : g[i] = IF i = 0 THEN from ELSE g[i - 1] + f[i]
  BY <1>4, Zenon
<1>6. g[0] = from /\ \A i \in 1 .. n : g[i] = g[i - 1] + f[i]
  <2>1. 0 \in 0 .. n /\ \A i \in 1 .. n : i \in 0 .. n /\ i # 0
    OBVIOUS
  <2> QED BY <1>5, <2>1
<1>7. \A i \in 0 .. n : g[i] \in Nat
  <2> DEFINE U == {i \in 0 .. n : g[i] \notin Nat}
  <2> SUFFICES ASSUME U # {}
               PROVE  FALSE
    OBVIOUS
  <2>1. PICK m \in U : \A y \in U : m <= y
    <3>1. U \subseteq Nat
      OBVIOUS
    <3> HIDE DEF U
    <3> QED BY <3>1, LeastNatural
  <2>2. m # 0 /\ m \in 1 .. n /\ m - 1 \in 0 .. n /\ ~(m <= m - 1)
    BY <1>6, <2>1
  <2>3. g[m - 1] \in Nat
    BY <2>1, <2>2
  <2>4. f[m] \in Nat
    BY <2>2
  <2> QED BY <1>6, <2>1, <2>2, <2>3, <2>4
<1>8. g = [i \in 0 .. n |-> g[i]]
  BY <1>4
<1> QED BY <1>6, <1>7, <1>8 DEF CountsOn

LEMMA SeqOfFunction ==
  ASSUME NEW X, NEW m \in Nat, NEW f \in [1 .. m -> X]
  PROVE  f \in Seq(X) /\ Len(f) = m
OBVIOUS

LEMMA FunctionOfSeq ==
  ASSUME NEW X, NEW s \in Seq(X)
  PROVE  s \in [1 .. Len(s) -> X] /\ Len(s) \in Nat
OBVIOUS

LEMMA FirstOf ==
  ASSUME NEW X, NEW s \in Seq(X), NEW n \in Nat, n <= Len(s)
  PROVE  /\ SubSeq(s, 1, n) \in Seq(X) /\ Len(SubSeq(s, 1, n)) = n
         /\ \A k \in 1 .. n : SubSeq(s, 1, n)[k] = s[k]
OBVIOUS

\* What never falls from one place to the next never falls at all.
LEMMA NeverFalls ==
  ASSUME NEW m \in Nat, NEW n \in Nat, NEW g \in [m .. n -> Nat],
         \A i \in m .. n : i + 1 \in m .. n => g[i] <= g[i + 1]
  PROVE  \A i, j \in m .. n : i <= j => g[i] <= g[j]
<1> SUFFICES ASSUME NEW i \in m .. n
             PROVE  \A j \in m .. n : i <= j => g[i] <= g[j]
  OBVIOUS
<1> DEFINE U == {j \in m .. n : i <= j /\ ~(g[i] <= g[j])}
<1> SUFFICES ASSUME U # {}
             PROVE  FALSE
  OBVIOUS
<1>1. PICK j \in U : \A y \in U : j <= y
  <2>1. U \subseteq Nat
    OBVIOUS
  <2> HIDE DEF U
  <2> QED BY <2>1, LeastNatural
<1>2. j \in m .. n /\ i <= j /\ ~(g[i] <= g[j]) /\ g[i] \in Nat /\ g[j] \in Nat
  BY <1>1
<1>3. j # i
  BY <1>2
<1>4. j - 1 \in m .. n /\ i <= j - 1 /\ ~(j <= j - 1) /\ (j - 1) + 1 = j
  BY <1>2, <1>3
<1>5. g[i] <= g[j - 1] /\ g[j - 1] \in Nat
  BY <1>1, <1>4
<1>6. g[j - 1] <= g[j]
  BY <1>2, <1>4
<1> QED BY <1>2, <1>5, <1>6

LEMMA NeverRises ==
  ASSUME NEW m \in Nat, NEW n \in Nat, NEW g \in [m .. n -> Nat],
         \A i \in m .. n : i + 1 \in m .. n => g[i] >= g[i + 1]
  PROVE  \A i, j \in m .. n : i <= j => g[i] >= g[j]
<1> SUFFICES ASSUME NEW i \in m .. n
             PROVE  \A j \in m .. n : i <= j => g[i] >= g[j]
  OBVIOUS
<1> DEFINE U == {j \in m .. n : i <= j /\ ~(g[i] >= g[j])}
<1> SUFFICES ASSUME U # {}
             PROVE  FALSE
  OBVIOUS
<1>1. PICK j \in U : \A y \in U : j <= y
  <2>1. U \subseteq Nat
    OBVIOUS
  <2> HIDE DEF U
  <2> QED BY <2>1, LeastNatural
<1>2. j \in m .. n /\ i <= j /\ ~(g[i] >= g[j]) /\ g[i] \in Nat /\ g[j] \in Nat
  BY <1>1
<1>3. j # i
  BY <1>2
<1>4. j - 1 \in m .. n /\ i <= j - 1 /\ ~(j <= j - 1) /\ (j - 1) + 1 = j
  BY <1>2, <1>3
<1>5. g[i] >= g[j - 1] /\ g[j - 1] \in Nat
  BY <1>1, <1>4
<1>6. g[j - 1] >= g[j]
  BY <1>2, <1>4
<1> QED BY <1>2, <1>5, <1>6

\* Of a rising sequence, the members below a bound are the first ones.
LEMMA CountBelow ==
  ASSUME NEW n \in Nat, NEW g \in [1 .. n -> Nat], NEW S \in SUBSET (1 .. n),
         \A i \in S : \A j \in 1 .. n : j <= i => j \in S
  PROVE  /\ IsFiniteSet(S) /\ Cardinality(S) \in 0 .. n
         /\ \A i \in 1 .. n : i \in S <=> i <= Cardinality(S)
<1>1. CASE S = {}
  <2>1. IsFiniteSet(S) /\ Cardinality(S) = 0
    BY <1>1, FS_EmptySet
  <2> QED BY <1>1, <2>1
<1>2. CASE S # {}
  <2>1. PICK p \in S : \A y \in S : y <= p
    <3>1. S \subseteq 0 .. n
      OBVIOUS
    <3> QED BY <1>2, <3>1, GreatestIs
  <2>2. S = 1 .. p /\ p \in 1 .. n
    <3>1. \A i \in 1 .. p : i \in 1 .. n /\ i <= p
      BY <2>1
    <3>2. \A i \in S : i \in 1 .. p
      BY <2>1
    <3> QED BY <2>1, <3>1, <3>2
  <2>3. IsFiniteSet(1 .. p) /\ Cardinality(1 .. p) = p
    BY <2>2, FS_Interval
  <2> QED BY <2>2, <2>3
<1> QED BY <1>1, <1>2
------------------------------------------------------------------------------
(* Stamps in the order of their indices.                                     *)

StampRecord == [index : Nat, cycle : Nat]

\* Stamps of places below n, no two of the same place.
PlacedBelow(S, n) ==
  /\ S \subseteq StampRecord
  /\ \A x \in S : x.index < n
  /\ \A x, y \in S : x.index = y.index => x = y

LEMMA CanBeSorted ==
  ASSUME NEW n \in Nat, NEW S, PlacedBelow(S, n)
  PROVE  /\ IsFiniteSet(S)
         /\ \E s \in [1 .. Cardinality(S) -> S] :
              \A i, j \in 1 .. Cardinality(S) : i < j => s[i].index < s[j].index
<1> DEFINE Sorted(R) ==
             /\ IsFiniteSet(R)
             /\ \E s \in [1 .. Cardinality(R) -> R] :
                  \A i, j \in 1 .. Cardinality(R) : i < j => s[i].index < s[j].index
           T == {m \in Nat : \E R \in SUBSET StampRecord : PlacedBelow(R, m) /\ ~Sorted(R)}
<1> SUFFICES ASSUME ~Sorted(S)
             PROVE  FALSE
  OBVIOUS
<1>1. S \in SUBSET StampRecord
  BY DEF PlacedBelow
<1>2. n \in T /\ T \subseteq Nat
  <2> HIDE DEF Sorted
  <2> QED BY <1>1
<1>3. PICK m \in T : \A y \in T : m <= y
  <2> HIDE DEF T
  <2> QED BY <1>2, LeastNatural
<1>4. PICK R \in SUBSET StampRecord : PlacedBelow(R, m) /\ ~Sorted(R)
  <2> HIDE DEF Sorted
  <2> QED BY <1>3
<1>5. m \in Nat /\ m # 0
  <2>1. m \in Nat
    BY <1>3
  <2>2. ASSUME m = 0
        PROVE  FALSE
    <3>1. R = {}
      <4> SUFFICES ASSUME NEW x \in R
                   PROVE  FALSE
        OBVIOUS
      <4>1. x.index \in Nat /\ x.index < 0
        BY <1>4, <2>2 DEF PlacedBelow, StampRecord
      <4> QED BY <4>1
    <3>2. IsFiniteSet(R) /\ Cardinality(R) = 0
      BY <3>1, FS_EmptySet
    <3>3. PICK s : s = [i \in 1 .. 0 |-> 0]
      OBVIOUS
    <3>4. s \in [1 .. 0 -> R]
      BY <3>3
    <3>5. \A i, j \in 1 .. 0 : i < j => s[i].index < s[j].index
      OBVIOUS
    <3>6. Sorted(R)
      BY <3>2, <3>4, <3>5
    <3> QED BY <1>4, <3>6
  <2> QED BY <2>1, <2>2
<1>6. m - 1 \in Nat /\ m - 1 \notin T
  BY <1>3, <1>5
<1>7. \A Q \in SUBSET StampRecord : PlacedBelow(Q, m - 1) => Sorted(Q)
  <2> HIDE DEF Sorted
  <2> QED BY <1>6
<1>8. PICK x \in R : x.index = m - 1
  <2> SUFFICES ASSUME \A x \in R : x.index # m - 1
               PROVE  FALSE
    OBVIOUS
  <2>1. \A x \in R : x.index < m - 1
    <3> TAKE x \in R
    <3>1. x.index \in Nat /\ x.index < m /\ x.index # m - 1
      BY <1>4 DEF PlacedBelow, StampRecord
    <3> QED BY <1>5, <3>1
  <2>2. PlacedBelow(R, m - 1)
    BY <1>4, <2>1 DEF PlacedBelow
  <2> HIDE DEF Sorted
  <2> QED BY <1>4, <1>7, <2>2
<1>9. PICK Q : Q = R \ {x}
  OBVIOUS
<1>10. Q \in SUBSET StampRecord /\ PlacedBelow(Q, m - 1)
  <2>1. \A y \in Q : y.index < m - 1
    <3> TAKE y \in Q
    <3>1. y \in R /\ y # x
      BY <1>9
    <3>2. y.index \in Nat /\ y.index < m /\ y.index # x.index
      BY <1>4, <3>1 DEF PlacedBelow, StampRecord
    <3> QED BY <1>5, <1>8, <3>2
  <2> QED BY <1>4, <1>9, <2>1 DEF PlacedBelow
<1>11. Sorted(Q)
  <2> HIDE DEF Sorted
  <2> QED BY <1>7, <1>10
<1>12. PICK c \in Nat : c = Cardinality(Q)
  BY <1>11, FS_CardinalityType
<1>13. IsFiniteSet(R) /\ Cardinality(R) = c + 1
  <2>1. R = Q \union {x} /\ x \notin Q
    BY <1>8, <1>9
  <2> QED BY <1>11, <1>12, <2>1, FS_AddElement
<1>14. PICK s \in [1 .. c -> Q] : \A i, j \in 1 .. c : i < j => s[i].index < s[j].index
  BY <1>11, <1>12
<1>15. PICK t : t = [i \in 1 .. c + 1 |-> IF i = c + 1 THEN x ELSE s[i]]
  OBVIOUS
<1>16. t \in [1 .. c + 1 -> R]
  <2>1. \A i \in 1 .. c + 1 : t[i] \in R
    <3> TAKE i \in 1 .. c + 1
    <3>1. CASE i = c + 1
      BY <1>8, <1>15, <3>1
    <3>2. CASE i # c + 1
      <4>1. i \in 1 .. c
        BY <3>2
      <4> QED BY <1>9, <1>14, <1>15, <3>2, <4>1
    <3> QED BY <3>1, <3>2
  <2> QED BY <1>15, <2>1
<1>17. \A i, j \in 1 .. c + 1 : i < j => t[i].index < t[j].index
  <2> SUFFICES ASSUME NEW i \in 1 .. c + 1, NEW j \in 1 .. c + 1, i < j
               PROVE  t[i].index < t[j].index
    OBVIOUS
  <2>1. i \in 1 .. c /\ t[i] = s[i] /\ s[i] \in Q
    BY <1>14, <1>15
  <2>2. CASE j = c + 1
    <3>1. t[j] = x
      BY <1>15, <2>2
    <3> QED BY <1>8, <1>10, <2>1, <3>1 DEF PlacedBelow
  <2>3. CASE j # c + 1
    <3>1. j \in 1 .. c /\ t[j] = s[j]
      BY <1>15, <2>3
    <3> QED BY <1>14, <2>1, <3>1
  <2> QED BY <2>2, <2>3
<1>18. Sorted(R)
  BY <1>13, <1>16, <1>17
<1> QED BY <1>4, <1>18

\* Sorted, each stamp is there once.
LEMMA SortedByIndex ==
  ASSUME NEW n \in Nat, NEW S, PlacedBelow(S, n), NEW s, s = ByIndex(S)
  PROVE  /\ s \in Seq(StampRecord) /\ Len(s) \in Nat /\ DOMAIN s = 1 .. Len(s)
         /\ \A i \in 1 .. Len(s) : s[i] \in S /\ s[i] \in StampRecord
         /\ \A i, j \in 1 .. Len(s) : i < j => s[i].index < s[j].index
         /\ \A x \in S : \E i \in 1 .. Len(s) : s[i] = x
<1>1. PICK c : c = Cardinality(S)
  OBVIOUS
<1>2. IsFiniteSet(S) /\ c \in Nat
  BY <1>1, CanBeSorted, FS_CardinalityType
<1>3. PICK t \in [1 .. c -> S] : \A i, j \in 1 .. c : i < j => t[i].index < t[j].index
  BY <1>1, CanBeSorted
<1>4. S \subseteq StampRecord
  BY DEF PlacedBelow
<1> DEFINE Rises(r) == \A i, j \in DOMAIN r : i < j => r[i].index < r[j].index
<1>5. ASSUME NEW r \in [1 .. c -> S], Rises(r)
      PROVE  \A i, j \in 1 .. c : i # j => r[i] # r[j]
  <2> SUFFICES ASSUME NEW i \in 1 .. c, NEW j \in 1 .. c, i < j, r[i] = r[j]
               PROVE  FALSE
    OBVIOUS
  <2>1. r[i].index < r[j].index
    BY <1>5
  <2>2. r[j].index \in Nat
    BY <1>4, <1>5 DEF StampRecord
  <2> QED BY <2>1, <2>2
<1>6. t \in SetToSeqs(S) /\ Rises(t)
  <2>1. Rises(t)
    BY <1>3
  <2>2. \A i, j \in 1 .. c : i # j => t[i] # t[j]
    BY <1>5, <2>1
  <2> QED BY <1>1, <2>1, <2>2 DEF SetToSeqs
<1>7. s \in SetToSeqs(S) /\ Rises(s)
  <2>1. s = CHOOSE r \in SetToSeqs(S) : Rises(r)
    BY DEF ByIndex
  <2> HIDE DEF Rises
  <2> QED BY <1>6, <2>1
<1>8. s \in [1 .. c -> S]
  BY <1>1, <1>7 DEF SetToSeqs
<1>9. s \in Seq(StampRecord) /\ Len(s) = c /\ DOMAIN s = 1 .. c
  BY <1>2, <1>4, <1>8
<1>10. \A x \in S : \E i \in 1 .. c : s[i] = x
  <2>1. s \in Injection(1 .. c, S)
    <3>1. \A i, j \in 1 .. c : i # j => s[i] # s[j]
      <4> HIDE DEF Rises
      <4> QED BY <1>5, <1>7, <1>8
    <3>2. DOMAIN s = 1 .. c
      BY <1>8
    <3> QED BY <1>8, <3>1, <3>2 DEF Injection, IsInjective
  <2>2. IsFiniteSet(1 .. c) /\ Cardinality(1 .. c) = c
    BY <1>2, FS_Interval
  <2>3. s \in Surjection(1 .. c, S)
    BY <1>1, <1>2, <2>1, <2>2, FS_Injection
  <2> QED BY <2>3 DEF Surjection
<1> QED BY <1>2, <1>7, <1>8, <1>9, <1>10
------------------------------------------------------------------------------
(* Which way round a window is.                                              *)

\* Stamps that fall with the place are never taken for a window that is oldest
\* first, nor are stamps among which one falls.
LEMMA FallingIsNotOldest ==
  ASSUME NEW n \in Nat, NEW S, PlacedBelow(S, n), NEW R, R \subseteq S,
         \A x, y \in R : x.index < y.index => x.cycle >= y.cycle,
         S = R \/ \E x, y \in R : x.cycle # y.cycle
  PROVE  DetectStampOrder(S) # "oldest"
<1>1. PICK s : s = ByIndex(S)
  OBVIOUS
<1>2. /\ s \in Seq(StampRecord) /\ Len(s) \in Nat
      /\ \A i \in 1 .. Len(s) : s[i] \in S /\ s[i] \in StampRecord
      /\ \A i, j \in 1 .. Len(s) : i < j => s[i].index < s[j].index
      /\ \A x \in S : \E i \in 1 .. Len(s) : s[i] = x
  BY SMTT(40), <1>1, SortedByIndex
<1>3. PICK g : g = [i \in 1 .. Len(s) |-> s[i].cycle]
  OBVIOUS
<1>4. g \in [1 .. Len(s) -> Nat]
  <2>1. \A i \in 1 .. Len(s) : s[i].cycle \in Nat
    BY <1>2 DEF StampRecord
  <2> QED BY <1>3, <2>1
<1> DEFINE uneven == {j \in 1 .. Len(s) - 1 : s[j].cycle # s[j + 1].cycle}
           rises == {s[i + 1].cycle > s[i].cycle : i \in uneven}
<1> SUFFICES ASSUME rises = {TRUE}
             PROVE  FALSE
  BY <1>1 DEF DetectStampOrder
<1>5. \A i \in uneven : s[i + 1].cycle > s[i].cycle
  <2> TAKE i \in uneven
  <2>1. (s[i + 1].cycle > s[i].cycle) \in rises
    OBVIOUS
  <2> QED BY <2>1
<1>6. PICK i \in uneven : TRUE
  OBVIOUS
<1>7. /\ i \in 1 .. Len(s) /\ i + 1 \in 1 .. Len(s) /\ i < i + 1
      /\ g[i + 1] > g[i]
  BY <1>2, <1>3, <1>5, <1>6
<1>8. CASE S = R
  <2>1. s[i].index < s[i + 1].index /\ s[i] \in R /\ s[i + 1] \in R
    BY <1>2, <1>7, <1>8
  <2>2. s[i].cycle >= s[i + 1].cycle
    BY <2>1
  <2>3. g[i] >= g[i + 1] /\ g[i] \in Nat /\ g[i + 1] \in Nat
    BY <1>3, <1>4, <1>7, <2>2
  <2> QED BY <1>7, <2>3
<1>9. CASE \E x, y \in R : x.cycle # y.cycle
  <2>1. \A k \in 1 .. Len(s) : k + 1 \in 1 .. Len(s) => g[k] <= g[k + 1]
    <3> SUFFICES ASSUME NEW k \in 1 .. Len(s), k + 1 \in 1 .. Len(s)
                 PROVE  g[k] <= g[k + 1]
      OBVIOUS
    <3>1. k \in 1 .. Len(s) - 1 /\ g[k] \in Nat /\ g[k + 1] \in Nat
      <4> HIDE DEF uneven
      <4> QED BY <1>2, <1>4
    <3>2. g[k] = s[k].cycle /\ g[k + 1] = s[k + 1].cycle
      BY <1>3
    <3>3. k \in uneven => g[k + 1] > g[k]
      BY <1>5, <3>2
    <3> QED BY <3>1, <3>2, <3>3
  <2>2. \A a, b \in 1 .. Len(s) : a <= b => g[a] <= g[b]
    BY <1>2, <1>4, <2>1, NeverFalls
  <2>3. ASSUME NEW x \in R, NEW y \in R, x.cycle # y.cycle, x.index < y.index
        PROVE  FALSE
    <3>1. PICK a \in 1 .. Len(s), b \in 1 .. Len(s) : s[a] = x /\ s[b] = y
      BY <1>2
    <3>2. x.cycle >= y.cycle /\ g[a] = x.cycle /\ g[b] = y.cycle
      BY <1>3, <2>3, <3>1
    <3>3. a <= b
      <4> SUFFICES ASSUME b < a
                   PROVE  FALSE
        BY <1>2
      <4>1. s[b].index < s[a].index /\ s[a].index \in Nat /\ s[b].index \in Nat
        BY <1>2 DEF StampRecord
      <4> QED BY <2>3, <3>1, <4>1
    <3>4. g[a] <= g[b] /\ g[a] \in Nat /\ g[b] \in Nat
      BY <1>4, <2>2, <3>3
    <3> QED BY <2>3, <3>2, <3>4
  <2>4. PICK x \in R, y \in R : x.cycle # y.cycle
    BY <1>9
  <2>5. x \in StampRecord /\ y \in StampRecord /\ x.index # y.index
    BY <2>4 DEF PlacedBelow
  <2>6. x.index < y.index \/ y.index < x.index
    BY <2>5 DEF StampRecord
  <2> QED BY <2>3, <2>4, <2>6
<1> QED BY <1>8, <1>9

\* Stamps that rise with the place, not all of one cycle, are of a window that
\* is oldest first.
LEMMA RisingIsOldest ==
  ASSUME NEW n \in Nat, NEW S, PlacedBelow(S, n),
         \A x, y \in S : x.index < y.index => x.cycle <= y.cycle,
         \E x, y \in S : x.cycle # y.cycle
  PROVE  DetectStampOrder(S) = "oldest"
<1>1. PICK s : s = ByIndex(S)
  OBVIOUS
<1>2. /\ s \in Seq(StampRecord) /\ Len(s) \in Nat
      /\ \A i \in 1 .. Len(s) : s[i] \in S /\ s[i] \in StampRecord
      /\ \A i, j \in 1 .. Len(s) : i < j => s[i].index < s[j].index
      /\ \A x \in S : \E i \in 1 .. Len(s) : s[i] = x
  BY <1>1, SortedByIndex
<1>3. PICK g : g = [i \in 1 .. Len(s) |-> s[i].cycle]
  OBVIOUS
<1>4. g \in [1 .. Len(s) -> Nat]
  <2>1. \A i \in 1 .. Len(s) : s[i].cycle \in Nat
    BY <1>2 DEF StampRecord
  <2> QED BY <1>3, <2>1
<1> DEFINE uneven == {j \in 1 .. Len(s) - 1 : s[j].cycle # s[j + 1].cycle}
           rises == {s[i + 1].cycle > s[i].cycle : i \in uneven}
<1> SUFFICES rises = {TRUE}
  BY <1>1 DEF DetectStampOrder
<1>5. ASSUME NEW i \in uneven
      PROVE  (s[i + 1].cycle > s[i].cycle) = TRUE
  <2>1. i \in 1 .. Len(s) /\ i + 1 \in 1 .. Len(s) /\ i < i + 1 /\ s[i].cycle # s[i + 1].cycle
    BY <1>2
  <2>2. s[i].index < s[i + 1].index /\ s[i] \in S /\ s[i + 1] \in S
    BY <1>2, <2>1
  <2>3. s[i].cycle <= s[i + 1].cycle
    BY <2>2
  <2>4. g[i] = s[i].cycle /\ g[i + 1] = s[i + 1].cycle /\ g[i] \in Nat /\ g[i + 1] \in Nat
    BY <1>3, <1>4, <2>1
  <2>5. s[i + 1].cycle > s[i].cycle
    BY <2>1, <2>3, <2>4
  <2> QED BY <2>5
<1>6. uneven # {}
  <2> SUFFICES ASSUME uneven = {}
               PROVE  FALSE
    OBVIOUS
  <2>1. \A k \in 1 .. Len(s) : k + 1 \in 1 .. Len(s) => g[k] >= g[k + 1]
    <3> SUFFICES ASSUME NEW k \in 1 .. Len(s), k + 1 \in 1 .. Len(s)
                 PROVE  g[k] >= g[k + 1]
      OBVIOUS
    <3>1. k \in 1 .. Len(s) - 1 /\ g[k] \in Nat /\ g[k + 1] \in Nat
      <4>1. Len(s) \in Nat
        BY <1>2
      <4>2. k \in 1 .. Len(s) - 1
        BY <4>1
      <4>3. g[k] \in Nat /\ g[k + 1] \in Nat
        BY <1>4, Zenon
      <4> QED BY <4>2, <4>3
    <3>2. g[k] = s[k].cycle /\ g[k + 1] = s[k + 1].cycle
      BY <1>3
    <3>3. s[k].cycle = s[k + 1].cycle
      BY <3>1
    <3> QED BY <3>1, <3>2, <3>3
  <2>2. \A a, b \in 1 .. Len(s) : a <= b => g[a] >= g[b]
    BY <1>2, <1>4, <2>1, NeverRises
  <2>3. ASSUME NEW x \in S, NEW y \in S, x.cycle # y.cycle, x.index < y.index
        PROVE  FALSE
    <3>1. PICK a \in 1 .. Len(s), b \in 1 .. Len(s) : s[a] = x /\ s[b] = y
      BY <1>2
    <3>2. x.cycle <= y.cycle /\ g[a] = x.cycle /\ g[b] = y.cycle
      BY <1>3, <2>3, <3>1
    <3>3. a <= b
      <4> SUFFICES ASSUME b < a
                   PROVE  FALSE
        BY <1>2
      <4>1. s[b].index < s[a].index /\ s[a].index \in Nat /\ s[b].index \in Nat
        BY <1>2 DEF StampRecord
      <4> QED BY <2>3, <3>1, <4>1
    <3>4. g[a] >= g[b] /\ g[a] \in Nat /\ g[b] \in Nat
      BY <1>4, <2>2, <3>3
    <3> QED BY <2>3, <3>2, <3>4
  <2>4. PICK x \in S, y \in S : x.cycle # y.cycle
    OBVIOUS
  <2>5. x \in StampRecord /\ y \in StampRecord /\ x.index # y.index
    BY <2>4 DEF PlacedBelow
  <2>6. x.index < y.index \/ y.index < x.index
    BY <2>5 DEF StampRecord
  <2> QED BY <2>3, <2>4, <2>6
<1>7. rises = {TRUE}
  BY <1>5, <1>6
<1> QED BY <1>7

\* More than one cycle among the stamps means that two of them differ.
LEMMA TwoCycles ==
  ASSUME NEW S, Cardinality({s.cycle : s \in S}) > 1
  PROVE  \E x, y \in S : x.cycle # y.cycle
<1> SUFFICES ASSUME \A x, y \in S : x.cycle = y.cycle
             PROVE  FALSE
  OBVIOUS
<1>1. PICK C : C = {s.cycle : s \in S}
  OBVIOUS
<1>2. CASE S = {}
  <2>1. C = {}
    BY <1>1, <1>2
  <2>2. Cardinality(C) = 0
    BY <2>1, FS_EmptySet
  <2> QED BY <1>1, <2>2
<1>3. CASE S # {}
  <2>1. PICK x \in S : TRUE
    BY <1>3
  <2>2. C = {x.cycle}
    BY <1>1, <2>1
  <2>3. Cardinality(C) = 1
    BY <2>2, FS_Singleton
  <2> QED BY <1>1, <2>3
<1> QED BY <1>2, <1>3
------------------------------------------------------------------------------
(* The invariant of the time axis.                                           *)

Instr == [window : Nat, place : Nat, cycle : Nat]

Block == [pcs : Seq(Instr), stampAt : Seq(Nat), cycles : Seq(Nat), decidable : BOOLEAN]

\* The instructions are those of window w from its first one on, and run later
\* the later they stand.
InOrder(b) ==
  /\ \A k \in 1 .. Len(b.pcs) : b.pcs[k].place = k - 1
  /\ \A j, k \in 1 .. Len(b.pcs) : j <= k => b.pcs[j].cycle <= b.pcs[k].cycle

\* Stamps stand in the order of their places.
StampsAscend(b) ==
  /\ Len(b.cycles) = Len(b.stampAt)
  /\ \A i, j \in 1 .. Len(b.stampAt) : i < j => b.stampAt[i] < b.stampAt[j]

\* Each stamp is of an instruction that ran in its cycle.
Stamped(b) ==
  \A s \in 1 .. Len(b.stampAt) :
    /\ b.stampAt[s] < Len(b.pcs)
    /\ b.pcs[b.stampAt[s] + 1].cycle = b.cycles[s]

\* A block built of window w, in the order it ran where that can be told.
BuiltOf(b, w) ==
  /\ b \in Block
  /\ Len(b.pcs) \in Nat /\ Len(b.pcs) >= 1
  /\ \A k \in 1 .. Len(b.pcs) : b.pcs[k].window = w
  /\ StampsAscend(b)
  /\ b.decidable => InOrder(b) /\ Stamped(b)

TimeInv ==
  /\ newestFirst \in BOOLEAN /\ windows \in Nat
  /\ timed \in Seq(Block)
  /\ \E from \in [1 .. Len(timed) -> Nat] :
       /\ \A i \in 1 .. Len(timed) : BuiltOf(timed[i], from[i]) /\ from[i] < windows
       /\ \A i, j \in 1 .. Len(timed) : i < j => from[i] < from[j]
       /\ pending # <<>> => \A i \in 1 .. Len(timed) : from[i] < windows - 1
  /\ pending # <<>> => /\ windows >= 1
                       /\ BuiltOf(Chronologise(Head(pending)), windows - 1)

\* The window is what the DLL hands out of the instructions that ran in cycle,
\* those at places stamped.
HandedOut(window, w, n, cycle, places, stray, z) ==
  \E run, stamps :
    /\ run = [i \in 1 .. n |-> Instruction(w, i - 1, cycle[i])]
    /\ stamps = {[index |-> IF newestFirst THEN n - 1 - p ELSE p,
                  cycle |-> cycle[p + 1]] : p \in places}
    /\ window = [pcs |-> IF newestFirst THEN Reverse(run) ELSE run,
                 stamps |-> stamps \union stray,
                 decidable |-> Decidable(stamps, stray)]
    /\ cycle \in [0 .. n -> Nat] /\ \A i \in 1 .. n : cycle[i - 1] <= cycle[i]
    /\ places \subseteq 0 .. n - 1
    /\ stray \in {{}, {[index |-> n + 1, cycle |-> z]}}

\* A window the DLL handed out either way round is built into a block in the
\* order it ran, its stamps where they were taken.
LEMMA WindowBuilt ==
  ASSUME newestFirst \in BOOLEAN, NEW w \in Nat, NEW n \in Nat, n >= 1, NEW z \in Nat,
         NEW cycle, NEW places, NEW stray, NEW window,
         HandedOut(window, w, n, cycle, places, stray, z)
  PROVE  BuiltOf(Chronologise(window), w)
<1>0. PICK run, stamps :
        /\ run = [i \in 1 .. n |-> Instruction(w, i - 1, cycle[i])]
        /\ stamps = {[index |-> IF newestFirst THEN n - 1 - p ELSE p,
                      cycle |-> cycle[p + 1]] : p \in places}
        /\ window = [pcs |-> IF newestFirst THEN Reverse(run) ELSE run,
                     stamps |-> stamps \union stray,
                     decidable |-> Decidable(stamps, stray)]
        /\ cycle \in [0 .. n -> Nat] /\ \A i \in 1 .. n : cycle[i - 1] <= cycle[i]
        /\ places \subseteq 0 .. n - 1
        /\ stray \in {{}, {[index |-> n + 1, cycle |-> z]}}
  BY DEF HandedOut
<1>1. /\ run \in Seq(Instr) /\ Len(run) = n
      /\ \A i \in 1 .. n : run[i] = Instruction(w, i - 1, cycle[i])
  <2>1. \A i \in 1 .. n : Instruction(w, i - 1, cycle[i]) \in Instr
    BY <1>0 DEF Instruction, Instr
  <2>2. run \in [1 .. n -> Instr] /\ \A i \in 1 .. n : run[i] = Instruction(w, i - 1, cycle[i])
    BY <1>0, <2>1
  <2>3. run \in Seq(Instr) /\ Len(run) = n
    BY <2>2
  <2> QED BY <2>2, <2>3
<1>2. /\ Reverse(run) \in Seq(Instr) /\ Len(Reverse(run)) = n /\ Reverse(Reverse(run)) = run
      /\ \A i \in 1 .. n : Reverse(run)[i] = run[(n - i) + 1]
  <2>1. \A i \in 1 .. n : (n - i) + 1 \in 1 .. n /\ (n - ((n - i) + 1)) + 1 = i
    OBVIOUS
  <2>2. PICK r : r = Reverse(run)
    OBVIOUS
  <2>3. r = [i \in 1 .. n |-> run[(n - i) + 1]]
    BY <1>1, <2>2 DEF Reverse
  <2>4. r \in [1 .. n -> Instr]
    BY <1>1, <2>1, <2>3
  <2>5. r \in Seq(Instr) /\ Len(r) = n
    BY <2>4
  <2>6. Reverse(r) = [i \in 1 .. n |-> r[(n - i) + 1]]
    BY <2>5 DEF Reverse
  <2>7. \A i \in 1 .. n : r[(n - i) + 1] = run[i]
    BY <2>1, <2>3
  <2>8. Reverse(r) = [i \in 1 .. n |-> run[i]]
    BY <2>6, <2>7
  <2>9. run = [i \in 1 .. n |-> run[i]]
    BY <1>1
  <2>10. Reverse(r) = run
    BY <2>8, <2>9, Zenon
  <2>11. \A i \in 1 .. n : r[i] = run[(n - i) + 1]
    BY <2>3
  <2> QED BY <2>2, <2>5, <2>10, <2>11, Zenon
<1>3. /\ stamps \subseteq StampRecord
      /\ \A x \in stamps : x.index < n
      /\ \A x, y \in stamps : x.index = y.index => x = y
      /\ \A x \in stray : x = [index |-> n + 1, cycle |-> z]
  <2>1. ASSUME NEW p \in places
        PROVE  /\ p \in 0 .. n - 1 /\ p + 1 \in 0 .. n /\ cycle[p + 1] \in Nat
               /\ n - 1 - p \in Nat /\ n - 1 - p < n
    BY <1>0
  <2>2. \A x \in stamps : \E p \in places :
          x = [index |-> IF newestFirst THEN n - 1 - p ELSE p, cycle |-> cycle[p + 1]]
    BY <1>0
  <2>3. stamps \subseteq StampRecord /\ \A x \in stamps : x.index < n
    BY <2>1, <2>2 DEF StampRecord
  <2>4. ASSUME NEW x \in stamps, NEW y \in stamps, x.index = y.index
        PROVE  x = y
    <3>1. PICK p \in places :
            x = [index |-> IF newestFirst THEN n - 1 - p ELSE p, cycle |-> cycle[p + 1]]
      BY <2>2
    <3>2. PICK q \in places :
            y = [index |-> IF newestFirst THEN n - 1 - q ELSE q, cycle |-> cycle[q + 1]]
      BY <2>2
    <3>3. p = q
      BY <2>1, <2>4, <3>1, <3>2
    <3> QED BY <3>1, <3>2, <3>3
  <2>5. \A x \in stray : x = [index |-> n + 1, cycle |-> z]
    <3> TAKE x \in stray
    <3>1. stray = {[index |-> n + 1, cycle |-> z]}
      BY <1>0
    <3> QED BY <3>1
  <2> QED BY <2>3, <2>4, <2>5
<1>4. PICK all : all = stamps \union stray
  OBVIOUS
<1>5. PlacedBelow(all, n + 2) /\ n + 2 \in Nat
  <2>1. ASSUME NEW x \in all
        PROVE  x \in StampRecord /\ x.index < n + 2 /\ (x \in stamps \/ x.index = n + 1)
    <3>1. CASE x \in stamps
      <4>1. x \in StampRecord /\ x.index \in Nat /\ x.index < n
        BY <1>3, <3>1 DEF StampRecord
      <4> QED BY <3>1, <4>1
    <3>2. CASE x \in stray
      <4>1. x = [index |-> n + 1, cycle |-> z]
        BY <1>3, <3>2
      <4> QED BY <4>1 DEF StampRecord
    <3> QED BY <1>4, <3>1, <3>2
  <2>2. ASSUME NEW x \in all, NEW y \in all, x.index = y.index
        PROVE  x = y
    <3>1. CASE x \in stamps /\ y \in stamps
      BY <1>3, <2>2, <3>1
    <3>2. CASE x \in stray /\ y \in stray
      BY <1>3, <3>2
    <3>3. CASE x \in stamps /\ y \in stray
      <4>1. x.index < n /\ y.index = n + 1
        BY <1>3, <3>3
      <4> QED BY <2>2, <4>1
    <3>4. CASE x \in stray /\ y \in stamps
      <4>1. y.index < n /\ x.index = n + 1
        BY <1>3, <3>4
      <4> QED BY <2>2, <4>1
    <3> QED BY <1>4, <3>1, <3>2, <3>3, <3>4
  <2>3. all \subseteq StampRecord /\ \A x \in all : x.index < n + 2
    BY <2>1
  <2> QED BY <2>2, <2>3 DEF PlacedBelow
<1>6. {x \in all : x.index < n} = stamps
  <2>1. \A x \in stray : ~(x.index < n)
    <3> TAKE x \in stray
    <3>1. x.index = n + 1
      BY <1>3
    <3> QED BY <3>1
  <2> QED BY <1>3, <1>4, <2>1
<1>7. PICK flag \in BOOLEAN : flag = (DetectStampOrder(all) # "oldest")
  OBVIOUS
<1>8. PICK placed :
        placed = {[index |-> IF flag THEN Remapped(s.index, n) ELSE s.index,
                   cycle |-> s.cycle] : s \in stamps}
  OBVIOUS
<1>9. PlacedBelow(placed, n)
  <2>1. ASSUME NEW s \in stamps
        PROVE  /\ s.index \in Nat /\ s.index < n /\ s.cycle \in Nat
               /\ Remapped(s.index, n) \in Nat /\ Remapped(s.index, n) < n
               /\ Remapped(s.index, n) = n - 1 - s.index
    <3>1. s.index \in Nat /\ s.index < n /\ s.cycle \in Nat
      BY <1>3 DEF StampRecord
    <3> QED BY <3>1 DEF Remapped
  <2>2. \A x \in placed : \E s \in stamps :
          x = [index |-> IF flag THEN Remapped(s.index, n) ELSE s.index, cycle |-> s.cycle]
    BY <1>8
  <2>3. placed \subseteq StampRecord /\ \A x \in placed : x.index < n
    <3> SUFFICES ASSUME NEW x \in placed
                 PROVE  x \in StampRecord /\ x.index < n
      OBVIOUS
    <3>1. PICK s \in stamps :
            x = [index |-> IF flag THEN Remapped(s.index, n) ELSE s.index, cycle |-> s.cycle]
      BY <2>2
    <3>2. PICK i : i = IF flag THEN Remapped(s.index, n) ELSE s.index
      OBVIOUS
    <3>3. i \in Nat /\ i < n /\ s.cycle \in Nat
      BY <2>1, <3>2
    <3>4. x = [index |-> i, cycle |-> s.cycle]
      BY <3>1, <3>2, Zenon
    <3> QED BY <3>3, <3>4 DEF StampRecord
  <2>4. ASSUME NEW x \in placed, NEW y \in placed, x.index = y.index
        PROVE  x = y
    <3>1. PICK s \in stamps :
            x = [index |-> IF flag THEN Remapped(s.index, n) ELSE s.index, cycle |-> s.cycle]
      BY <2>2
    <3>2. PICK t \in stamps :
            y = [index |-> IF flag THEN Remapped(t.index, n) ELSE t.index, cycle |-> t.cycle]
      BY <2>2
    <3>3. s.index = t.index
      <4>1. /\ x.index = IF flag THEN Remapped(s.index, n) ELSE s.index
            /\ y.index = IF flag THEN Remapped(t.index, n) ELSE t.index
        BY <3>1, <3>2
      <4>2. /\ s.index \in Nat /\ Remapped(s.index, n) = n - 1 - s.index
            /\ t.index \in Nat /\ Remapped(t.index, n) = n - 1 - t.index
        BY <2>1
      <4>3. CASE flag
        <5>1. n - 1 - s.index = n - 1 - t.index
          BY <2>4, <4>1, <4>2, <4>3, Zenon
        <5> QED BY <4>2, <5>1
      <4>4. CASE ~flag
        BY <2>4, <4>1, <4>4, Zenon
      <4> QED BY <4>3, <4>4
    <3>4. s = t
      BY <1>3, <3>3
    <3> QED BY <3>1, <3>2, <3>4
  <2> QED BY <2>3, <2>4 DEF PlacedBelow
<1>10. PICK ordered : ordered = ByIndex(placed)
  OBVIOUS
<1>11. /\ ordered \in Seq(StampRecord) /\ Len(ordered) \in Nat
       /\ \A i \in 1 .. Len(ordered) : ordered[i] \in placed /\ ordered[i] \in StampRecord
       /\ \A i, j \in 1 .. Len(ordered) : i < j => ordered[i].index < ordered[j].index
  BY <1>9, <1>10, SortedByIndex
<1>12. PICK dec \in BOOLEAN : dec = Decidable(stamps, stray)
  BY DEF Decidable
<1>13. PICK b : b = Chronologise(window)
  OBVIOUS
<1>14. /\ window.pcs = (IF newestFirst THEN Reverse(run) ELSE run) /\ window.stamps = all
       /\ window.decidable = dec /\ Len(window.pcs) = n
  BY <1>0, <1>1, <1>2, <1>4, <1>12
<1>15. b = [pcs |-> IF flag THEN Reverse(window.pcs) ELSE window.pcs,
            stampAt |-> [i \in 1 .. Len(ordered) |-> ordered[i].index],
            cycles |-> [i \in 1 .. Len(ordered) |-> ordered[i].cycle],
            decidable |-> dec]
  <2> DEFINE total == Len(window.pcs)
             newest == DetectStampOrder(window.stamps) # "oldest"
             kept == {s \in window.stamps : s.index < total}
             place(s) == IF newest THEN Remapped(s.index, total) ELSE s.index
             turned == {[index |-> place(s), cycle |-> s.cycle] : s \in kept}
             sorted == ByIndex(turned)
  <2>1. b = [pcs |-> IF newest THEN Reverse(window.pcs) ELSE window.pcs,
             stampAt |-> [i \in 1 .. Len(sorted) |-> sorted[i].index],
             cycles |-> [i \in 1 .. Len(sorted) |-> sorted[i].cycle],
             decidable |-> window.decidable]
    BY <1>13 DEF Chronologise
  <2>2. total = n /\ newest = flag
    BY <1>7, <1>14
  <2>3. kept = stamps
    BY <1>6, <1>14, <2>2
  <2>4. turned = placed
    <3> HIDE DEF newest, total, kept
    <3> QED BY <1>8, <2>2, <2>3
  <2>5. sorted = ordered
    <3> HIDE DEF turned
    <3> QED BY <1>10, <2>4
  <2> HIDE DEF total, newest, kept, turned, sorted
  <2> QED BY <1>14, <2>1, <2>2, <2>5, Zenon
<1>16. b.pcs \in Seq(Instr) /\ Len(b.pcs) = n /\ \A k \in 1 .. n : b.pcs[k].window = w
  <2>1. b.pcs = run \/ b.pcs = Reverse(run)
    <3>1. b.pcs = IF flag THEN Reverse(window.pcs) ELSE window.pcs
      BY <1>15
    <3> QED BY <1>2, <1>14, <3>1, Zenon
  <2>2. \A k \in 1 .. n : run[k].window = w /\ Reverse(run)[k].window = w
    <3>1. \A k \in 1 .. n : run[k].window = w
      BY <1>1 DEF Instruction
    <3>2. \A k \in 1 .. n : (n - k) + 1 \in 1 .. n
      OBVIOUS
    <3> QED BY SMTT(40), <1>2, <3>1, <3>2
  <2> QED BY <1>1, <1>2, <2>1, <2>2
<1>17. /\ b.stampAt = [i \in 1 .. Len(ordered) |-> ordered[i].index]
       /\ b.cycles = [i \in 1 .. Len(ordered) |-> ordered[i].cycle]
       /\ b.stampAt \in Seq(Nat) /\ b.cycles \in Seq(Nat)
       /\ Len(b.stampAt) = Len(ordered) /\ Len(b.cycles) = Len(ordered)
       /\ b.decidable = dec
  <2>1. \A i \in 1 .. Len(ordered) : ordered[i].index \in Nat /\ ordered[i].cycle \in Nat
    BY <1>11 DEF StampRecord
  <2>2. /\ b.stampAt = [i \in 1 .. Len(ordered) |-> ordered[i].index]
        /\ b.cycles = [i \in 1 .. Len(ordered) |-> ordered[i].cycle]
        /\ b.decidable = dec
    BY <1>15
  <2>3. PICK m \in Nat : m = Len(ordered)
    BY <1>11
  <2>4. PICK at \in [1 .. m -> Nat], cs \in [1 .. m -> Nat] :
          at = b.stampAt /\ cs = b.cycles
    BY ZenonT(40), <2>1, <2>2, <2>3
  <2>5. at \in Seq(Nat) /\ cs \in Seq(Nat) /\ Len(at) = m /\ Len(cs) = m
    BY SeqOfFunction
  <2> QED BY <2>2, <2>3, <2>4, <2>5
<1>18. b \in Block
  <2>1. b = [pcs |-> b.pcs, stampAt |-> b.stampAt, cycles |-> b.cycles, decidable |-> b.decidable]
    BY <1>15
  <2> QED BY <1>16, <1>17, <2>1 DEF Block
<1>19. ASSUME dec
       PROVE  flag = newestFirst
  <2>1. /\ newestFirst => stray = {} \/ Cardinality({s.cycle : s \in stamps}) > 1
        /\ ~newestFirst => stray = {} /\ Cardinality({s.cycle : s \in stamps}) > 1
    BY <1>12, <1>19 DEF Decidable
  <2>2. stray = {} => all = stamps
    BY <1>4
  <2>3. \A p \in places : p \in 0 .. n - 1 /\ p + 1 \in 0 .. n
    BY <1>0
  <2>4. \A p, q \in places : p <= q => cycle[p + 1] <= cycle[q + 1]
    <3>1. \A i \in 0 .. n : i + 1 \in 0 .. n => cycle[i] <= cycle[i + 1]
      <4> SUFFICES ASSUME NEW i \in 0 .. n, i + 1 \in 0 .. n
                   PROVE  cycle[i] <= cycle[i + 1]
        OBVIOUS
      <4>1. i + 1 \in 1 .. n /\ (i + 1) - 1 = i
        OBVIOUS
      <4> QED BY <1>0, <4>1
    <3>2. \A i, j \in 0 .. n : i <= j => cycle[i] <= cycle[j]
      BY <1>0, <3>1, NeverFalls
    <3> QED BY <2>3, <3>2
  <2>5. CASE newestFirst
    <3>1. \A x, y \in stamps : x.index < y.index => x.cycle >= y.cycle
      <4> SUFFICES ASSUME NEW x \in stamps, NEW y \in stamps, x.index < y.index
                   PROVE  x.cycle >= y.cycle
        OBVIOUS
      <4>1. PICK p \in places : x = [index |-> n - 1 - p, cycle |-> cycle[p + 1]]
        BY <1>0, <2>5
      <4>2. PICK q \in places : y = [index |-> n - 1 - q, cycle |-> cycle[q + 1]]
        BY <1>0, <2>5
      <4>3. q <= p
        BY <2>3, <4>1, <4>2
      <4> QED BY <2>3, <2>4, <4>1, <4>2, <4>3
    <3>2. stamps \subseteq all /\ (all = stamps \/ \E x, y \in stamps : x.cycle # y.cycle)
      BY <1>4, <2>1, <2>2, <2>5, TwoCycles
    <3>3. DetectStampOrder(all) # "oldest"
      BY <1>5, <3>1, <3>2, FallingIsNotOldest
    <3> QED BY <1>7, <2>5, <3>3
  <2>6. CASE ~newestFirst
    <3>1. \A x, y \in stamps : x.index < y.index => x.cycle <= y.cycle
      <4> SUFFICES ASSUME NEW x \in stamps, NEW y \in stamps, x.index < y.index
                   PROVE  x.cycle <= y.cycle
        OBVIOUS
      <4>1. PICK p \in places : x = [index |-> p, cycle |-> cycle[p + 1]]
        BY <1>0, <2>6
      <4>2. PICK q \in places : y = [index |-> q, cycle |-> cycle[q + 1]]
        BY <1>0, <2>6
      <4>3. p <= q
        BY <2>3, <4>1, <4>2
      <4> QED BY <2>4, <4>1, <4>2, <4>3
    <3>2. all = stamps /\ \E x, y \in stamps : x.cycle # y.cycle
      BY <2>1, <2>2, <2>6, TwoCycles
    <3>3. DetectStampOrder(all) = "oldest"
      BY <1>5, <3>1, <3>2, RisingIsOldest
    <3> QED BY <1>7, <2>6, <3>3
  <2>7. newestFirst \/ ~newestFirst
    OBVIOUS
  <2> QED BY <2>5, <2>6, <2>7, Zenon
<1>20. ASSUME dec
       PROVE  InOrder(b) /\ Stamped(b)
  <2>1. b.pcs = run
    <3>1. b.pcs = IF flag THEN Reverse(window.pcs) ELSE window.pcs
      BY <1>15
    <3>2. CASE newestFirst
      <4>1. flag = TRUE /\ window.pcs = Reverse(run)
        BY <1>14, <1>19, <1>20, <3>2
      <4> QED BY <1>2, <3>1, <4>1
    <3>3. CASE ~newestFirst
      <4>1. flag = FALSE /\ window.pcs = run
        BY <1>14, <1>19, <1>20, <3>3
      <4> QED BY <3>1, <4>1
    <3> QED BY <3>2, <3>3, Zenon
  <2>2. \A x \in placed : \E p \in places : x = [index |-> p, cycle |-> cycle[p + 1]]
    <3> SUFFICES ASSUME NEW x \in placed
                 PROVE  \E p \in places : x = [index |-> p, cycle |-> cycle[p + 1]]
      OBVIOUS
    <3>1. PICK s \in stamps :
            x = [index |-> IF flag THEN Remapped(s.index, n) ELSE s.index, cycle |-> s.cycle]
      BY <1>8
    <3>2. PICK p \in places :
            s = [index |-> IF newestFirst THEN n - 1 - p ELSE p, cycle |-> cycle[p + 1]]
      BY <1>0
    <3>3. p \in 0 .. n - 1
      BY <1>0
    <3>4. CASE newestFirst
      <4>1. flag = TRUE
        BY <1>19, <1>20, <3>4
      <4>2. x = [index |-> Remapped(n - 1 - p, n), cycle |-> cycle[p + 1]]
        BY <3>1, <3>2, <3>4, <4>1
      <4>3. Remapped(n - 1 - p, n) = p
        BY <3>3 DEF Remapped
      <4> QED BY <4>2, <4>3
    <3>5. CASE ~newestFirst
      <4>1. flag = FALSE
        BY <1>19, <1>20, <3>5
      <4>2. x = [index |-> p, cycle |-> cycle[p + 1]]
        BY <3>1, <3>2, <3>5, <4>1
      <4> QED BY <4>2
    <3> QED BY <3>4, <3>5, Zenon
  <2>3. \A k \in 1 .. n : b.pcs[k].place = k - 1 /\ b.pcs[k].cycle = cycle[k]
    BY <1>1, <2>1 DEF Instruction
  <2>4. \A i, j \in 0 .. n : i <= j => cycle[i] <= cycle[j]
    <3>1. \A i \in 0 .. n : i + 1 \in 0 .. n => cycle[i] <= cycle[i + 1]
      <4> SUFFICES ASSUME NEW i \in 0 .. n, i + 1 \in 0 .. n
                   PROVE  cycle[i] <= cycle[i + 1]
        OBVIOUS
      <4>1. i + 1 \in 1 .. n /\ (i + 1) - 1 = i
        OBVIOUS
      <4> QED BY <1>0, <4>1
    <3> QED BY <1>0, <3>1, NeverFalls
  <2>5. InOrder(b)
    <3>1. \A j, k \in 1 .. n : j <= k => b.pcs[j].cycle <= b.pcs[k].cycle
      BY <2>3, <2>4
    <3> QED BY <1>16, <2>3, <3>1 DEF InOrder
  <2>6. ASSUME NEW s \in 1 .. Len(b.stampAt)
        PROVE  b.stampAt[s] < n /\ b.pcs[b.stampAt[s] + 1].cycle = b.cycles[s]
    <3>1. s \in 1 .. Len(ordered) /\ ordered[s] \in placed
      BY <1>11, <1>17
    <3>2. PICK p \in places : ordered[s] = [index |-> p, cycle |-> cycle[p + 1]]
      BY <2>2, <3>1
    <3>3. p \in 0 .. n - 1 /\ p < n /\ p + 1 \in 1 .. n
      BY <1>0
    <3>4. b.stampAt[s] = p /\ b.cycles[s] = cycle[p + 1]
      BY <1>17, <3>1, <3>2
    <3> QED BY <2>3, <3>3, <3>4
  <2> QED BY <1>16, <2>5, <2>6 DEF Stamped
<1>21. StampsAscend(b)
  <2>1. \A i \in 1 .. Len(ordered) : b.stampAt[i] = ordered[i].index
    BY <1>17
  <2>2. \A i, j \in 1 .. Len(ordered) : i < j => b.stampAt[i] < b.stampAt[j]
    BY <1>11, <2>1
  <2> QED BY <1>17, <2>2 DEF StampsAscend
<1> QED BY <1>13, <1>16, <1>17, <1>18, <1>20, <1>21 DEF BuiltOf

------------------------------------------------------------------------------
(* The steps keep it.                                                        *)

LEMMA BlockParts ==
  ASSUME NEW b \in Block
  PROVE  /\ b.pcs \in Seq(Instr) /\ b.stampAt \in Seq(Nat) /\ b.cycles \in Seq(Nat)
         /\ b.decidable \in BOOLEAN
         /\ Len(b.pcs) \in Nat /\ Len(b.stampAt) \in Nat /\ Len(b.cycles) \in Nat
<1>1. /\ b.pcs \in Seq(Instr) /\ b.stampAt \in Seq(Nat) /\ b.cycles \in Seq(Nat)
      /\ b.decidable \in BOOLEAN
  BY DEF Block
<1> QED BY <1>1

LEMMA StartsAdd ==
  ASSUME NEW bs \in Seq(Block), NEW st, st = Starts(bs)
  PROVE  /\ Len(bs) \in Nat /\ st \in [0 .. Len(bs) -> Nat] /\ st[0] = 0
         /\ \A i \in 1 .. Len(bs) :
              Len(bs[i].pcs) \in Nat /\ st[i] = st[i - 1] + Len(bs[i].pcs)
         /\ \A i, j \in 0 .. Len(bs) : i <= j => st[i] <= st[j]
<1>1. PICK n \in Nat : n = Len(bs)
  OBVIOUS
<1>2. \A i \in 1 .. n : Len(bs[i].pcs) \in Nat
  <2> TAKE i \in 1 .. n
  <2>1. bs[i] \in Block
    BY <1>1
  <2> QED BY <2>1, BlockParts
<1>3. PICK f \in [1 .. n -> Nat] : f = [i \in 1 .. n |-> Len(bs[i].pcs)]
  <2>1. [i \in 1 .. n |-> Len(bs[i].pcs)] \in [1 .. n -> Nat]
    BY <1>2
  <2> QED BY <2>1, Zenon
<1> DEFINE Rec(h) == h = [i \in 0 .. Len(bs) |-> IF i = 0 THEN 0 ELSE h[i - 1] + Len(bs[i].pcs)]
<1>4. st = CHOOSE h : Rec(h)
  BY DEF Starts
<1>5. \A h : Rec(h) <=> AddsUp(h, n, 0, f)
  <2> SUFFICES ASSUME NEW h
               PROVE  [i \in 0 .. Len(bs) |-> IF i = 0 THEN 0 ELSE h[i - 1] + Len(bs[i].pcs)]
                      = [i \in 0 .. n |-> IF i = 0 THEN 0 ELSE h[i - 1] + f[i]]
    BY Zenon DEF AddsUp
  <2>1. \A i \in 0 .. n : i # 0 => Len(bs[i].pcs) = f[i]
    BY <1>3
  <2> QED BY <1>1, <2>1
<1>6. AddsUp(st, n, 0, f)
  <2>1. \E h : AddsUp(h, n, 0, f)
    BY SomeAddsUp
  <2> HIDE DEF Rec
  <2> QED BY <1>4, <1>5, <2>1
<1>7. /\ st \in [0 .. n -> Nat] /\ st[0] = 0
      /\ \A i \in 1 .. n : st[i] = st[i - 1] + f[i]
  <2>1. CountsOn(st, n, 0, f)
    BY <1>6, SumsOf
  <2> QED BY <2>1 DEF CountsOn
<1>8. \A i \in 0 .. n : i + 1 \in 0 .. n => st[i] <= st[i + 1]
  <2> SUFFICES ASSUME NEW i \in 0 .. n, i + 1 \in 0 .. n
               PROVE  st[i] <= st[i + 1]
    OBVIOUS
  <2>1. i + 1 \in 1 .. n /\ (i + 1) - 1 = i /\ f[i + 1] \in Nat /\ st[i] \in Nat
    BY <1>7
  <2> QED BY <1>7, <2>1
<1>9. \A i, j \in 0 .. n : i <= j => st[i] <= st[j]
  BY <1>7, <1>8, NeverFalls
<1>10. \A i \in 1 .. n : st[i] = st[i - 1] + Len(bs[i].pcs)
  BY <1>3, <1>7
<1> QED BY <1>1, <1>2, <1>7, <1>9, <1>10

\* A block that is cut keeps the stamps of what is left of it.
LEMMA CutStaysBuilt ==
  ASSUME NEW w \in Nat, NEW b, BuiltOf(b, w), NEW n \in Nat, n >= 1, n <= Len(b.pcs)
  PROVE  BuiltOf(CutBlock(b, n), w)
<1>1. /\ b \in Block /\ StampsAscend(b) /\ Len(b.pcs) \in Nat
      /\ \A k \in 1 .. Len(b.pcs) : b.pcs[k].window = w
      /\ b.decidable => InOrder(b) /\ Stamped(b)
  BY DEF BuiltOf
<1>2. PICK pcs \in Seq(Instr), at \in Seq(Nat), cs \in Seq(Nat), dec \in BOOLEAN :
        b = [pcs |-> pcs, stampAt |-> at, cycles |-> cs, decidable |-> dec]
  BY <1>1 DEF Block
<1>3. b.pcs = pcs /\ b.stampAt = at /\ b.cycles = cs /\ b.decidable = dec
  BY <1>2
<1>4. PICK m \in Nat : m = Len(at) /\ m = Len(cs)
  BY <1>1, <1>3 DEF StampsAscend
<1>5. \A i, j \in 1 .. m : i < j => at[i] < at[j]
  BY <1>1, <1>3, <1>4 DEF StampsAscend
<1>6. at \in [1 .. m -> Nat]
  BY <1>4, FunctionOfSeq
<1>7. PICK below : below = {i \in 1 .. m : at[i] < n}
  OBVIOUS
<1>8. \A i \in below : \A j \in 1 .. m : j <= i => j \in below
  <2> SUFFICES ASSUME NEW i \in below, NEW j \in 1 .. m, j < i
               PROVE  j \in below
    BY <1>7
  <2>1. i \in 1 .. m /\ at[i] < n /\ at[i] \in Nat /\ at[j] \in Nat
    BY <1>6, <1>7
  <2>2. at[j] < at[i]
    BY <1>5, <2>1
  <2> QED BY <1>7, <2>1, <2>2
<1>9. PICK limit \in 0 .. m : limit = Cardinality(below) /\ \A i \in 1 .. m : at[i] < n <=> i <= limit
  <2>1. below \in SUBSET (1 .. m)
    BY <1>7
  <2>2. /\ Cardinality(below) \in 0 .. m
        /\ \A i \in 1 .. m : i \in below <=> i <= Cardinality(below)
    BY <1>6, <1>8, <2>1, CountBelow
  <2> QED BY <1>7, <2>2
<1>10. CutBlock(b, n) = [pcs |-> SubSeq(pcs, 1, n), stampAt |-> SubSeq(at, 1, limit),
                         cycles |-> SubSeq(cs, 1, limit), decidable |-> dec]
  <2>1. Cardinality({i \in 1 .. Len(b.stampAt) : b.stampAt[i] < n}) = limit
    BY <1>3, <1>4, <1>7, <1>9
  <2>2. CutBlock(b, n) = [b EXCEPT !.pcs = SubSeq(@, 1, n), !.cycles = SubSeq(@, 1, limit),
                                   !.stampAt = SubSeq(@, 1, limit)]
    BY <2>1 DEF CutBlock
  <2> QED BY <1>2, <2>2
<1>11. PICK p \in Seq(Instr), a \in Seq(Nat), c \in Seq(Nat) :
         /\ p = SubSeq(pcs, 1, n) /\ Len(p) = n /\ \A k \in 1 .. n : p[k] = pcs[k]
         /\ a = SubSeq(at, 1, limit) /\ Len(a) = limit /\ \A k \in 1 .. limit : a[k] = at[k]
         /\ c = SubSeq(cs, 1, limit) /\ Len(c) = limit /\ \A k \in 1 .. limit : c[k] = cs[k]
  <2>1. /\ SubSeq(pcs, 1, n) \in Seq(Instr) /\ Len(SubSeq(pcs, 1, n)) = n
        /\ \A k \in 1 .. n : SubSeq(pcs, 1, n)[k] = pcs[k]
    BY <1>1, <1>3
  <2>2. /\ SubSeq(at, 1, limit) \in Seq(Nat) /\ Len(SubSeq(at, 1, limit)) = limit
        /\ \A k \in 1 .. limit : SubSeq(at, 1, limit)[k] = at[k]
    <3>1. limit \in Nat /\ limit <= Len(at)
      BY <1>4, <1>9
    <3> QED BY <3>1, FirstOf
  <2>3. /\ SubSeq(cs, 1, limit) \in Seq(Nat) /\ Len(SubSeq(cs, 1, limit)) = limit
        /\ \A k \in 1 .. limit : SubSeq(cs, 1, limit)[k] = cs[k]
    <3>1. limit \in Nat /\ limit <= Len(cs)
      BY <1>4, <1>9
    <3> QED BY <3>1, FirstOf
  <2> QED BY <2>1, <2>2, <2>3, Zenon
<1>12. PICK d : d = CutBlock(b, n)
  OBVIOUS
<1>13. d = [pcs |-> p, stampAt |-> a, cycles |-> c, decidable |-> dec]
  BY <1>10, <1>11, <1>12, Zenon
<1>14. d.pcs = p /\ d.stampAt = a /\ d.cycles = c /\ d.decidable = dec /\ d \in Block
  BY <1>13 DEF Block
<1>15. \A k \in 1 .. n : k \in 1 .. Len(pcs) /\ p[k] = pcs[k]
  BY <1>1, <1>3, <1>11
<1>16. \A k \in 1 .. limit : k \in 1 .. m /\ a[k] = at[k] /\ c[k] = cs[k] /\ at[k] < n /\ at[k] \in Nat
  BY SMTT(40), <1>6, <1>9, <1>11
<1>17. StampsAscend(d)
  <2>1. \A i, j \in 1 .. limit : i < j => a[i] < a[j]
    BY <1>5, <1>16
  <2> QED BY <1>11, <1>14, <2>1 DEF StampsAscend
<1>18. \A k \in 1 .. n : p[k].window = w
  BY <1>1, <1>3, <1>15
<1>19. ASSUME dec
       PROVE  InOrder(d) /\ Stamped(d)
  <2>1. InOrder(b) /\ Stamped(b)
    BY <1>1, <1>3, <1>19
  <2>2. InOrder(d)
    <3>1. \A k \in 1 .. n : p[k].place = k - 1
      BY <1>3, <1>15, <2>1 DEF InOrder
    <3>2. \A j, k \in 1 .. n : j <= k => p[j].cycle <= p[k].cycle
      BY <1>3, <1>15, <2>1 DEF InOrder
    <3> QED BY <1>11, <1>14, <3>1, <3>2 DEF InOrder
  <2>3. ASSUME NEW s \in 1 .. limit
        PROVE  a[s] < n /\ p[a[s] + 1].cycle = c[s]
    <3>1. pcs[at[s] + 1].cycle = cs[s]
      BY <1>3, <1>4, <1>16, <2>1 DEF Stamped
    <3>2. at[s] \in Nat /\ at[s] < n
      BY <1>16, Zenon
    <3>3. at[s] + 1 \in 1 .. n
      BY SMTT(40), <3>2
    <3> QED BY <1>15, <1>16, <3>1, <3>3
  <2> QED BY <1>11, <1>14, <2>2, <2>3 DEF Stamped
<1> QED BY <1>11, <1>12, <1>14, <1>17, <1>18, <1>19 DEF BuiltOf

LEMMA TimeInvInit == TimeInit => TimeInv
<1> SUFFICES ASSUME TimeInit
             PROVE  TimeInv
  OBVIOUS
<1>1. newestFirst \in BOOLEAN /\ windows = 0 /\ timed = <<>> /\ pending = <<>>
  BY DEF TimeInit
<1>2. timed \in Seq(Block) /\ Len(timed) = 0
  BY <1>1
<1>3. PICK from : from = [i \in 1 .. 0 |-> 0]
  OBVIOUS
<1>4. from \in [1 .. Len(timed) -> Nat]
  BY <1>2, <1>3
<1>5. \A i \in 1 .. Len(timed) : FALSE
  BY <1>2
<1> QED BY <1>1, <1>2, <1>4, <1>5 DEF TimeInv

LEMMA ReadingKeepsTime == ASSUME TimeInv, ReadEx PROVE TimeInv'
<1>1. /\ newestFirst \in BOOLEAN /\ windows \in Nat /\ timed \in Seq(Block)
      /\ pending = <<>> /\ windows' = windows + 1
      /\ newestFirst' = newestFirst /\ timed' = timed
  BY DEF TimeInv, ReadEx
<1>2. PICK origin \in [1 .. Len(timed) -> Nat] :
        /\ \A i \in 1 .. Len(timed) : BuiltOf(timed[i], origin[i]) /\ origin[i] < windows
        /\ \A i, j \in 1 .. Len(timed) : i < j => origin[i] < origin[j]
  BY DEF TimeInv
<1> DEFINE Read(n, from, costs, places, stray) ==
             LET cycle[i \in 0 .. n] == IF i = 0 THEN from ELSE cycle[i - 1] + costs[i]
                 run == [i \in 1 .. n |-> Instruction(windows, i - 1, cycle[i])]
                 index(p) == IF newestFirst THEN n - 1 - p ELSE p
                 stamps == {[index |-> index(p), cycle |-> cycle[p + 1]] : p \in places}
             IN  pending' = <<[pcs |-> IF newestFirst THEN Reverse(run) ELSE run,
                               stamps |-> stamps \union stray,
                               decidable |-> Decidable(stamps, stray)]>>
<1>a. PICK n \in 1 .. WindowSize, from \in {0, 10 * windows} :
        \E costs \in [1 .. n -> Costs], places \in SUBSET (0 .. n - 1) :
        \E stray \in {{}, {[index |-> n + 1, cycle |-> from + 5]}} :
          Read(n, from, costs, places, stray)
  BY DEF ReadEx
<1>b. PICK costs \in [1 .. n -> Costs], places \in SUBSET (0 .. n - 1) :
        \E stray \in {{}, {[index |-> n + 1, cycle |-> from + 5]}} :
          Read(n, from, costs, places, stray)
  BY <1>a, Zenon
<1>3. PICK stray \in {{}, {[index |-> n + 1, cycle |-> from + 5]}} :
        Read(n, from, costs, places, stray)
  BY <1>b, Zenon
<1>4. n \in Nat /\ n >= 1 /\ from \in Nat /\ from + 5 \in Nat /\ costs \in [1 .. n -> Nat]
  <2>1. n \in Nat /\ n >= 1
    BY TimelineAssumption
  <2>2. 10 * windows \in Nat
    BY <1>1
  <2>3. from \in Nat
    BY <2>2
  <2>4. costs \in [1 .. n -> Nat]
    BY TimelineAssumption
  <2> QED BY <2>1, <2>3, <2>4
<1> DEFINE Rec(h) == h = [i \in 0 .. n |-> IF i = 0 THEN from ELSE h[i - 1] + costs[i]]
<1>5. PICK cycle : cycle = CHOOSE h : Rec(h)
  OBVIOUS
<1>6. AddsUp(cycle, n, from, costs)
  <2>1. \E h : AddsUp(h, n, from, costs)
    BY <1>4, SomeAddsUp
  <2>2. \A h : Rec(h) <=> AddsUp(h, n, from, costs)
    BY DEF AddsUp
  <2> HIDE DEF Rec
  <2> QED BY <1>5, <2>1, <2>2
<1>7. CountsOn(cycle, n, from, costs)
  BY <1>4, <1>6, SumsOf
<1>8. cycle \in [0 .. n -> Nat] /\ \A i \in 1 .. n : cycle[i - 1] <= cycle[i]
  <2>1. cycle \in [0 .. n -> Nat] /\ \A i \in 1 .. n : cycle[i] = cycle[i - 1] + costs[i]
    BY <1>7 DEF CountsOn
  <2>2. ASSUME NEW i \in 1 .. n
        PROVE  cycle[i - 1] <= cycle[i]
    <3>1. i - 1 \in 0 .. n /\ i \in 0 .. n /\ costs[i] \in Nat
      BY <1>4
    <3>2. cycle[i - 1] \in Nat /\ cycle[i] = cycle[i - 1] + costs[i]
      BY <2>1, <3>1
    <3> QED BY <3>1, <3>2
  <2> QED BY <2>1, <2>2
<1>9. PICK run : run = [i \in 1 .. n |-> Instruction(windows, i - 1, cycle[i])]
  OBVIOUS
<1>10. PICK stamps : stamps = {[index |-> IF newestFirst THEN n - 1 - p ELSE p,
                                cycle |-> cycle[p + 1]] : p \in places}
  OBVIOUS
<1>11. PICK window : window = [pcs |-> IF newestFirst THEN Reverse(run) ELSE run,
                               stamps |-> stamps \union stray,
                               decidable |-> Decidable(stamps, stray)]
  OBVIOUS
<1>12. pending' = <<window>>
  BY <1>3, <1>5, <1>9, <1>10, <1>11
<1>13. BuiltOf(Chronologise(window), windows)
  <2>1. PICK z \in Nat : z = from + 5
    BY <1>4
  <2>2. stray \in {{}, {[index |-> n + 1, cycle |-> z]}}
    BY <2>1
  <2>3. HandedOut(window, windows, n, cycle, places, stray, z)
    BY <1>8, <1>9, <1>10, <1>11, <2>2, Zenon DEF HandedOut
  <2> QED BY <1>1, <1>4, <2>3, WindowBuilt
<1>14. /\ newestFirst' \in BOOLEAN /\ windows' \in Nat /\ windows' >= 1 /\ windows' - 1 = windows
       /\ timed' \in Seq(Block) /\ Head(pending') = window
  BY <1>1, <1>12
<1>15. BuiltOf(Chronologise(Head(pending')), windows' - 1)
  BY <1>13, <1>14, Zenon
<1>16. \A i \in 1 .. Len(timed') :
         /\ BuiltOf(timed'[i], origin[i]) /\ origin[i] < windows' /\ origin[i] < windows' - 1
  <2> SUFFICES ASSUME NEW i \in 1 .. Len(timed)
               PROVE  BuiltOf(timed[i], origin[i]) /\ origin[i] < windows'
                      /\ origin[i] < windows' - 1
    BY <1>1
  <2>1. origin[i] \in Nat /\ origin[i] < windows
    BY <1>2
  <2> QED BY <1>1, <1>2, <2>1
<1>17. origin \in [1 .. Len(timed') -> Nat]
       /\ \A i, j \in 1 .. Len(timed') : i < j => origin[i] < origin[j]
  BY <1>1, <1>2
<1> QED BY <1>14, <1>15, <1>16, <1>17 DEF TimeInv

\* What is built of a stash goes behind the blocks, and whole blocks go in front.
LEMMA BuildingKeepsTime == ASSUME TimeInv, BuildBlocks PROVE TimeInv'
<1>1. /\ newestFirst \in BOOLEAN /\ windows \in Nat /\ timed \in Seq(Block)
      /\ pending # <<>> /\ pending' = <<>> /\ windows >= 1
      /\ newestFirst' = newestFirst /\ windows' = windows
      /\ BuiltOf(Chronologise(Head(pending)), windows - 1)
  BY DEF TimeInv, BuildBlocks
<1>2. PICK n \in Nat : n = Len(timed)
  BY <1>1
<1>3. PICK from \in [1 .. n -> Nat] :
        /\ \A i \in 1 .. n : BuiltOf(timed[i], from[i]) /\ from[i] < windows - 1
        /\ \A i, j \in 1 .. n : i < j => from[i] < from[j]
  BY <1>1, <1>2 DEF TimeInv
<1>4. PICK built : built = Chronologise(Head(pending))
  OBVIOUS
<1>5. built \in Block /\ BuiltOf(built, windows - 1)
  BY <1>1, <1>4 DEF BuiltOf
<1>6. PICK all : all = Append(timed, built)
  OBVIOUS
<1>7. /\ all \in Seq(Block) /\ Len(all) = n + 1
      /\ \A i \in 1 .. n + 1 : all[i] = IF i = n + 1 THEN built ELSE timed[i]
  BY <1>1, <1>2, <1>5, <1>6
<1> DEFINE fits == {i \in 1 .. Len(all) :
                     i = Len(all) \/ Total(SubSeq(all, i, Len(all))) <= Room}
<1>8. timed' = SubSeq(all, Min(fits), Len(all))
  BY <1>4, <1>6 DEF BuildBlocks
<1>9. PICK first \in 1 .. n + 1 : first = Min(fits)
  <2>1. fits \subseteq Nat /\ fits \subseteq 1 .. n + 1 /\ n + 1 \in fits
    BY <1>7
  <2> HIDE DEF fits
  <2> QED BY <2>1, LeastIs
<1> HIDE DEF fits
<1>10. PICK m \in Nat : m = n + 2 - first
  OBVIOUS
<1>11. /\ timed' \in Seq(Block) /\ Len(timed') = m
       /\ \A i \in 1 .. m : timed'[i] = all[i + first - 1]
  <2>1. timed' = SubSeq(all, first, n + 1)
    BY <1>7, <1>8, <1>9
  <2> QED BY <1>7, <1>10, <2>1
<1>12. PICK origin : origin = [i \in 1 .. m |-> IF i = m THEN windows - 1 ELSE from[i + first - 1]]
  OBVIOUS
<1>13. ASSUME NEW i \in 1 .. m
       PROVE  /\ origin[i] \in Nat /\ origin[i] < windows /\ BuiltOf(timed'[i], origin[i])
              /\ i # m => /\ i + first - 1 \in 1 .. n /\ origin[i] = from[i + first - 1]
                          /\ origin[i] < windows - 1
  <2>1. i + first - 1 \in 1 .. n + 1 /\ (i = m <=> i + first - 1 = n + 1)
    BY <1>10
  <2>2. CASE i = m
    <3>1. origin[i] = windows - 1 /\ timed'[i] = built
      BY <1>7, <1>11, <1>12, <2>1, <2>2
    <3> QED BY <1>1, <1>5, <2>2, <3>1
  <2>3. CASE i # m
    <3>1. i + first - 1 \in 1 .. n
      BY <2>1, <2>3
    <3>2. origin[i] = from[i + first - 1]
      BY <1>12, <2>3
    <3>3. timed'[i] = timed[i + first - 1]
      BY <1>7, <1>11, <2>1, <2>3
    <3>4. from[i + first - 1] \in Nat /\ from[i + first - 1] < windows - 1
          /\ BuiltOf(timed[i + first - 1], from[i + first - 1])
      BY <1>3, <3>1
    <3>5. from[i + first - 1] < windows
      BY <1>1, <3>4
    <3> QED BY <3>1, <3>2, <3>3, <3>4, <3>5
  <2> QED BY <2>2, <2>3
<1>14. origin \in [1 .. m -> Nat]
  BY <1>12, <1>13
<1>15. ASSUME NEW i \in 1 .. m, NEW j \in 1 .. m, i < j
       PROVE  origin[i] < origin[j]
  <2>1. i # m /\ i + first - 1 \in 1 .. n /\ origin[i] = from[i + first - 1]
        /\ origin[i] < windows - 1
    BY <1>13, <1>15
  <2>2. CASE j = m
    <3>1. origin[j] = windows - 1
      BY <1>12, <2>2
    <3> QED BY <2>1, <3>1
  <2>3. CASE j # m
    <3>1. j + first - 1 \in 1 .. n /\ origin[j] = from[j + first - 1]
      BY <1>13, <2>3
    <3>2. i + first - 1 < j + first - 1
      BY <1>15
    <3> QED BY <1>3, <2>1, <3>1, <3>2
  <2> QED BY <2>2, <2>3
<1>16. /\ \A i \in 1 .. Len(timed') : BuiltOf(timed'[i], origin[i]) /\ origin[i] < windows'
       /\ \A i, j \in 1 .. Len(timed') : i < j => origin[i] < origin[j]
       /\ origin \in [1 .. Len(timed') -> Nat]
  BY <1>1, <1>11, <1>13, <1>14, <1>15
<1> QED BY <1>1, <1>11, <1>16 DEF TimeInv

LEMMA CuttingKeepsTime == ASSUME TimeInv, TruncateTimed PROVE TimeInv'
<1>1. /\ newestFirst \in BOOLEAN /\ windows \in Nat /\ timed \in Seq(Block)
      /\ pending = <<>> /\ pending' = <<>>
      /\ newestFirst' = newestFirst /\ windows' = windows
  BY DEF TimeInv, TruncateTimed
<1>2. PICK st : st = Starts(timed)
  OBVIOUS
<1>3. PICK n \in Nat : n = Len(timed)
  BY <1>1
<1>4. PICK from \in [1 .. n -> Nat] :
        /\ \A i \in 1 .. n : BuiltOf(timed[i], from[i]) /\ from[i] < windows
        /\ \A i, j \in 1 .. n : i < j => from[i] < from[j]
  BY <1>3 DEF TimeInv
<1>5. /\ st \in [0 .. n -> Nat] /\ st[0] = 0
      /\ \A i \in 1 .. n : Len(timed[i].pcs) \in Nat /\ st[i] = st[i - 1] + Len(timed[i].pcs)
  BY <1>1, <1>2, <1>3, StartsAdd
<1> DEFINE reach(count) == {i \in 1 .. Len(timed) : StartOf(timed, i + 1) >= count}
<1>6. PICK count \in 1 .. st[n] - 1 :
        timed' = Append(SubSeq(timed, 1, Min(reach(count)) - 1),
                        CutBlock(timed[Min(reach(count))],
                                 count - StartOf(timed, Min(reach(count)))))
  BY <1>2, <1>3 DEF TruncateTimed, Total
<1>7. \A i \in Int : StartOf(timed, i) = st[i - 1]
  BY <1>2 DEF StartOf
<1>8. st[n] \in Nat /\ count \in Nat /\ count >= 1 /\ count <= st[n]
  BY <1>5
<1>9. PICK last \in 1 .. n : last = Min(reach(count)) /\ st[last] >= count
                             /\ \A i \in 1 .. n : st[i] >= count => last <= i
  <2>1. reach(count) = {i \in 1 .. n : st[i] >= count}
    <3>1. \A i \in 1 .. n : StartOf(timed, i + 1) = st[i]
      <4> TAKE i \in 1 .. n
      <4>1. i + 1 \in Int /\ (i + 1) - 1 = i
        OBVIOUS
      <4>2. StartOf(timed, i + 1) = st[(i + 1) - 1]
        BY <1>7, <4>1
      <4> QED BY <4>1, <4>2
    <3> QED BY <1>3, <3>1
  <2>2. n # 0
    BY <1>5, <1>8
  <2>3. n \in reach(count) /\ reach(count) \subseteq Nat
    BY <1>8, <2>1, <2>2
  <2>4. Min(reach(count)) \in reach(count) /\ \A y \in reach(count) : Min(reach(count)) <= y
    <3> HIDE DEF reach
    <3> QED BY <2>3, LeastIs
  <2> HIDE DEF reach
  <2> QED BY <2>1, <2>4
<1> HIDE DEF reach
<1>10. PICK p \in Nat : p = Len(timed[last].pcs) /\ st[last] = st[last - 1] + p
  BY <1>5
<1>11. st[last - 1] \in Nat /\ st[last - 1] < count
  <2>1. last - 1 \in 0 .. n
    OBVIOUS
  <2>2. CASE last = 1
    BY <1>5, <1>8, <2>2
  <2>3. CASE last # 1
    <3>1. last - 1 \in 1 .. n /\ ~(last <= last - 1)
      BY <2>3
    <3>2. ~(st[last - 1] >= count) /\ st[last - 1] \in Nat
      BY <1>5, <1>9, <2>1, <3>1
    <3> QED BY <1>8, <3>2
  <2> QED BY <2>2, <2>3
<1>12. PICK keep \in Nat : keep = count - st[last - 1] /\ keep >= 1 /\ keep <= p
  <2>1. st[last] \in Nat
    BY <1>5
  <2> QED BY SMTT(40), <1>8, <1>9, <1>10, <1>11, <2>1
<1>13. PICK piece : piece = CutBlock(timed[last], keep)
  OBVIOUS
<1>14. BuiltOf(piece, from[last]) /\ piece \in Block
  <2>1. BuiltOf(timed[last], from[last]) /\ from[last] \in Nat
    BY <1>4
  <2>2. BuiltOf(piece, from[last])
    BY <1>10, <1>12, <1>13, <2>1, CutStaysBuilt
  <2> QED BY <2>2 DEF BuiltOf
<1>15. timed' = Append(SubSeq(timed, 1, last - 1), piece)
  <2>1. StartOf(timed, last) = st[last - 1]
    <3>1. last \in Int
      OBVIOUS
    <3> QED BY <1>7, <3>1
  <2>2. count - StartOf(timed, last) = keep
    BY <1>12, <2>1
  <2> QED BY <1>6, <1>9, <1>13, <2>2, Zenon
<1>16. PICK kept \in Seq(Block) : /\ kept = SubSeq(timed, 1, last - 1) /\ Len(kept) = last - 1
                                  /\ \A i \in 1 .. last - 1 : kept[i] = timed[i]
  <2>1. last - 1 \in Nat /\ last - 1 <= Len(timed)
    BY <1>3
  <2>2. /\ SubSeq(timed, 1, last - 1) \in Seq(Block) /\ Len(SubSeq(timed, 1, last - 1)) = last - 1
        /\ \A i \in 1 .. last - 1 : SubSeq(timed, 1, last - 1)[i] = timed[i]
    BY <1>1, <2>1, FirstOf
  <2> QED BY <2>2, Zenon
<1>17. /\ timed' \in Seq(Block) /\ Len(timed') = last
       /\ \A i \in 1 .. last : timed'[i] = IF i = last THEN piece ELSE timed[i]
  BY <1>14, <1>15, <1>16
<1>18. PICK origin : origin = [i \in 1 .. last |-> from[i]]
  OBVIOUS
<1>19. \A i \in 1 .. last : /\ i \in 1 .. n /\ origin[i] = from[i] /\ from[i] \in Nat
                             /\ from[i] < windows /\ BuiltOf(timed'[i], from[i])
  BY SMTT(40), <1>4, <1>14, <1>17, <1>18
<1>20. /\ \A i \in 1 .. Len(timed') : BuiltOf(timed'[i], origin[i]) /\ origin[i] < windows'
       /\ \A i, j \in 1 .. Len(timed') : i < j => origin[i] < origin[j]
       /\ origin \in [1 .. Len(timed') -> Nat]
  <2>1. origin \in [1 .. last -> Nat]
    BY <1>18, <1>19
  <2> QED BY <1>1, <1>4, <1>17, <1>19, <2>1
<1> QED BY <1>1, <1>17, <1>20 DEF TimeInv

LEMMA TimeInvNext == TimeInv /\ [TimeNext]_timeVars => TimeInv'
<1> SUFFICES ASSUME TimeInv, [TimeNext]_timeVars
             PROVE  TimeInv'
  OBVIOUS
<1>1. CASE UNCHANGED timeVars
  BY <1>1 DEF TimeInv, timeVars
<1>2. CASE Ask
  <2>1. UNCHANGED timeVars
    BY <1>2 DEF Ask
  <2> QED BY <1>1, <2>1
<1> QED BY <1>1, <1>2, ReadingKeepsTime, BuildingKeepsTime, CuttingKeepsTime DEF TimeNext

------------------------------------------------------------------------------
(* The instructions of the store, one block behind the other.                *)

\* g joins the sequences of seqs, one after the other.
Joins(g, seqs, n) == g = [i \in 1 .. n |-> IF i = 1 THEN seqs[i] ELSE g[i - 1] \o seqs[i]]

LEMMA SomeJoins ==
  ASSUME NEW n \in Nat, n >= 1, NEW seqs \in [1 .. n -> Seq(Instr)]
  PROVE  \E g : Joins(g, seqs, n)
<1> DEFINE Good(h, m) == /\ h \in [1 .. m -> Seq(Instr)] /\ h[1] = seqs[1]
                         /\ \A i \in 2 .. m : h[i] = h[i - 1] \o seqs[i]
           Some(m) == \E h : Good(h, m)
           T == {m \in 1 .. n : ~Some(m)}
<1>1. T = {}
  <2> SUFFICES ASSUME T # {}
               PROVE  FALSE
    OBVIOUS
  <2>1. PICK m \in T : \A y \in T : m <= y
    <3>1. T \subseteq Nat
      <4> HIDE DEF Some
      <4> QED OBVIOUS
    <3> HIDE DEF T
    <3> QED BY <3>1, LeastNatural
  <2>2. m \in 1 .. n /\ ~Some(m)
    BY <2>1
  <2>3. m # 1
    <3>1. PICK h : h = [i \in 1 .. 1 |-> seqs[1]]
      OBVIOUS
    <3>2. h \in [1 .. 1 -> Seq(Instr)] /\ h[1] = seqs[1]
      BY <3>1
    <3>3. Good(h, 1)
      BY <3>2
    <3> QED BY <2>2, <3>3
  <2>4. m - 1 \in 1 .. n /\ ~(m <= m - 1)
    BY <2>2, <2>3
  <2>5. PICK h : Good(h, m - 1)
    <3> HIDE DEF Some
    <3> QED BY <2>1, <2>4 DEF Some
  <2>6. PICK k : k = [i \in 1 .. m |-> IF i = m THEN h[m - 1] \o seqs[m] ELSE h[i]]
    OBVIOUS
  <2>7. m \in 2 .. n /\ seqs[m] \in Seq(Instr) /\ h[m - 1] \in Seq(Instr)
    BY <2>2, <2>3, <2>5
  <2>8. h[m - 1] \o seqs[m] \in Seq(Instr)
    BY <2>7
  <2>9. \A i \in 1 .. m : k[i] \in Seq(Instr)
    BY <2>2, <2>5, <2>6, <2>8
  <2>10. k \in [1 .. m -> Seq(Instr)]
    BY <2>6, <2>9
  <2>11. k[1] = seqs[1]
    BY <2>2, <2>3, <2>5, <2>6
  <2>12. ASSUME NEW i \in 2 .. m
         PROVE  k[i] = k[i - 1] \o seqs[i]
    <3>1. i - 1 \in 1 .. m /\ i - 1 # m /\ i \in 1 .. m
      BY <2>7
    <3>2. k[i - 1] = h[i - 1]
      BY <2>6, <3>1
    <3>3. CASE i = m
      <4>1. k[i] = h[m - 1] \o seqs[m]
        BY <2>6, <3>1, <3>3
      <4> QED BY <3>2, <3>3, <4>1
    <3>4. CASE i # m
      <4>1. k[i] = h[i] /\ i \in 2 .. m - 1
        BY <2>6, <2>7, <3>1, <3>4
      <4>2. h[i] = h[i - 1] \o seqs[i]
        BY <2>5, <4>1
      <4> QED BY <3>2, <4>1, <4>2
    <3> QED BY <3>3, <3>4
  <2>13. Good(k, m)
    BY <2>10, <2>11, <2>12
  <2> QED BY <2>2, <2>13
<1>2. PICK h : Good(h, n)
  <2>1. n \notin T /\ n \in 1 .. n
    <3> HIDE DEF T
    <3> QED BY <1>1
  <2>2. Some(n)
    <3> HIDE DEF Some
    <3> QED BY <2>1
  <2> QED BY <2>2
<1>3. \A i \in 1 .. n : h[i] = IF i = 1 THEN seqs[i] ELSE h[i - 1] \o seqs[i]
  <2> TAKE i \in 1 .. n
  <2>1. CASE i = 1
    BY <1>2, <2>1
  <2>2. CASE i # 1
    <3>1. i \in 2 .. n
      BY <2>2
    <3> QED BY <1>2, <2>2, <3>1
  <2> QED BY <2>1, <2>2
<1>4. h = [i \in 1 .. n |-> h[i]]
  BY <1>2
<1>5. Joins(h, seqs, n)
  BY <1>3, <1>4 DEF Joins
<1> QED BY <1>5

\* In f, the sequences of seqs up to the m-th begin where st says.
LaidOut(f, seqs, st, m) ==
  /\ f \in Seq(Instr) /\ Len(f) = st[m]
  /\ \A i \in 1 .. m : \A k \in 1 .. Len(seqs[i]) : f[st[i - 1] + k] = seqs[i][k]

\* h is f and s behind it.
StandBehind(h, f, s, a, b) ==
  /\ Len(h) = a + b
  /\ \A k \in 1 .. a : h[k] = f[k]
  /\ \A k \in 1 .. b : h[a + k] = s[k]

LEMMA Behind ==
  ASSUME NEW f \in Seq(Instr), NEW s \in Seq(Instr),
         NEW a \in Nat, NEW b \in Nat, Len(f) = a, Len(s) = b
  PROVE  StandBehind(f \o s, f, s, a, b)
BY DEF StandBehind

\* What is appended begins where the rest ends.
LEMMA OneMore ==
  ASSUME NEW n \in Nat, NEW seqs \in [1 .. n -> Seq(Instr)], NEW st,
         CountsOn(st, n, 0, [i \in 1 .. n |-> Len(seqs[i])]),
         NEW m \in 1 .. n, m # 1, NEW f, LaidOut(f, seqs, st, m - 1)
  PROVE  LaidOut(f \o seqs[m], seqs, st, m)
<1>1. PICK s \in Seq(Instr) : s = seqs[m]
  OBVIOUS
<1>2. m - 1 \in 0 .. n /\ m - 1 \in 1 .. n
  OBVIOUS
<1>3. f \in Seq(Instr) /\ Len(f) = st[m - 1]
  BY DEF LaidOut
<1>4. /\ st \in [0 .. n -> Nat]
      /\ \A i \in 1 .. n : st[i] = st[i - 1] + Len(seqs[i])
  BY DEF CountsOn
<1>5. PICK a \in Nat, b \in Nat : a = st[m - 1] /\ b = Len(s)
  <2>1. st[m - 1] \in Nat /\ Len(s) \in Nat
    BY <1>2, <1>4
  <2> QED BY <2>1, Zenon
<1>6. PICK g \in Seq(Instr) : g = f \o s
  <2>1. f \o s \in Seq(Instr)
    BY <1>3
  <2> QED BY <2>1, Zenon
<1>7. /\ Len(g) = a + b
      /\ \A k \in 1 .. a : g[k] = f[k]
      /\ \A k \in 1 .. b : g[a + k] = s[k]
  <2>1. Len(f) = a
    BY <1>3, <1>5
  <2>2. f \in Seq(Instr) /\ s \in Seq(Instr) /\ Len(f) = a /\ Len(s) = b
    BY <1>3, <1>5, <2>1
  <2>3. StandBehind(f \o s, f, s, a, b)
    BY <2>2, Behind
  <2> QED BY <1>6, <2>3 DEF StandBehind
<1>8. st[m] = a + b
  BY <1>1, <1>4, <1>5
<1>9. ASSUME NEW i \in 1 .. m, NEW k \in 1 .. Len(seqs[i])
      PROVE  g[st[i - 1] + k] = seqs[i][k]
  <2>1. CASE i = m
    BY <1>1, <1>5, <1>7, <1>9, <2>1
  <2>2. CASE i # m
    <3>1. i \in 1 .. m - 1 /\ i \in 1 .. n /\ i - 1 \in 0 .. n /\ i \in 0 .. n
      BY <2>2
    <3>2. f[st[i - 1] + k] = seqs[i][k]
      BY <1>9, <3>1 DEF LaidOut
    <3>3. st[i] <= st[m - 1]
      <4>1. \A x \in 0 .. n : x + 1 \in 0 .. n => st[x] <= st[x + 1]
        <5> SUFFICES ASSUME NEW x \in 0 .. n, x + 1 \in 0 .. n
                     PROVE  st[x] <= st[x + 1]
          OBVIOUS
        <5>1. x + 1 \in 1 .. n /\ (x + 1) - 1 = x
          OBVIOUS
        <5>3. st[x] \in Nat
          BY <1>4
        <5>2. Len(seqs[x + 1]) \in Nat
          BY <5>1
        <5>4. st[x + 1] = st[x] + Len(seqs[x + 1])
          BY <1>4, <5>1
        <5> QED BY <5>2, <5>3, <5>4
      <4>2. \A x, y \in 0 .. n : x <= y => st[x] <= st[y]
        BY <1>4, <4>1, NeverFalls
      <4>3. i <= m - 1
        BY <3>1
      <4> QED BY <1>2, <3>1, <4>2, <4>3
    <3>4. st[i] = st[i - 1] + Len(seqs[i]) /\ st[i - 1] \in Nat /\ st[i] \in Nat
      BY <1>4, <3>1
    <3>5. Len(seqs[i]) \in Nat
      BY <3>1
    <3>6. st[i - 1] + k \in 1 .. a
      <4>1. PICK p \in Nat, q \in Nat, r \in Nat :
              p = st[i - 1] /\ q = st[i] /\ r = Len(seqs[i])
        BY <3>4, <3>5, Zenon
      <4>2. k \in 1 .. r
        BY <4>1
      <4>3. q = p + r /\ q <= a
        BY <1>5, <3>3, <3>4, <4>1
      <4>4. p + k \in 1 .. a
        BY <4>2, <4>3
      <4> QED BY <4>1, <4>4
    <3> QED BY <1>7, <3>2, <3>6
  <2> QED BY <2>1, <2>2
<1> QED BY <1>1, <1>6, <1>7, <1>8, <1>9 DEF LaidOut

LEMMA ItemsLaidOut ==
  ASSUME timed \in Seq(Block), NEW st, st = Starts(timed)
  PROVE  /\ Items \in Seq(Instr) /\ Len(Items) = st[Len(timed)]
         /\ \A i \in 1 .. Len(timed) : \A k \in 1 .. Len(timed[i].pcs) :
              Items[st[i - 1] + k] = timed[i].pcs[k]
<1>1. PICK n \in Nat : n = Len(timed)
  OBVIOUS
<1>2. /\ st \in [0 .. n -> Nat] /\ st[0] = 0
      /\ \A i \in 1 .. n : Len(timed[i].pcs) \in Nat /\ st[i] = st[i - 1] + Len(timed[i].pcs)
  BY <1>1, StartsAdd
<1>3. PICK seqs : seqs = [i \in 1 .. n |-> timed[i].pcs]
  OBVIOUS
<1>4. seqs \in [1 .. n -> Seq(Instr)] /\ \A i \in 1 .. n : seqs[i] = timed[i].pcs
  <2>1. \A i \in 1 .. n : timed[i].pcs \in Seq(Instr)
    <3> TAKE i \in 1 .. n
    <3>1. timed[i] \in Block
      BY <1>1
    <3> QED BY <3>1, BlockParts
  <2> QED BY <1>3, <2>1
<1>5. Items = FlattenSeq(seqs)
  BY <1>1, <1>3 DEF Items
<1>6. seqs \in Seq(Seq(Instr)) /\ Len(seqs) = n
  BY <1>4, SeqOfFunction
<1>7. LaidOut(Items, seqs, st, n)
  <2>1. CASE n = 0
    <3>1. Items = seqs
      BY <1>5, <1>6, <2>1 DEF FlattenSeq
    <3>2. seqs = <<>>
      BY <1>6, <2>1
    <3> QED BY <1>2, <2>1, <3>1, <3>2 DEF LaidOut
  <2>2. CASE n # 0
    <3> DEFINE Rec(g) == g = [i \in 1 .. Len(seqs) |->
                               IF i = 1 THEN seqs[i] ELSE g[i - 1] \o seqs[i]]
    <3>1. PICK g : g = CHOOSE h : Rec(h)
      OBVIOUS
    <3>2. Items = g[n]
      BY <1>5, <1>6, <2>2, <3>1 DEF FlattenSeq
    <3>3. n >= 1
      BY <2>2
    <3>4. Joins(g, seqs, n)
      <4>1. \E h : Joins(h, seqs, n)
        BY <1>4, <3>3, SomeJoins
      <4>2. \A h : Rec(h) <=> Joins(h, seqs, n)
        BY <1>6 DEF Joins
      <4> HIDE DEF Rec
      <4> QED BY <3>1, <4>1, <4>2
    <3>5. \A i \in 1 .. n : g[i] = IF i = 1 THEN seqs[i] ELSE g[i - 1] \o seqs[i]
      <4>1. g = [i \in 1 .. n |-> IF i = 1 THEN seqs[i] ELSE g[i - 1] \o seqs[i]]
        BY <3>4 DEF Joins
      <4> QED BY <4>1, Zenon
    <3>6. CountsOn(st, n, 0, [i \in 1 .. n |-> Len(seqs[i])])
      BY <1>2, <1>4 DEF CountsOn
    <3> DEFINE T == {i \in 1 .. n : ~LaidOut(g[i], seqs, st, i)}
    <3>7. T = {}
      <4> SUFFICES ASSUME T # {}
                   PROVE  FALSE
        OBVIOUS
      <4>1. PICK m \in T : \A y \in T : m <= y
        <5>1. T \subseteq Nat
          OBVIOUS
        <5> HIDE DEF T
        <5> QED BY <5>1, LeastNatural
      <4>2. m \in 1 .. n /\ ~LaidOut(g[m], seqs, st, m)
        BY <4>1
      <4>3. m # 1
        <5>1. g[1] = seqs[1] /\ 1 \in 1 .. n
          BY <3>3, <3>5
        <5>2. seqs[1] \in Seq(Instr) /\ st[1] = Len(seqs[1])
          <6>0. seqs[1] = timed[1].pcs /\ Len(timed[1].pcs) \in Nat
            BY <1>2, <1>4, <5>1, Zenon
          <6>1. seqs[1] = timed[1].pcs /\ Len(timed[1].pcs) \in Nat /\ 1 - 1 = 0
            BY <6>0
          <6>2. st[1] = st[1 - 1] + Len(timed[1].pcs)
            BY <1>2, <5>1
          <6>3. st[1] = 0 + Len(timed[1].pcs)
            BY <1>2, <6>1, <6>2
          <6> QED BY <1>4, <5>1, <6>1, <6>3
        <5>3. \A i \in 1 .. 1 : \A k \in 1 .. Len(seqs[i]) : g[1][st[i - 1] + k] = seqs[i][k]
          BY SMTT(40), <1>2, <5>1, <5>2
        <5>4. LaidOut(g[1], seqs, st, 1)
          BY <5>1, <5>2, <5>3 DEF LaidOut
        <5> QED BY <4>2, <5>4
      <4>4. m - 1 \in 1 .. n /\ ~(m <= m - 1)
        BY <4>2, <4>3
      <4>5. LaidOut(g[m - 1], seqs, st, m - 1)
        BY <4>1, <4>4
      <4>6. g[m] = g[m - 1] \o seqs[m]
        BY <3>5, <4>2, <4>3
      <4>7. LaidOut(g[m - 1] \o seqs[m], seqs, st, m)
        BY <1>4, <3>6, <4>2, <4>3, <4>5, OneMore
      <4> QED BY <4>2, <4>6, <4>7
    <3>8. LaidOut(g[n], seqs, st, n)
      BY <3>3, <3>7
    <3> QED BY <3>2, <3>8
  <2> QED BY <2>1, <2>2
<1> QED BY <1>1, <1>4, <1>7 DEF LaidOut

\* The x-th instruction of the store is the k-th of its block i.
StandsAt(x, i, k) ==
  /\ i \in 1 .. Len(timed) /\ k \in 1 .. Len(timed[i].pcs)
  /\ x = Starts(timed)[i - 1] + k /\ BlockOf(x - 1) = i /\ Items[x] = timed[i].pcs[k]

LEMMA Located ==
  ASSUME timed \in Seq(Block), NEW x \in 1 .. Len(Items)
  PROVE  \E i, k : StandsAt(x, i, k)
<1>1. PICK n \in Nat : n = Len(timed)
  OBVIOUS
<1>2. PICK st : st = Starts(timed)
  OBVIOUS
<1>3. /\ st \in [0 .. n -> Nat] /\ st[0] = 0
      /\ \A i \in 1 .. n : Len(timed[i].pcs) \in Nat /\ st[i] = st[i - 1] + Len(timed[i].pcs)
  BY <1>1, <1>2, StartsAdd
<1>4. /\ Len(Items) = st[n] /\ Items \in Seq(Instr)
      /\ \A i \in 1 .. n : \A k \in 1 .. Len(timed[i].pcs) :
           Items[st[i - 1] + k] = timed[i].pcs[k]
  BY <1>1, <1>2, ItemsLaidOut
<1>5. st[n] \in Nat /\ x \in Nat /\ x >= 1 /\ x <= st[n]
  <2>1. st[n] \in Nat
    BY <1>3
  <2> QED BY <1>4, <2>1
<1>6. n # 0
  BY <1>3, <1>5
<1>7. PICK before : before = {i \in 1 .. n : st[i - 1] <= x - 1}
  OBVIOUS
<1>8. before \subseteq 0 .. n /\ 1 \in before
  BY <1>3, <1>5, <1>6, <1>7
<1>9. PICK b \in before : b = Max(before) /\ \A y \in before : y <= b
  BY <1>8, GreatestIs
<1>10. BlockOf(x - 1) = b
  <2>1. \A i \in 1 .. n : StartOf(timed, i) = st[i - 1]
    BY <1>2 DEF StartOf
  <2>2. {i \in 1 .. Len(timed) : StartOf(timed, i) <= x - 1} = before
    BY <1>1, <1>7, <2>1
  <2> QED BY <1>9, <2>2 DEF BlockOf
<1>11. b \in 1 .. n /\ st[b - 1] <= x - 1 /\ b - 1 \in 0 .. n /\ b \in 0 .. n
  BY <1>7
<1>12. x <= st[b]
  <2>1. CASE b = n
    BY <1>5, <2>1
  <2>2. CASE b # n
    <3>1. b + 1 \in 1 .. n /\ (b + 1) - 1 = b /\ ~(b + 1 <= b)
      BY <1>11, <2>2
    <3>2. ~(st[b] <= x - 1)
      BY <1>7, <1>9, <3>1
    <3>3. st[b] \in Nat
      BY <1>3, <1>11
    <3> QED BY <1>5, <3>2, <3>3
  <2> QED BY <2>1, <2>2
<1>13. PICK p \in Nat, q \in Nat : p = st[b - 1] /\ q = Len(timed[b].pcs) /\ st[b] = p + q
  <2>1. st[b - 1] \in Nat /\ Len(timed[b].pcs) \in Nat
    BY <1>3, <1>11
  <2>2. st[b] = st[b - 1] + Len(timed[b].pcs)
    BY <1>3, <1>11
  <2> QED BY <2>1, <2>2, Zenon
<1>14. PICK k : k = x - p
  OBVIOUS
<1>15. k \in 1 .. q /\ x = p + k
  <2>1. x <= p + q
    BY <1>12, <1>13
  <2>2. p <= x - 1
    BY <1>11, <1>13
  <2>3. x \in Nat
    BY <1>5
  <2> QED BY <1>14, <2>1, <2>2, <2>3
<1>16. Items[p + k] = timed[b].pcs[k]
  BY <1>4, <1>11, <1>13, <1>15
<1>17. StandsAt(x, b, k)
  BY <1>1, <1>2, <1>10, <1>11, <1>13, <1>15, <1>16, Zenon DEF StandsAt
<1> QED BY <1>17

LEMMA StampsStay == TimeInv => StampsStayWithInstructions
<1> SUFFICES ASSUME TimeInv, AllDecidable
             PROVE  /\ \A i \in 1 .. Len(Items) - 1 :
                         \/ Items[i].window < Items[i + 1].window
                         \/ /\ Items[i].window = Items[i + 1].window
                            /\ Items[i].place + 1 = Items[i + 1].place
                    /\ \A b \in 1 .. Len(timed) : \A s \in 1 .. Len(timed[b].stampAt) :
                         /\ timed[b].stampAt[s] < Len(timed[b].pcs)
                         /\ timed[b].pcs[timed[b].stampAt[s] + 1].cycle = timed[b].cycles[s]
  BY DEF StampsStayWithInstructions
<1>1. PICK n \in Nat : n = Len(timed) /\ timed \in Seq(Block)
  BY DEF TimeInv
<1>2. PICK from \in [1 .. n -> Nat] :
        /\ \A i \in 1 .. n : BuiltOf(timed[i], from[i])
        /\ \A i, j \in 1 .. n : i < j => from[i] < from[j]
  BY <1>1 DEF TimeInv
<1>3. \A b \in 1 .. n : /\ timed[b] \in Block /\ Len(timed[b].pcs) \in Nat
                        /\ Len(timed[b].pcs) >= 1
                        /\ \A k \in 1 .. Len(timed[b].pcs) : timed[b].pcs[k].window = from[b]
                        /\ InOrder(timed[b]) /\ Stamped(timed[b])
  BY <1>1, <1>2 DEF BuiltOf, AllDecidable
<1>4. PICK st : st = Starts(timed)
  OBVIOUS
<1>5. /\ st \in [0 .. n -> Nat] /\ st[0] = 0
      /\ \A i \in 1 .. n : Len(timed[i].pcs) \in Nat /\ st[i] = st[i - 1] + Len(timed[i].pcs)
  BY <1>1, <1>4, StartsAdd
<1>6. /\ Len(Items) = st[n] /\ Items \in Seq(Instr)
      /\ \A i \in 1 .. n : \A k \in 1 .. Len(timed[i].pcs) :
           Items[st[i - 1] + k] = timed[i].pcs[k]
  BY <1>1, <1>4, ItemsLaidOut
<1>7. ASSUME NEW x \in 1 .. Len(Items) - 1
      PROVE  \/ Items[x].window < Items[x + 1].window
             \/ /\ Items[x].window = Items[x + 1].window
                /\ Items[x].place + 1 = Items[x + 1].place
  <2>1. x \in 1 .. Len(Items)
    BY <1>6
  <2>2. PICK b, k : StandsAt(x, b, k)
    BY <1>1, <2>1, Located
  <2>3. /\ b \in 1 .. n /\ k \in 1 .. Len(timed[b].pcs) /\ x = st[b - 1] + k
        /\ Items[x] = timed[b].pcs[k]
    BY <1>1, <1>4, <2>2 DEF StandsAt
  <2>4. PICK p \in Nat, q \in Nat : p = st[b - 1] /\ q = Len(timed[b].pcs) /\ st[b] = p + q
    <3>1. b - 1 \in 0 .. n
      BY <2>3
    <3>2. st[b - 1] \in Nat /\ Len(timed[b].pcs) \in Nat
      BY <1>5, <2>3, <3>1
    <3>3. st[b] = st[b - 1] + Len(timed[b].pcs)
      BY <1>5, <2>3
    <3> QED BY <3>2, <3>3, Zenon
  <2>5. k \in 1 .. q /\ x = p + k /\ x \in Nat
    BY <2>3, <2>4
  <2>6. timed[b].pcs[k].window = from[b] /\ timed[b].pcs[k].place = k - 1
    BY <1>3, <2>3 DEF InOrder
  <2>7. CASE k # q
    <3>1. k + 1 \in 1 .. q /\ x + 1 = p + (k + 1)
      BY <2>5, <2>7
    <3>2. Items[x + 1] = timed[b].pcs[k + 1]
      BY <1>6, <2>3, <2>4, <3>1
    <3>3. timed[b].pcs[k + 1].window = from[b] /\ timed[b].pcs[k + 1].place = (k + 1) - 1
      BY <1>3, <2>3, <2>4, <3>1 DEF InOrder
    <3>4. (k - 1) + 1 = (k + 1) - 1
      BY <2>5
    <3> QED BY <2>3, <2>6, <3>2, <3>3, <3>4
  <2>8. CASE k = q
    <3>1. x = st[b] /\ x < st[n]
      <4>1. st[n] \in Nat
        BY <1>5
      <4> QED BY <1>6, <2>4, <2>5, <2>8, <4>1
    <3>2. b # n
      BY <2>5, <3>1
    <3>3. b + 1 \in 1 .. n /\ (b + 1) - 1 = b
      BY <2>3, <3>2
    <3>4. 1 \in 1 .. Len(timed[b + 1].pcs)
      BY <1>3, <3>3
    <3>5. Items[x + 1] = timed[b + 1].pcs[1]
      BY <1>6, <3>1, <3>3, <3>4
    <3>6. timed[b + 1].pcs[1].window = from[b + 1] /\ from[b] < from[b + 1]
      <4>1. b < b + 1
        BY <2>3
      <4> QED BY <1>2, <1>3, <2>3, <3>3, <3>4, <4>1
    <3> QED BY <2>3, <2>6, <3>5, <3>6
  <2> QED BY <2>7, <2>8
<1>8. \A b \in 1 .. n : \A s \in 1 .. Len(timed[b].stampAt) :
        /\ timed[b].stampAt[s] < Len(timed[b].pcs)
        /\ timed[b].pcs[timed[b].stampAt[s] + 1].cycle = timed[b].cycles[s]
  BY <1>3 DEF Stamped
<1> QED BY <1>1, <1>7, <1>8

------------------------------------------------------------------------------
(* What lies between two stamps.                                             *)

LEMMA QuotientOf ==
  ASSUME NEW m \in Nat, NEW d \in Nat, d > 0
  PROVE  /\ m \div d \in Nat /\ (m \div d) * d <= m
         /\ m < ((m \div d) + 1) * d
OBVIOUS

LEMMA TimesRises ==
  ASSUME NEW a \in Nat, NEW b \in Nat, NEW d \in Nat
  PROVE  /\ a <= b => a * d <= b * d
         /\ a * d \in Nat
         /\ a < b /\ d > 0 => a * d < b * d
OBVIOUS

\* A point between two stamps has a cycle between theirs, and leads back to no
\* later a point.
LEMMA Between ==
  ASSUME NEW c \in Nat, NEW g \in Nat, NEW d \in Nat, NEW t \in Nat, t > 0, t < d,
         NEW v, v = IntOf(c * d + g * t, d)
  PROVE  /\ v \in Nat /\ c <= v /\ v <= c + g
         /\ g > 0 => v < c + g
         /\ d * (v - c) <= t * g
<1>1. /\ c * d \in Nat /\ g * t \in Nat /\ g * t <= g * d /\ g * d \in Nat
      /\ g > 0 => g * t < g * d
  <2>1. t * g <= d * g /\ (g > 0 => t * g < d * g)
    BY TimesRises
  <2> QED BY <2>1
<1>2. PICK a \in Nat, b \in Nat : a = c * d /\ b = g * t
  BY <1>1, Zenon
<1>3. v = (a + b) \div d
  BY <1>2 DEF IntOf
<1>4. v \in Nat /\ v * d <= a + b /\ a + b < (v + 1) * d
  BY <1>3, QuotientOf
<1>5. c <= v
  <2> SUFFICES ASSUME v < c
               PROVE  FALSE
    BY <1>4
  <2>1. v + 1 <= c /\ v + 1 \in Nat
    BY <1>4
  <2>2. (v + 1) * d <= c * d
    BY <2>1, TimesRises
  <2>3. (v + 1) * d \in Nat
    BY <2>1, TimesRises
  <2> QED BY <1>2, <1>4, <2>2, <2>3
<1>6. (c + g) * d = a + g * d
  BY <1>2
<1>7. v * d \in Nat /\ (c + g) * d \in Nat
  BY <1>4, TimesRises
<1>8. v <= c + g /\ (g > 0 => v < c + g)
  <2>1. ASSUME c + g < v
        PROVE  FALSE
    <3>1. (c + g) * d < v * d
      BY <1>4, <2>1, TimesRises
    <3> QED BY <1>1, <1>2, <1>4, <1>6, <1>7, <3>1
  <2>2. ASSUME c + g <= v, g > 0
        PROVE  FALSE
    <3>1. (c + g) * d <= v * d
      BY <1>4, <2>2, TimesRises
    <3> QED BY <1>1, <1>2, <1>4, <1>6, <1>7, <2>2, <3>1
  <2> QED BY <1>4, <2>1, <2>2
<1>9. d * (v - c) <= t * g
  <2>1. d * (v - c) = v * d - c * d
    BY <1>4
  <2>2. t * g = g * t
    OBVIOUS
  <2> QED BY <1>2, <1>4, <1>7, <2>1, <2>2
<1> QED BY <1>4, <1>5, <1>8, <1>9

\* The stamps of b around the place off are low and the next one.
Around(b, off, low) ==
  /\ low \in 1 .. Len(b.stampAt) - 1
  /\ b.stampAt[low] < off /\ off < b.stampAt[low + 1]

\* The cycle interpolated between the stamp low and the next one.
CycleBetween(b, off, low) ==
  IntOf(b.cycles[low] * (b.stampAt[low + 1] - b.stampAt[low])
          + (b.cycles[low + 1] - b.cycles[low]) * (off - b.stampAt[low]),
        b.stampAt[low + 1] - b.stampAt[low])

\* An answer is that of a stamp, or lies outside the stamps, or between two.
Answers(e, b, off) ==
  \/ /\ e.exact /\ ~e.extrapolated
     /\ e.cycle = b.pcs[off + 1].cycle
     /\ \E s \in 1 .. Len(b.stampAt) : e.cycle = b.cycles[s]
  \/ ~e.exact /\ e.extrapolated
  \/ /\ ~e.exact /\ ~e.extrapolated
     /\ \E low : /\ Around(b, off, low)
                 /\ e.span = b.stampAt[low + 1] - b.stampAt[low]
                 /\ e.cycle = CycleBetween(b, off, low)

\* What a block in order answers for one of its places.
LEMMA BlockAnswers ==
  ASSUME NEW w \in Nat, NEW b, BuiltOf(b, w), b.decidable,
         NEW off \in 0 .. Len(b.pcs) - 1, NEW e, e = BlockCycle(b, off), e # NoTime
  PROVE  Answers(e, b, off)
<1>1. /\ b \in Block /\ StampsAscend(b) /\ Len(b.pcs) \in Nat
      /\ InOrder(b) /\ Stamped(b)
  BY DEF BuiltOf
<1>2. PICK m \in Nat : m = Len(b.stampAt) /\ m = Len(b.cycles)
  BY <1>1, BlockParts DEF StampsAscend
<1>3. PICK at \in [1 .. m -> Nat] : at = b.stampAt
  <2>1. b.stampAt \in [1 .. m -> Nat]
    BY <1>1, <1>2, BlockParts, FunctionOfSeq
  <2> QED BY <2>1, Zenon
<1>4. \A i, j \in 1 .. m : i < j => at[i] < at[j]
  BY <1>1, <1>2, <1>3 DEF StampsAscend
<1>5. off \in Nat
  BY <1>1
<1>6. PICK below : below = {i \in 1 .. m : at[i] < off}
  OBVIOUS
<1>7. \A i \in below : \A j \in 1 .. m : j <= i => j \in below
  <2> SUFFICES ASSUME NEW i \in below, NEW j \in 1 .. m, j < i
               PROVE  j \in below
    BY <1>6
  <2>1. i \in 1 .. m /\ at[i] < off /\ at[i] \in Nat /\ at[j] \in Nat
    BY <1>6
  <2>2. at[j] < at[i]
    BY <1>4, <2>1
  <2> QED BY <1>5, <1>6, <2>1, <2>2
<1>8. PICK pos \in 0 .. m : pos = Cardinality(below) /\ \A i \in 1 .. m : at[i] < off <=> i <= pos
  <2>1. below \in SUBSET (1 .. m)
    BY <1>6
  <2>2. /\ Cardinality(below) \in 0 .. m
        /\ \A i \in 1 .. m : i \in below <=> i <= Cardinality(below)
    BY <1>7, <2>1, CountBelow
  <2> QED BY <1>6, <2>2
<1>9. Cardinality({i \in 1 .. Len(b.stampAt) : b.stampAt[i] < off}) = pos
  BY <1>2, <1>3, <1>6, <1>8
<1>10. PICK low : low = Min({Max({pos - 1, 0}), m - 2}) + 1
  BY SMTT(40)
<1>11. e = IF pos < m /\ at[pos + 1] = off
           THEN [cycle |-> b.cycles[pos + 1], exact |-> TRUE, span |-> 0,
                 extrapolated |-> FALSE]
           ELSE IF m < 2 THEN NoTime
           ELSE [cycle |-> IntOf(b.cycles[low] * (at[low + 1] - at[low])
                                 + (b.cycles[low + 1] - b.cycles[low]) * (off - at[low]),
                                 at[low + 1] - at[low]),
                 exact |-> FALSE, span |-> at[low + 1] - at[low],
                 extrapolated |-> ~(at[low] <= off /\ off <= at[low + 1])]
  BY <1>2, <1>3, <1>9, <1>10 DEF BlockCycle
<1>12. CASE pos < m /\ at[pos + 1] = off
  <2>1. e = [cycle |-> b.cycles[pos + 1], exact |-> TRUE, span |-> 0, extrapolated |-> FALSE]
    BY <1>11, <1>12, Zenon
  <2>2. pos + 1 \in 1 .. Len(b.stampAt) /\ b.stampAt[pos + 1] = off
    BY <1>2, <1>3, <1>12
  <2>3. b.pcs[off + 1].cycle = b.cycles[pos + 1]
    BY <1>1, <2>2 DEF Stamped
  <2>4. e.exact /\ ~e.extrapolated /\ e.cycle = b.cycles[pos + 1]
    BY <2>1
  <2> QED BY <2>2, <2>3, <2>4 DEF Answers
<1>13. CASE ~(pos < m /\ at[pos + 1] = off)
  <2>1. m >= 2
    BY <1>11, <1>13
  <2>2. /\ e.cycle = IntOf(b.cycles[low] * (at[low + 1] - at[low])
                           + (b.cycles[low + 1] - b.cycles[low]) * (off - at[low]),
                           at[low + 1] - at[low])
        /\ ~e.exact /\ e.span = at[low + 1] - at[low]
        /\ e.extrapolated <=> ~(at[low] <= off /\ off <= at[low + 1])
    <3>1. ~(m < 2)
      BY <2>1
    <3>c. PICK c : c = IntOf(b.cycles[low] * (at[low + 1] - at[low])
                             + (b.cycles[low + 1] - b.cycles[low]) * (off - at[low]),
                             at[low + 1] - at[low])
      OBVIOUS
    <3>d. PICK d : d = at[low + 1] - at[low]
      OBVIOUS
    <3>2. PICK out \in BOOLEAN : out = ~(at[low] <= off /\ off <= at[low + 1])
      OBVIOUS
    <3>3. e = [cycle |-> c, exact |-> FALSE, span |-> d, extrapolated |-> out]
      BY <1>11, <1>13, <3>1, <3>2, <3>c, <3>d, Zenon
    <3>4. e.cycle = c /\ e.exact = FALSE /\ e.span = d /\ e.extrapolated = out
      BY <3>3
    <3> QED BY <3>2, <3>4, <3>c, <3>d, Zenon
  <2>3. low = IF pos = 0 THEN 1 ELSE IF pos = m THEN m - 1 ELSE pos
    <3>1. Max({pos - 1, 0}) = IF pos = 0 THEN 0 ELSE pos - 1
      BY DEF Max
    <3>2. PICK top \in Nat : top = Max({pos - 1, 0}) /\ top = IF pos = 0 THEN 0 ELSE pos - 1
      BY <3>1
    <3>3. Min({top, m - 2}) = IF top <= m - 2 THEN top ELSE m - 2
      BY <2>1 DEF Min
    <3> QED BY <1>10, <2>1, <3>2, <3>3
  <2>4. low \in 1 .. m - 1 /\ low \in 1 .. m /\ low + 1 \in 1 .. m /\ at[low] \in Nat /\ at[low + 1] \in Nat
    <3>1. low \in 1 .. m - 1
      BY <2>1, <2>3
    <3> QED BY <3>1
  <2>5. CASE pos = 0
    <3>1. low = 1 /\ ~(at[1] < off) /\ at[1] # off /\ at[1] \in Nat
      BY <1>8, <1>13, <2>1, <2>3, <2>5
    <3>2. e.extrapolated
      BY <1>5, <2>2, <3>1
    <3> QED BY <2>2, <3>2 DEF Answers
  <2>6. CASE pos = m
    <3>1. low + 1 = m /\ at[m] < off /\ at[m] \in Nat
      BY <1>8, <2>1, <2>3, <2>6
    <3>2. e.extrapolated
      BY <1>5, <2>2, <3>1
    <3> QED BY <2>2, <3>2 DEF Answers
  <2>7. CASE pos # 0 /\ pos # m
    <3>1. low = pos /\ at[low] < off /\ ~(at[low + 1] < off) /\ at[low + 1] # off
      BY <1>8, <1>13, <2>3, <2>4, <2>7
    <3>2. at[low] < off /\ off < at[low + 1]
      BY <1>5, <2>4, <3>1
    <3>3. ~e.extrapolated
      BY <1>5, <2>2, <2>4, <3>2
    <3>4. Around(b, off, low)
      BY <1>2, <1>3, <2>4, <3>2 DEF Around
    <3>5. e.cycle = CycleBetween(b, off, low)
      BY <1>3, <2>2 DEF CycleBetween
    <3> QED BY <1>3, <2>2, <3>3, <3>4, <3>5 DEF Answers
  <2> QED BY <2>5, <2>6, <2>7
<1> QED BY <1>12, <1>13

LEMMA CyclesRise ==
  ASSUME NEW w \in Nat, NEW b, BuiltOf(b, w), b.decidable
  PROVE  /\ Len(b.cycles) = Len(b.stampAt) /\ Len(b.stampAt) \in Nat
         /\ b.cycles \in [1 .. Len(b.stampAt) -> Nat]
         /\ b.stampAt \in [1 .. Len(b.stampAt) -> Nat]
         /\ \A i, j \in 1 .. Len(b.stampAt) : i <= j => b.cycles[i] <= b.cycles[j]
<1>1. /\ b \in Block /\ StampsAscend(b) /\ InOrder(b) /\ Stamped(b) /\ Len(b.pcs) \in Nat
  BY DEF BuiltOf
<1>2. PICK m \in Nat : m = Len(b.stampAt) /\ m = Len(b.cycles)
  BY <1>1, BlockParts DEF StampsAscend
<1>3. b.stampAt \in [1 .. m -> Nat] /\ b.cycles \in [1 .. m -> Nat]
  BY <1>1, <1>2, BlockParts, FunctionOfSeq
<1>4. ASSUME NEW i \in 1 .. m, NEW j \in 1 .. m, i <= j
      PROVE  b.cycles[i] <= b.cycles[j]
  <2>1. b.stampAt[i] <= b.stampAt[j] /\ b.stampAt[i] \in Nat /\ b.stampAt[j] \in Nat
    <3>1. b.stampAt[i] \in Nat /\ b.stampAt[j] \in Nat
      BY <1>3
    <3>2. i < j => b.stampAt[i] < b.stampAt[j]
      BY <1>1, <1>2 DEF StampsAscend
    <3> QED BY <1>4, <3>1, <3>2
  <2>2. /\ b.stampAt[i] < Len(b.pcs) /\ b.pcs[b.stampAt[i] + 1].cycle = b.cycles[i]
        /\ b.stampAt[j] < Len(b.pcs) /\ b.pcs[b.stampAt[j] + 1].cycle = b.cycles[j]
    BY <1>1, <1>2 DEF Stamped
  <2>3. PICK x \in 1 .. Len(b.pcs), y \in 1 .. Len(b.pcs) :
          x = b.stampAt[i] + 1 /\ y = b.stampAt[j] + 1
    BY SMTT(40), <1>1, <2>1, <2>2
  <2>4. x <= y
    BY <2>1, <2>3
  <2>5. b.pcs[x].cycle <= b.pcs[y].cycle
    BY <1>1, <2>4 DEF InOrder
  <2> QED BY <2>2, <2>3, <2>5
<1> QED BY <1>2, <1>3, <1>4

\* The index, as a fraction, of cycle v between the stamp low of a block and the
\* next one, of a block that begins at start.
BackAt(b, low, v, start) ==
  [num |-> (b.stampAt[low] + start) * (b.cycles[low + 1] - b.cycles[low])
           + ((b.stampAt[low + 1] + start) - (b.stampAt[low] + start)) * (v - b.cycles[low]),
   den |-> b.cycles[low + 1] - b.cycles[low]]

\* A cycle between two stamps that differ is looked up between these two.
LEMMA IndexBack ==
  ASSUME NEW w \in Nat, NEW block, NEW b, b = timed[block], BuiltOf(b, w), b.decidable,
         NEW low \in 1 .. Len(b.stampAt) - 1, NEW v \in Nat,
         b.cycles[low] <= v, v < b.cycles[low + 1]
  PROVE  EstimateIndex(v, block) = BackAt(b, low, v, StartOf(timed, block))
<1>1. PICK m \in Nat : m = Len(b.cycles) /\ m = Len(b.stampAt)
  BY CyclesRise
<1>2. PICK cs \in [1 .. m -> Nat] : cs = b.cycles /\ \A i, j \in 1 .. m : i <= j => cs[i] <= cs[j]
  <2>1. b.cycles \in [1 .. m -> Nat] /\ \A i, j \in 1 .. m : i <= j => b.cycles[i] <= b.cycles[j]
    BY <1>1, CyclesRise
  <2> QED BY <2>1, Zenon
<1>3. low \in 1 .. m - 1 /\ low \in 1 .. m /\ low + 1 \in 1 .. m /\ cs[low] <= v /\ v < cs[low + 1]
  BY <1>1, <1>2
<1>4. PICK upto : upto = {i \in 1 .. m : cs[i] <= v}
  OBVIOUS
<1>5. upto = 1 .. low
  <2>1. ASSUME NEW i \in 1 .. m
        PROVE  cs[i] <= v <=> i <= low
    <3>1. cs[i] \in Nat /\ cs[low] \in Nat /\ cs[low + 1] \in Nat
      BY <1>3
    <3>2. i <= low => cs[i] <= cs[low]
      BY <1>2, <1>3
    <3>3. low + 1 <= i => cs[low + 1] <= cs[i]
      BY <1>2, <1>3
    <3> QED BY <1>3, <3>1, <3>2, <3>3
  <2>2. \A i \in 1 .. low : i \in 1 .. m
    BY <1>3
  <2> QED BY <1>3, <1>4, <2>1, <2>2
<1>6. Cardinality(upto) = low
  <2>1. low \in Nat /\ low >= 1
    BY <1>3
  <2> QED BY <1>5, <2>1, FS_Interval
<1>7. Cardinality({i \in 1 .. Len(b.cycles) : b.cycles[i] <= v}) = low
  BY <1>1, <1>2, <1>4, <1>6
<1>8. Min({Max({low - 1, 0}), m - 2}) + 1 = low
  <2>1. Max({low - 1, 0}) = low - 1
    BY <1>3 DEF Max
  <2>2. PICK top \in Nat : top = low - 1 /\ top <= m - 2
    BY <1>3
  <2>3. Min({top, m - 2}) = top
    BY <2>2 DEF Min
  <2>4. Max({low - 1, 0}) = top
    BY <2>1, <2>2
  <2>5. Min({Max({low - 1, 0}), m - 2}) = top
    BY <2>3, <2>4
  <2>6. top + 1 = low
    BY <1>3, <2>2
  <2> QED BY <2>5, <2>6
<1>9. ~(Len(b.cycles) < 2) /\ b.cycles[low + 1] # b.cycles[low]
  <2>1. cs[low] \in Nat /\ cs[low + 1] \in Nat
    BY <1>3
  <2> QED BY <1>1, <1>2, <1>3, <2>1
<1>10. Min({Max({Cardinality({i \in 1 .. Len(b.cycles) : b.cycles[i] <= v}) - 1, 0}),
            Len(b.cycles) - 2}) + 1 = low
  BY <1>1, <1>7, <1>8
<1> QED BY <1>9, <1>10, Zenon DEF EstimateIndex, BackAt

LEMMA BackBetween ==
  ASSUME NEW p \in Nat, NEW g \in Nat, NEW d \in Nat, NEW t \in Nat, NEW u \in Nat,
         d * u <= t * g
  PROVE  p * g <= p * g + d * u /\ p * g + d * u <= (p + t) * g
<1>1. PICK a \in Nat, b \in Nat, c \in Nat : a = p * g /\ b = d * u /\ c = t * g
  <2>1. p * g \in Nat /\ d * u \in Nat /\ t * g \in Nat
    BY TimesRises
  <2> QED BY <2>1, Zenon
<1>2. (p + t) * g = a + c
  BY <1>1
<1> QED BY <1>1, <1>2

\* Cycle v is between those of two stamps, which are of two instructions of the
\* window of the i-th one around it, and it leads back to no later an instruction.
LiesBetween(v, i, b, low) ==
  /\ timed[b].cycles[low] <= v /\ v <= timed[b].cycles[low + 1] /\ v \in Nat
  /\ \E x \in 1 .. i - 1, y \in i + 1 .. Len(Items) :
       /\ Items[x].window = Items[i].window /\ Items[y].window = Items[i].window
       /\ y - x = timed[b].stampAt[low + 1] - timed[b].stampAt[low]
       /\ Items[x].cycle <= v /\ v <= Items[y].cycle
       /\ Items[x].cycle < Items[y].cycle =>
            /\ (x - 1) * EstimateIndex(v, b).den <= EstimateIndex(v, b).num
            /\ EstimateIndex(v, b).num <= (i - 1) * EstimateIndex(v, b).den

LEMMA HonestBetween ==
  ASSUME TimeInv, NEW i \in 1 .. Len(Items), NEW b, NEW k, StandsAt(i, b, k),
         timed[b].decidable, NEW low, Around(timed[b], k - 1, low),
         NEW v, v = CycleBetween(timed[b], k - 1, low)
  PROVE  LiesBetween(v, i, b, low)
<1>1. PICK n \in Nat : n = Len(timed) /\ timed \in Seq(Block)
  BY DEF TimeInv
<1>2. PICK st : st = Starts(timed)
  OBVIOUS
<1>3. /\ b \in 1 .. n /\ k \in 1 .. Len(timed[b].pcs) /\ i = st[b - 1] + k
      /\ Items[i] = timed[b].pcs[k]
  BY <1>1, <1>2 DEF StandsAt
<1>4. PICK w \in Nat : BuiltOf(timed[b], w)
  <2>1. PICK from \in [1 .. n -> Nat] : \A x \in 1 .. n : BuiltOf(timed[x], from[x])
    BY <1>1 DEF TimeInv
  <2>2. from[b] \in Nat /\ BuiltOf(timed[b], from[b])
    BY <1>3, <2>1
  <2> QED BY <2>2
<1>5. PICK B : B = timed[b]
  OBVIOUS
<1>6. /\ Len(B.pcs) \in Nat /\ \A x \in 1 .. Len(B.pcs) : B.pcs[x].window = w
      /\ InOrder(B) /\ Stamped(B) /\ B.decidable /\ BuiltOf(B, w)
  BY <1>4, <1>5 DEF BuiltOf
<1>7. PICK m \in Nat : m = Len(B.stampAt)
  BY <1>6, CyclesRise
<1>8. /\ B.stampAt \in [1 .. m -> Nat] /\ B.cycles \in [1 .. m -> Nat]
      /\ \A x, y \in 1 .. m : x <= y => B.cycles[x] <= B.cycles[y]
  BY <1>6, <1>7, CyclesRise
<1>9. /\ low \in 1 .. m - 1 /\ low \in 1 .. m /\ low + 1 \in 1 .. m
      /\ B.stampAt[low] < k - 1 /\ k - 1 < B.stampAt[low + 1]
  BY <1>5, <1>7 DEF Around
<1>10. PICK i0 \in Nat, i1 \in Nat, c0 \in Nat, c1 \in Nat :
         /\ i0 = B.stampAt[low] /\ i1 = B.stampAt[low + 1]
         /\ c0 = B.cycles[low] /\ c1 = B.cycles[low + 1]
  <2>1. /\ B.stampAt[low] \in Nat /\ B.stampAt[low + 1] \in Nat
        /\ B.cycles[low] \in Nat /\ B.cycles[low + 1] \in Nat
    BY <1>8, <1>9
  <2> QED BY <2>1, Zenon
<1>11. /\ c0 <= c1
       /\ i0 < Len(B.pcs) /\ B.pcs[i0 + 1].cycle = c0
       /\ i1 < Len(B.pcs) /\ B.pcs[i1 + 1].cycle = c1
  <2>1. low <= low + 1
    BY <1>9
  <2>2. c0 <= c1
    BY <1>8, <1>9, <1>10, <2>1
  <2> QED BY <1>6, <1>7, <1>9, <1>10, <2>2 DEF Stamped
<1>12. PICK len \in Nat : len = Len(B.pcs)
  BY <1>6
<1>13. k \in 1 .. len /\ i0 < k - 1 /\ k - 1 < i1 /\ i1 < len
  BY <1>3, <1>5, <1>9, <1>10, <1>11, <1>12
<1>14. PICK p \in Nat : /\ p = st[b - 1] /\ p + len <= Len(Items) /\ i = p + k
                        /\ \A x \in 1 .. len : Items[p + x] = B.pcs[x]
  <2>1. /\ st \in [0 .. n -> Nat] /\ st[b] = st[b - 1] + len
        /\ \A x, y \in 0 .. n : x <= y => st[x] <= st[y]
    BY <1>1, <1>2, <1>3, <1>5, <1>12, StartsAdd
  <2>2. /\ Len(Items) = st[n]
        /\ \A x \in 1 .. len : Items[st[b - 1] + x] = B.pcs[x]
    BY <1>1, <1>2, <1>3, <1>5, <1>12, ItemsLaidOut
  <2>3. b - 1 \in 0 .. n /\ b \in 0 .. n /\ n \in 0 .. n /\ b <= n
    BY <1>3
  <2>4. st[b - 1] \in Nat /\ st[b] <= st[n]
    BY <2>1, <2>3
  <2> QED BY <1>3, <2>1, <2>2, <2>4
<1>15. PICK d \in Nat, g \in Nat, t \in Nat :
         /\ d = i1 - i0 /\ g = c1 - c0 /\ t = k - 1 - i0 /\ t > 0 /\ t < d
  BY <1>11, <1>13
<1>16. v = IntOf(c0 * d + g * t, d)
  BY <1>5, <1>10, <1>15 DEF CycleBetween
<1>17. /\ v \in Nat /\ c0 <= v /\ v <= c0 + g
       /\ g > 0 => v < c0 + g
       /\ d * (v - c0) <= t * g
  BY <1>15, <1>16, Between
<1>18. c0 + g = c1
  BY <1>15
<1>19. PICK x \in 1 .. i - 1, y \in i + 1 .. Len(Items) : x = p + (i0 + 1) /\ y = p + (i1 + 1)
  <2>1. PICK total \in Nat : total = Len(Items)
    <3>1. Items \in Seq(Instr)
      BY <1>1, <1>2, ItemsLaidOut
    <3> QED BY <3>1
  <2>2. p + (i0 + 1) \in 1 .. i - 1
    BY SMTT(40), <1>13, <1>14
  <2>3. p + (i1 + 1) \in i + 1 .. Len(Items)
    <3>1. p + len <= total /\ i = p + k /\ k \in Nat
      BY <1>13, <1>14, <2>1
    <3>2. p + (i1 + 1) \in i + 1 .. total
      BY <1>13, <3>1
    <3> QED BY <2>1, <3>2
  <2> QED BY <2>2, <2>3
<1>20. /\ Items[x] = B.pcs[i0 + 1] /\ Items[y] = B.pcs[i1 + 1]
       /\ Items[x].cycle = c0 /\ Items[y].cycle = c1
       /\ Items[x].window = w /\ Items[y].window = w /\ Items[i].window = w
  <2>1. i0 + 1 \in 1 .. len /\ i1 + 1 \in 1 .. len
    BY <1>13
  <2>2. Items[x] = B.pcs[i0 + 1] /\ Items[y] = B.pcs[i1 + 1]
    BY <1>14, <1>19, <2>1
  <2>3. B.pcs[i0 + 1].window = w /\ B.pcs[i1 + 1].window = w /\ B.pcs[k].window = w
    BY <1>6, <1>12, <1>13, <2>1
  <2>4. Items[i] = B.pcs[k]
    BY <1>3, <1>5
  <2> QED BY <1>11, <2>2, <2>3, <2>4
<1>21. y - x = i1 - i0
  BY <1>19
<1>22. ASSUME c0 < c1
       PROVE  /\ (x - 1) * EstimateIndex(v, b).den <= EstimateIndex(v, b).num
              /\ EstimateIndex(v, b).num <= (i - 1) * EstimateIndex(v, b).den
  <2>1. v < c1
    BY <1>15, <1>17, <1>18, <1>22
  <2>2. StartOf(timed, b) = p
    BY <1>2, <1>14 DEF StartOf
  <2>3. EstimateIndex(v, b)
        = [num |-> (i0 + p) * (c1 - c0) + ((i1 + p) - (i0 + p)) * (v - c0), den |-> c1 - c0]
    <3>1. EstimateIndex(v, b) = BackAt(B, low, v, StartOf(timed, b))
      <4>1. B.cycles[low] <= v /\ v < B.cycles[low + 1]
        BY <1>10, <1>17, <2>1
      <4>2. low \in 1 .. Len(B.stampAt) - 1
        BY <1>7, <1>9
      <4>3. B = timed[b] /\ BuiltOf(B, w) /\ B.decidable /\ v \in Nat
        BY <1>5, <1>6, <1>17
      <4> QED BY <4>1, <4>2, <4>3, IndexBack, Zenon
    <3> QED BY <1>10, <2>2, <3>1, Zenon DEF BackAt
  <2>4. PICK u \in Nat, q \in Nat : u = v - c0 /\ q = i0 + p
    BY <1>17
  <2>5. (i1 + p) - (i0 + p) = d /\ c1 - c0 = g
    BY <1>15
  <2>6. EstimateIndex(v, b) = [num |-> q * g + d * u, den |-> g]
    BY <2>3, <2>4, <2>5, Zenon
  <2>7. EstimateIndex(v, b).num = q * g + d * u /\ EstimateIndex(v, b).den = g
    BY <2>6
  <2>8. q * g <= q * g + d * u /\ q * g + d * u <= (q + t) * g
    BY <1>17, <2>4, BackBetween
  <2>9. x - 1 = q /\ i - 1 = q + t
    <3>1. k \in Nat /\ i = p + k
      BY <1>13, <1>14
    <3> QED BY <1>15, <1>19, <2>4, <3>1
  <2> QED BY <2>7, <2>8, <2>9
<1> QED BY <1>5, <1>10, <1>17, <1>18, <1>20, <1>21, <1>22 DEF LiesBetween

LEMMA TimesAreHonest == TimeInv => TimeHonest
<1> SUFFICES ASSUME TimeInv, AllDecidable, NEW i \in 1 .. Len(Items),
                    EstimateCycle(i - 1) # NoTime
             PROVE  LET e == EstimateCycle(i - 1)
                        same(j) == Items[j].window = Items[i].window
                    IN  /\ e.exact => e.cycle = Items[i].cycle
                        /\ ~e.exact /\ ~e.extrapolated =>
                             \E j \in 1 .. i - 1, k \in i + 1 .. Len(Items) :
                               /\ same(j) /\ same(k) /\ k - j = e.span
                               /\ Items[j].cycle <= e.cycle /\ e.cycle <= Items[k].cycle
                               /\ Items[j].cycle < Items[k].cycle =>
                                    LET x == EstimateIndex(e.cycle, BlockOf(i - 1))
                                    IN  (j - 1) * x.den <= x.num /\ x.num <= (i - 1) * x.den
                        /\ BlockOfCycle(e.cycle) # NoTime /\ ~e.extrapolated =>
                             BlockOfCycle(e.cycle) = BlockOf(i - 1)
  BY DEF TimeHonest
<1>1. PICK n \in Nat : n = Len(timed) /\ timed \in Seq(Block)
  BY DEF TimeInv
<1>2. PICK b, k : StandsAt(i, b, k)
  BY <1>1, Located
<1>3. /\ b \in 1 .. n /\ k \in 1 .. Len(timed[b].pcs) /\ i = Starts(timed)[b - 1] + k
      /\ BlockOf(i - 1) = b /\ Items[i] = timed[b].pcs[k] /\ timed[b].decidable
  BY <1>1, <1>2 DEF StandsAt, AllDecidable
<1>4. PICK w \in Nat : BuiltOf(timed[b], w)
  <2>1. PICK from \in [1 .. n -> Nat] : \A x \in 1 .. n : BuiltOf(timed[x], from[x])
    BY <1>1 DEF TimeInv
  <2>2. from[b] \in Nat /\ BuiltOf(timed[b], from[b])
    BY <1>3, <2>1
  <2> QED BY <2>2
<1>5. PICK p \in Nat : p = StartOf(timed, b) /\ i = p + k
  <2>1. PICK st : st = Starts(timed)
    OBVIOUS
  <2>2. st \in [0 .. n -> Nat] /\ b - 1 \in 0 .. n
    BY <1>1, <1>3, <2>1, StartsAdd
  <2>3. st[b - 1] \in Nat
    BY <2>2
  <2> QED BY <1>3, <2>1, <2>3 DEF StartOf
<1>6. PICK len \in Nat : len = Len(timed[b].pcs)
  BY <1>4 DEF BuiltOf
<1>7. k - 1 \in 0 .. Len(timed[b].pcs) - 1 /\ (k - 1) + 1 = k /\ k \in Nat
  <2>1. k \in 1 .. len
    BY <1>3, <1>6
  <2>2. k - 1 \in 0 .. len - 1 /\ (k - 1) + 1 = k /\ k \in Nat
    BY <2>1
  <2> QED BY <1>6, <2>2
<1>8. PICK e : e = EstimateCycle(i - 1)
  OBVIOUS
<1>9. e = BlockCycle(timed[b], k - 1) /\ e # NoTime
  <2>1. OffsetIn(b, i - 1) = k - 1
    <3>1. (i - 1) - p = k - 1
      BY <1>5, <1>7
    <3> QED BY <1>5, <3>1 DEF OffsetIn
  <2> QED BY <1>3, <1>8, <2>1 DEF EstimateCycle
<1>10. PICK m \in Nat : /\ m = Len(timed[b].stampAt) /\ m = Len(timed[b].cycles)
                        /\ timed[b].cycles \in [1 .. m -> Nat]
                        /\ \A x, y \in 1 .. m : x <= y => timed[b].cycles[x] <= timed[b].cycles[y]
  BY <1>3, <1>4, CyclesRise
<1> DEFINE spans == {x \in 1 .. Len(timed) :
                      /\ timed[x].cycles # <<>>
                      /\ timed[x].cycles[1] <= e.cycle
                      /\ e.cycle <= timed[x].cycles[Len(timed[x].cycles)]}
<1>11. ASSUME NEW s \in 1 .. m, NEW t \in 1 .. m, e.cycle \in Nat,
              timed[b].cycles[s] <= e.cycle, e.cycle <= timed[b].cycles[t],
              BlockOfCycle(e.cycle) # NoTime
       PROVE  BlockOfCycle(e.cycle) = b
  <2>1. 1 \in 1 .. m /\ m \in 1 .. m /\ 1 <= s /\ t <= m
    BY <1>11
  <2>2. /\ timed[b].cycles[1] <= timed[b].cycles[s] /\ timed[b].cycles[t] <= timed[b].cycles[m]
        /\ timed[b].cycles[1] \in Nat /\ timed[b].cycles[s] \in Nat
        /\ timed[b].cycles[t] \in Nat /\ timed[b].cycles[m] \in Nat
    BY <1>10, <2>1
  <2>3. timed[b].cycles[1] <= e.cycle /\ e.cycle <= timed[b].cycles[m]
    BY SMTT(40), <1>11, <2>2
  <2>4. timed[b].cycles # <<>>
    BY <1>10, <2>1
  <2>5. b \in spans
    BY <1>1, <1>3, <1>10, <2>3, <2>4
  <2>6. BlockOfCycle(e.cycle)
        = IF Cardinality(spans) = 1 THEN CHOOSE x \in spans : TRUE ELSE NoTime
    BY DEF BlockOfCycle
  <2>7. IsFiniteSet(spans)
    <3>1. IsFiniteSet(1 .. n)
      BY FS_Interval
    <3>2. spans \in SUBSET (1 .. n)
      BY <1>1
    <3> HIDE DEF spans
    <3> QED BY <3>1, <3>2, FS_Subset
  <2> HIDE DEF spans
  <2>8. Cardinality(spans) = 1
    BY <1>11, <2>6
  <2>9. PICK x : spans = {x}
    BY <2>7, <2>8, FS_Singleton
  <2>10. (CHOOSE y \in spans : TRUE) \in spans
    BY <2>5
  <2>11. (CHOOSE y \in spans : TRUE) = b
    BY <2>5, <2>9, <2>10
  <2> QED BY <2>6, <2>8, <2>11
<1>12. CASE /\ e.exact /\ ~e.extrapolated
            /\ e.cycle = timed[b].pcs[(k - 1) + 1].cycle
            /\ \E s \in 1 .. Len(timed[b].stampAt) : e.cycle = timed[b].cycles[s]
  <2>1. e.cycle = Items[i].cycle
    BY <1>3, <1>7, <1>12
  <2>2. PICK s \in 1 .. m : e.cycle = timed[b].cycles[s]
    BY <1>10, <1>12
  <2>3. e.cycle \in Nat /\ timed[b].cycles[s] <= e.cycle /\ e.cycle <= timed[b].cycles[s]
    BY <1>10, <2>2
  <2>4. BlockOfCycle(e.cycle) # NoTime => BlockOfCycle(e.cycle) = b
    BY <1>11, <2>3
  <2> HIDE DEF spans
  <2> QED BY <1>3, <1>8, <1>12, <2>1, <2>4
<1>13. CASE ~e.exact /\ e.extrapolated
  BY <1>8, <1>13
<1>14. CASE /\ ~e.exact /\ ~e.extrapolated
            /\ \E low : /\ Around(timed[b], k - 1, low)
                        /\ e.span = timed[b].stampAt[low + 1] - timed[b].stampAt[low]
                        /\ e.cycle = CycleBetween(timed[b], k - 1, low)
  <2>1. PICK low : /\ Around(timed[b], k - 1, low)
                   /\ e.span = timed[b].stampAt[low + 1] - timed[b].stampAt[low]
                   /\ e.cycle = CycleBetween(timed[b], k - 1, low)
    BY <1>14
  <2>2. PICK v : v = e.cycle
    OBVIOUS
  <2>a. LiesBetween(v, i, b, low)
    BY <1>2, <1>3, <2>1, <2>2, HonestBetween
  <2>3. /\ timed[b].cycles[low] <= v /\ v <= timed[b].cycles[low + 1] /\ v \in Nat
        /\ \E x \in 1 .. i - 1, y \in i + 1 .. Len(Items) :
             /\ Items[x].window = Items[i].window /\ Items[y].window = Items[i].window
             /\ y - x = timed[b].stampAt[low + 1] - timed[b].stampAt[low]
             /\ Items[x].cycle <= v /\ v <= Items[y].cycle
             /\ Items[x].cycle < Items[y].cycle =>
                  /\ (x - 1) * EstimateIndex(v, b).den <= EstimateIndex(v, b).num
                  /\ EstimateIndex(v, b).num <= (i - 1) * EstimateIndex(v, b).den
    BY <2>a DEF LiesBetween
  <2>4. low \in 1 .. m /\ low + 1 \in 1 .. m
    BY <1>10, <2>1 DEF Around
  <2>5. BlockOfCycle(e.cycle) # NoTime => BlockOfCycle(e.cycle) = b
    BY <1>11, <2>2, <2>3, <2>4
  <2> HIDE DEF spans
  <2> QED BY <1>3, <1>8, <1>14, <2>1, <2>2, <2>3, <2>5
<1>15. Answers(e, timed[b], k - 1)
  BY <1>3, <1>4, <1>7, <1>9, BlockAnswers
<1> QED BY <1>12, <1>13, <1>14, <1>15 DEF Answers

------------------------------------------------------------------------------
(* Samples of high-speed sampling, and what a run of their bytes decodes to. *)
(* Stated for any run of samples that may end in a torn one.                 *)

LEMMA WholeOf ==
  ASSUME NEW m \in Nat, NEW n \in Nat, NEW t \in Nat, t < n
  PROVE  (m * n + t) \div n = m
<1>1. PICK e \in Nat : e = m * n
  <2>1. m * n \in Nat
    BY TimesRises
  <2> QED BY <2>1, Zenon
<1>2. PICK w \in Nat : w = (e + t) \div n /\ w * n <= e + t /\ e + t < (w + 1) * n
  <2>1. e + t \in Nat /\ n > 0
    OBVIOUS
  <2>2. /\ (e + t) \div n \in Nat /\ ((e + t) \div n) * n <= e + t
        /\ e + t < (((e + t) \div n) + 1) * n
    BY <2>1, QuotientOf
  <2> QED BY <2>2, Zenon
<1>3. ~(w < m)
  <2> SUFFICES ASSUME w < m
               PROVE  FALSE
    OBVIOUS
  <2>1. w + 1 \in Nat /\ w + 1 <= m
    OBVIOUS
  <2>2. (w + 1) * n <= m * n
    BY <2>1, TimesRises
  <2>3. PICK f \in Nat : f = (w + 1) * n
    <3>1. (w + 1) * n \in Nat
      BY <2>1, TimesRises
    <3> QED BY <3>1, Zenon
  <2> QED BY <1>1, <1>2, <2>2, <2>3
<1>4. ~(m < w)
  <2> SUFFICES ASSUME m < w
               PROVE  FALSE
    OBVIOUS
  <2>1. m + 1 \in Nat /\ m + 1 <= w
    OBVIOUS
  <2>2. (m + 1) * n <= w * n
    BY <2>1, TimesRises
  <2>3. (m + 1) * n = m * n + n
    OBVIOUS
  <2>4. PICK f \in Nat : f = w * n
    <3>1. w * n \in Nat
      BY TimesRises
    <3> QED BY <3>1, Zenon
  <2> QED BY <1>1, <1>2, <2>2, <2>3, <2>4
<1> QED BY <1>1, <1>2, <1>3, <1>4

LEMMA LeastAmong ==
  ASSUME NEW a \in Nat, NEW b \in Nat
  PROVE  Min({a, b}) \in {a, b} /\ Min({a, b}) <= a /\ Min({a, b}) <= b
<1>1. CASE a <= b
  BY <1>1 DEF Min
<1>2. CASE ~(a <= b)
  BY <1>2 DEF Min
<1> QED BY <1>1, <1>2

\* Sequences one behind the other.
LEMMA PutBehind ==
  ASSUME NEW X, NEW f \in Seq(X), NEW s \in Seq(X),
         NEW a \in Nat, NEW b \in Nat, Len(f) = a, Len(s) = b
  PROVE  f \o s \in Seq(X) /\ StandBehind(f \o s, f, s, a, b)
BY DEF StandBehind

\* f joins the first of n sequences over X up to each of them.
JoinedUp(f, seqs, n, X) ==
  /\ f \in [0 .. n -> Seq(X)] /\ f[0] = <<>>
  /\ \A i \in 1 .. n : f[i] = f[i - 1] \o seqs[i]

LEMMA SomeJoin ==
  ASSUME NEW X, NEW n \in Nat, NEW seqs \in [1 .. n -> Seq(X)]
  PROVE  \E f : JoinedUp(f, seqs, n, X)
<1> DEFINE Some(m) == \E f : JoinedUp(f, seqs, m, X)
           T == {m \in 0 .. n : ~Some(m)}
<1>1. T = {}
  <2> SUFFICES ASSUME T # {}
               PROVE  FALSE
    OBVIOUS
  <2>1. PICK m \in T : \A y \in T : m <= y
    <3>1. T \subseteq Nat
      <4> HIDE DEF Some
      <4> QED OBVIOUS
    <3> HIDE DEF T
    <3> QED BY <3>1, LeastNatural
  <2>2. m \in 0 .. n /\ ~Some(m)
    BY <2>1
  <2>3. m # 0
    <3>1. PICK f : f = [i \in 0 .. 0 |-> <<>>]
      OBVIOUS
    <3>2. f \in [0 .. 0 -> Seq(X)] /\ f[0] = <<>>
      BY <3>1
    <3>3. JoinedUp(f, seqs, 0, X)
      BY <3>2 DEF JoinedUp
    <3> QED BY <2>2, <3>3
  <2>4. m - 1 \in 0 .. n /\ ~(m <= m - 1)
    BY <2>2, <2>3
  <2>5. PICK f : JoinedUp(f, seqs, m - 1, X)
    <3> HIDE DEF Some
    <3> QED BY <2>1, <2>4 DEF Some
  <2>6. /\ f \in [0 .. m - 1 -> Seq(X)] /\ f[0] = <<>>
        /\ \A i \in 1 .. m - 1 : f[i] = f[i - 1] \o seqs[i]
    BY <2>5 DEF JoinedUp
  <2>7. PICK v \in Seq(X) : v = f[m - 1] \o seqs[m]
    <3>1. f[m - 1] \in Seq(X) /\ seqs[m] \in Seq(X)
      BY <2>2, <2>3, <2>6
    <3>2. f[m - 1] \o seqs[m] \in Seq(X)
      BY <3>1
    <3> QED BY <3>2, Zenon
  <2>8. PICK k : k = [i \in 0 .. m |-> IF i = m THEN v ELSE f[i]]
    OBVIOUS
  <2>9. k \in [0 .. m -> Seq(X)] /\ k[0] = <<>> /\ k[m] = v
    <3>1. \A i \in 0 .. m : k[i] \in Seq(X)
      BY <2>2, <2>6, <2>8
    <3> QED BY <2>2, <2>3, <2>6, <2>8, <3>1
  <2>10. ASSUME NEW i \in 1 .. m
         PROVE  k[i] = k[i - 1] \o seqs[i]
    <3>1. i - 1 \in 0 .. m /\ i - 1 # m
      BY <2>2
    <3>2. k[i - 1] = f[i - 1]
      BY <2>8, <3>1
    <3>3. CASE i = m
      BY <2>7, <2>9, <3>2, <3>3
    <3>4. CASE i # m
      <4>1. i \in 1 .. m - 1 /\ i \in 0 .. m
        BY <2>2, <3>4
      <4>2. k[i] = f[i]
        BY <2>8, <3>4, <4>1
      <4> QED BY <2>6, <3>2, <4>1, <4>2
    <3> QED BY <3>3, <3>4
  <2>11. JoinedUp(k, seqs, m, X)
    BY <2>9, <2>10 DEF JoinedUp
  <2> QED BY <2>2, <2>11
<1>2. n \notin T /\ n \in 0 .. n
  <2> HIDE DEF T
  <2> QED BY <1>1
<1>3. Some(n)
  <2> HIDE DEF Some
  <2> QED BY <1>2
<1> QED BY <1>3

\* Flattening the first m sequences gives the m-th join.
FlattensTo(f, seqs, m) == FlattenSeq([i \in 1 .. m |-> seqs[i]]) = f[m]

LEMMA FlattenJoins ==
  ASSUME NEW X, NEW n \in Nat, NEW seqs \in [1 .. n -> Seq(X)],
         NEW f, JoinedUp(f, seqs, n, X), NEW m \in 0 .. n
  PROVE  FlattensTo(f, seqs, m)
<1>1. /\ f \in [0 .. n -> Seq(X)] /\ f[0] = <<>>
      /\ \A i \in 1 .. n : f[i] = f[i - 1] \o seqs[i]
  BY DEF JoinedUp
<1>2. PICK s : s = [i \in 1 .. m |-> seqs[i]]
  OBVIOUS
<1>3. s \in Seq(Seq(X)) /\ Len(s) = m
  <2>1. s \in [1 .. m -> Seq(X)] /\ m \in Nat
    BY <1>2
  <2>2. PICK Y : Y = Seq(X)
    OBVIOUS
  <2>3. s \in Seq(Y) /\ Len(s) = m
    BY <2>1, <2>2
  <2> QED BY <2>2, <2>3
<1>4. CASE m = 0
  <2>1. s = <<>>
    BY <1>3, <1>4
  <2>2. Len(s) = 0
    BY <2>1
  <2>3. FlattenSeq(s) = <<>>
    BY <2>1, <2>2 DEF FlattenSeq
  <2>4. f[m] = <<>>
    BY <1>1, <1>4
  <2> QED BY <1>2, <2>3, <2>4, Zenon DEF FlattensTo
<1>5. CASE m # 0
  <2> DEFINE Rec(g) == g = [i \in 1 .. Len(s) |-> IF i = 1 THEN s[i] ELSE g[i - 1] \o s[i]]
  <2>1. PICK g : g = CHOOSE h : Rec(h)
    OBVIOUS
  <2>2. FlattenSeq(s) = g[m]
    BY <1>3, <1>5, <2>1 DEF FlattenSeq
  <2>3. PICK h : h = [i \in 1 .. m |-> f[i]]
    OBVIOUS
  <2>4. ASSUME NEW i \in 1 .. m
        PROVE  h[i] = IF i = 1 THEN s[i] ELSE h[i - 1] \o s[i]
    <3>1. i \in 1 .. n /\ s[i] = seqs[i] /\ h[i] = f[i] /\ f[i] = f[i - 1] \o seqs[i]
      <4>1. i \in 1 .. n
        OBVIOUS
      <4>2. s[i] = seqs[i]
        BY <1>2, Zenon
      <4>3. h[i] = f[i]
        BY <2>3, Zenon
      <4>4. f[i] = f[i - 1] \o seqs[i]
        BY <1>1, <4>1, Zenon
      <4> QED BY <4>1, <4>2, <4>3, <4>4
    <3>2. CASE i = 1
      <4>1. seqs[i] \in Seq(X) /\ f[i - 1] = <<>>
        BY <1>1, <3>1, <3>2
      <4>2. <<>> \o seqs[i] = seqs[i]
        BY <4>1, ConcatEmptySeq
      <4> QED BY <3>1, <3>2, <4>1, <4>2
    <3>3. CASE i # 1
      <4>1. i - 1 \in 1 .. m
        BY <3>3
      <4>2. h[i - 1] = f[i - 1]
        BY <2>3, <4>1
      <4> QED BY <3>1, <3>3, <4>2
    <3> QED BY <3>2, <3>3
  <2>5. Rec(h)
    <3>1. h = [i \in 1 .. m |-> h[i]]
      BY <2>3
    <3>2. h = [i \in 1 .. m |-> IF i = 1 THEN s[i] ELSE h[i - 1] \o s[i]]
      BY <2>4, <3>1, Zenon
    <3> QED BY <1>3, <3>2
  <2>6. Rec(g)
    <3> HIDE DEF Rec
    <3> QED BY <2>1, <2>5
  <2>7. \A i \in 1 .. m : g[i] = IF i = 1 THEN s[i] ELSE g[i - 1] \o s[i]
    <3>1. g = [i \in 1 .. m |-> IF i = 1 THEN s[i] ELSE g[i - 1] \o s[i]]
      BY <1>3, <2>6
    <3> QED BY <3>1, Zenon
  <2> HIDE DEF Rec
  <2> DEFINE T == {i \in 1 .. m : g[i] # h[i]}
  <2>8. T = {}
    <3> SUFFICES ASSUME T # {}
                 PROVE  FALSE
      OBVIOUS
    <3>1. PICK j \in T : \A y \in T : j <= y
      <4>1. T \subseteq Nat
        OBVIOUS
      <4> HIDE DEF T
      <4> QED BY <4>1, LeastNatural
    <3>2. j \in 1 .. m /\ g[j] # h[j]
      BY <3>1
    <3>3. j # 1
      BY <2>4, <2>7, <3>2
    <3>4. j - 1 \in 1 .. m /\ ~(j <= j - 1)
      BY <3>2, <3>3
    <3>5. g[j - 1] = h[j - 1]
      BY <3>1, <3>4
    <3> QED BY <2>4, <2>7, <3>2, <3>3, <3>5
  <2>9. g[m] = h[m] /\ h[m] = f[m]
    <3>1. m \in 1 .. m
      BY <1>5
    <3>2. h[m] = f[m]
      BY <2>3, <3>1
    <3> QED BY <2>8, <3>1, <3>2
  <2> QED BY <1>2, <2>2, <2>9, Zenon DEF FlattensTo
<1> QED BY <1>4, <1>5

\* g begins with f.
Continues(g, f) == Len(f) <= Len(g) /\ \A x \in 1 .. Len(f) : g[x] = f[x]

\* What was joined stays where it is.
LEMMA JoinsStay ==
  ASSUME NEW X, NEW n \in Nat, NEW seqs \in [1 .. n -> Seq(X)],
         NEW f, JoinedUp(f, seqs, n, X), NEW p \in 0 .. n
  PROVE  \A q \in p .. n : Continues(f[q], f[p])
<1>1. /\ f \in [0 .. n -> Seq(X)]
      /\ \A i \in 1 .. n : f[i] = f[i - 1] \o seqs[i]
  BY DEF JoinedUp
<1> DEFINE Stay(q) == /\ Len(f[p]) <= Len(f[q])
                      /\ \A x \in 1 .. Len(f[p]) : f[q][x] = f[p][x]
           T == {q \in p .. n : ~Stay(q)}
<1>2. T = {}
  <2> SUFFICES ASSUME T # {}
               PROVE  FALSE
    OBVIOUS
  <2>1. PICK q \in T : \A y \in T : q <= y
    <3>1. T \subseteq Nat
      <4> HIDE DEF Stay
      <4> QED OBVIOUS
    <3> HIDE DEF T
    <3> QED BY <3>1, LeastNatural
  <2>2. q \in p .. n /\ ~Stay(q)
    BY <2>1
  <2>3. PICK a \in Nat : a = Len(f[p])
    <3>1. f[p] \in Seq(X)
      BY <1>1
    <3>2. Len(f[p]) \in Nat
      BY <3>1
    <3> QED BY <3>2, Zenon
  <2>4. q # p
    BY <2>2, <2>3
  <2>5. q - 1 \in p .. n /\ ~(q <= q - 1) /\ q \in 1 .. n /\ q - 1 \in 0 .. n
    BY <2>2, <2>4
  <2>6. Stay(q - 1)
    <3> HIDE DEF Stay
    <3> QED BY <2>1, <2>5
  <2>7. PICK g \in Seq(X) : g = f[q - 1]
    BY <1>1, <2>5
  <2>8. PICK s \in Seq(X) : s = seqs[q]
    BY <2>5
  <2>9. PICK b \in Nat, c \in Nat : b = Len(g) /\ c = Len(s)
    <3>1. Len(g) \in Nat /\ Len(s) \in Nat
      OBVIOUS
    <3> QED BY <3>1, Zenon
  <2>10. StandBehind(g \o s, g, s, b, c)
    BY <2>9, PutBehind
  <2>11. f[q] = g \o s
    BY <1>1, <2>5, <2>7, <2>8
  <2>12. a <= b /\ \A x \in 1 .. a : g[x] = f[p][x]
    BY <2>3, <2>6, <2>7, <2>9
  <2>13. Len(f[q]) = b + c /\ \A x \in 1 .. b : f[q][x] = g[x]
    BY <2>10, <2>11 DEF StandBehind
  <2>14. Stay(q)
    <3>1. a <= b + c
      BY <2>12
    <3>2. \A x \in 1 .. a : x \in 1 .. b
      BY <2>12
    <3> QED BY <2>3, <2>12, <2>13, <3>1, <3>2
  <2> QED BY <2>2, <2>14
<1>3. \A q \in p .. n : Stay(q)
  <2> HIDE DEF Stay
  <2> QED BY <1>2
<1> QED BY <1>3 DEF Continues

\* What is added to the i-th join stands behind the one before it in the last.
PartStands(f, seqs, n, i) ==
  /\ Len(f[i]) = Len(f[i - 1]) + Len(seqs[i])
  /\ Len(f[i]) <= Len(f[n])
  /\ \A k \in 1 .. Len(seqs[i]) : f[n][Len(f[i - 1]) + k] = seqs[i][k]

LEMMA PartsStand ==
  ASSUME NEW X, NEW n \in Nat, NEW seqs \in [1 .. n -> Seq(X)],
         NEW f, JoinedUp(f, seqs, n, X), NEW i \in 1 .. n
  PROVE  PartStands(f, seqs, n, i)
<1>1. /\ f \in [0 .. n -> Seq(X)] /\ f[i] = f[i - 1] \o seqs[i]
  BY DEF JoinedUp
<1>2. PICK g \in Seq(X), s \in Seq(X) : g = f[i - 1] /\ s = seqs[i]
  <2>1. f[i - 1] \in Seq(X) /\ seqs[i] \in Seq(X)
    BY <1>1
  <2> QED BY <2>1, Zenon
<1>3. PICK b \in Nat, c \in Nat : b = Len(g) /\ c = Len(s)
  <2>1. Len(g) \in Nat /\ Len(s) \in Nat
    OBVIOUS
  <2> QED BY <2>1, Zenon
<1>4. StandBehind(g \o s, g, s, b, c)
  BY <1>3, PutBehind
<1>5. Len(f[i]) = b + c /\ \A k \in 1 .. c : f[i][b + k] = s[k]
  BY <1>1, <1>2, <1>4 DEF StandBehind
<1>6. i \in 0 .. n /\ n \in i .. n
  OBVIOUS
<1>7. Len(f[i]) <= Len(f[n]) /\ \A x \in 1 .. Len(f[i]) : f[n][x] = f[i][x]
  <2>1. \A q \in i .. n : Continues(f[q], f[i])
    BY <1>6, JoinsStay
  <2>2. Continues(f[n], f[i])
    BY <1>6, <2>1
  <2> QED BY <2>2 DEF Continues
<1>8. \A k \in 1 .. c : f[n][b + k] = s[k]
  <2> TAKE k \in 1 .. c
  <2>1. b + k \in 1 .. b + c
    OBVIOUS
  <2> QED BY <1>5, <1>7, <2>1
<1> QED BY <1>2, <1>3, <1>5, <1>7, <1>8 DEF PartStands

Triple == Nat \X Nat \X Nat

LEMMA LayoutParts ==
  ASSUME NEW layout \in Layouts
  PROVE  /\ layout.stamped \in BOOLEAN /\ layout.sizes \in Seq(Nat)
         /\ \E b \in 1 .. Len(layout.sizes) : layout.sizes[b] > 0
<1>1. layout.stamped \in BOOLEAN /\ layout.sizes \in BlockLists
  BY DEF Layouts
<1> QED BY <1>1, BlocksAssumption

LEMMA SumsRegrouped ==
  ASSUME NEW a \in Nat, NEW b \in Nat, NEW c \in Nat
  PROVE  a + (b + c) = (a + b) + c
OBVIOUS

\* seqs are blocks of a layout that has m, behind s0 bytes.
BlocksLaid(layout, s0, m, seqs) ==
  /\ s0 = IF layout.stamped THEN StampBytes ELSE 0
  /\ m = Len(layout.sizes)
  /\ seqs \in [1 .. m -> Seq(Triple)]
  /\ \A b \in 1 .. m : Len(seqs[b]) = layout.sizes[b]

\* Before block b of a layout lie the stamp and the blocks in front of it.
StartsBehind(layout, b, s0, f) == BytesBefore(layout, b) = s0 + Len(f[b - 1])

LEMMA BeforeBlocks ==
  ASSUME NEW layout, NEW s0 \in Nat, NEW m \in Nat, NEW seqs,
         BlocksLaid(layout, s0, m, seqs),
         NEW f, JoinedUp(f, seqs, m, Triple), NEW b \in 1 .. m + 1
  PROVE  StartsBehind(layout, b, s0, f)
<1>1. /\ s0 = IF layout.stamped THEN StampBytes ELSE 0
      /\ seqs \in [1 .. m -> Seq(Triple)]
      /\ \A p \in 1 .. m : Len(seqs[p]) = layout.sizes[p]
  BY DEF BlocksLaid
<1> DEFINE Rec(g) == g = [n \in 1 .. b |->
                            IF n = 1 THEN IF layout.stamped THEN StampBytes ELSE 0
                            ELSE g[n - 1] + layout.sizes[n - 1]]
<1>2. PICK g : g = CHOOSE h : Rec(h)
  OBVIOUS
<1>3. BytesBefore(layout, b) = g[b]
  BY <1>2 DEF BytesBefore
<1>4. PICK h : h = [n \in 1 .. b |-> s0 + Len(f[n - 1])]
  OBVIOUS
<1>5. h[1] = s0
  <2>1. f[0] = <<>> /\ 1 - 1 = 0
    BY DEF JoinedUp
  <2>2. Len(f[1 - 1]) = 0
    BY <2>1
  <2>3. h[1] = s0 + Len(f[1 - 1])
    BY <1>4
  <2>4. s0 + 0 = s0
    OBVIOUS
  <2> QED BY <2>2, <2>3, <2>4, Zenon
<1>6. ASSUME NEW n \in 1 .. b, n # 1
      PROVE  h[n] = h[n - 1] + layout.sizes[n - 1]
  <2>1. n - 1 \in 1 .. m /\ n - 1 \in 1 .. b
    BY <1>6
  <2>2. PICK p \in 1 .. m : p = n - 1
    BY <2>1
  <2>3. PartStands(f, seqs, m, p)
    BY <1>1, PartsStand
  <2>4. Len(f[p]) = Len(f[p - 1]) + Len(seqs[p])
    BY <2>3 DEF PartStands
  <2>5. Len(f[p - 1]) \in Nat /\ Len(seqs[p]) \in Nat
    <3>1. f \in [0 .. m -> Seq(Triple)] /\ p - 1 \in 0 .. m
      BY DEF JoinedUp
    <3>2. f[p - 1] \in Seq(Triple) /\ seqs[p] \in Seq(Triple)
      BY <1>1, <3>1
    <3> QED BY <3>2
  <2>6. h[n] = s0 + Len(f[p]) /\ h[p] = s0 + Len(f[p - 1])
    BY <1>4, <2>1, <2>2
  <2>7. Len(seqs[p]) = layout.sizes[p]
    BY <1>1
  <2>8. PICK a \in Nat, c \in Nat : a = Len(f[p - 1]) /\ c = Len(seqs[p])
    BY <2>5
  <2>9. h[n] = s0 + (a + c) /\ h[p] = s0 + a
    BY <2>4, <2>6, <2>8
  <2>10. s0 + (a + c) = (s0 + a) + c
    BY SumsRegrouped
  <2>11. h[n] = h[p] + layout.sizes[p]
    BY <2>7, <2>8, <2>9, <2>10, Zenon
  <2> QED BY <2>2, <2>11, Zenon
<1>7. Rec(h)
  <2>1. \A n \in 1 .. b : h[n] = IF n = 1 THEN IF layout.stamped THEN StampBytes ELSE 0
                                 ELSE h[n - 1] + layout.sizes[n - 1]
    BY <1>1, <1>5, <1>6
  <2>2. h = [n \in 1 .. b |-> h[n]]
    BY <1>4
  <2> QED BY <2>1, <2>2, Zenon
<1>8. Rec(g)
  <2> HIDE DEF Rec
  <2> QED BY <1>2, <1>7
<1>9. \A n \in 1 .. b : g[n] = IF n = 1 THEN IF layout.stamped THEN StampBytes ELSE 0
                               ELSE g[n - 1] + layout.sizes[n - 1]
  BY <1>8, Zenon
<1> HIDE DEF Rec
<1> DEFINE T == {n \in 1 .. b : g[n] # h[n]}
<1>10. T = {}
  <2> SUFFICES ASSUME T # {}
               PROVE  FALSE
    OBVIOUS
  <2>1. PICK j \in T : \A y \in T : j <= y
    <3>1. T \subseteq Nat
      OBVIOUS
    <3> HIDE DEF T
    <3> QED BY <3>1, LeastNatural
  <2>2. j \in 1 .. b /\ g[j] # h[j]
    BY <2>1
  <2>3. j # 1
    BY <1>1, <1>5, <1>9, <2>2
  <2>4. j - 1 \in 1 .. b /\ ~(j <= j - 1)
    BY <2>2, <2>3
  <2>5. g[j - 1] = h[j - 1]
    BY <2>1, <2>4
  <2> QED BY <1>6, <1>9, <2>2, <2>3, <2>5
<1>11. b \in 1 .. b
  OBVIOUS
<1> QED BY <1>3, <1>4, <1>10, <1>11 DEF StartsBehind

\* x is block b of sample s, of n bytes.
FieldOf(x, s, b, n) ==
  x \in Seq(Triple) /\ Len(x) = n /\ \A k \in 1 .. n : x[k] = <<s, b, k>>

LEMMA FieldIs ==
  ASSUME NEW s \in Nat, NEW b \in Nat, NEW n \in Nat
  PROVE  FieldOf(HssField(s, b, n), s, b, n)
<1>1. PICK x : x = HssField(s, b, n)
  OBVIOUS
<1>2. x \in [1 .. n -> Triple] /\ \A k \in 1 .. n : x[k] = <<s, b, k>>
  BY <1>1 DEF HssField, Triple
<1>3. x \in Seq(Triple) /\ Len(x) = n
  BY <1>2
<1> QED BY <1>1, <1>2, <1>3 DEF FieldOf

\* h is f with s behind it.
TripleBehind(h, f, s, a, b) ==
  /\ h \in Seq(Triple) /\ Len(h) = a + b
  /\ \A k \in 1 .. a : h[k] = f[k]
  /\ \A k \in 1 .. b : h[a + k] = s[k]

LEMMA BehindTriple ==
  ASSUME NEW f \in Seq(Triple), NEW s \in Seq(Triple),
         NEW a \in Nat, NEW b \in Nat, Len(f) = a, Len(s) = b
  PROVE  TripleBehind(f \o s, f, s, a, b)
<1> HIDE DEF Triple
<1> QED BY DEF TripleBehind

\* Block b stands in the sample s behind the first from bytes.
BlockLies(sb, s, b, from, size, n) ==
  /\ from \in Nat /\ size \in Nat /\ from + size <= n
  /\ \A k \in 1 .. size : sb[from + k] = <<s, b, k>>

\* The bytes of sample s of a layout that takes n of them.
SampleLaid(sb, s, layout, n) ==
  /\ sb \in Seq(Triple) /\ Len(sb) = n /\ n \in Nat /\ n >= 1
  /\ layout.stamped => BlockLies(sb, s, 0, 0, StampBytes, n)
  /\ \A b \in 1 .. Len(layout.sizes) :
       BlockLies(sb, s, b, BytesBefore(layout, b), layout.sizes[b], n)

LEMMA SampleLies ==
  ASSUME NEW layout \in Layouts, NEW s \in Nat
  PROVE  SampleLaid(SampleBytes(s, layout), s, layout, SampleSize(layout))
<1>1. PICK s0 \in Nat : s0 = IF layout.stamped THEN StampBytes ELSE 0
  BY DEF StampBytes
<1>2. PICK m \in Nat : m = Len(layout.sizes)
  BY LayoutParts
<1>3. \A b \in 1 .. m : layout.sizes[b] \in Nat
  BY <1>2, LayoutParts
<1>4. PICK st \in Seq(Triple) : st = Stamp(s, layout) /\ FieldOf(st, s, 0, s0)
  <2>1. CASE layout.stamped
    <3>1. s0 \in Nat /\ 0 \in Nat /\ Stamp(s, layout) = HssField(s, 0, s0)
      BY <1>1, <2>1 DEF Stamp
    <3>2. FieldOf(HssField(s, 0, s0), s, 0, s0)
      BY <3>1, FieldIs
    <3> QED BY <3>1, <3>2 DEF FieldOf
  <2>2. CASE ~layout.stamped
    <3>1. s0 = 0 /\ Stamp(s, layout) = <<>>
      BY <1>1, <2>2 DEF Stamp
    <3>2. <<>> \in Seq(Triple) /\ Len(<<>>) = 0
      OBVIOUS
    <3>3. \A k \in 1 .. 0 : <<>>[k] = <<s, 0, k>>
      OBVIOUS
    <3>4. FieldOf(<<>>, s, 0, 0)
      BY <3>2, <3>3 DEF FieldOf
    <3> QED BY <3>1, <3>2, <3>4
  <2> QED BY <2>1, <2>2
<1>5. Len(st) = s0 /\ \A k \in 1 .. s0 : st[k] = <<s, 0, k>>
  BY <1>4 DEF FieldOf
<1>6. PICK seqs \in [1 .. m -> Seq(Triple)] :
        /\ Blocks(s, layout) = [b \in 1 .. m |-> seqs[b]]
        /\ \A b \in 1 .. m : FieldOf(seqs[b], s, b, layout.sizes[b])
  <2>1. PICK q : q = [b \in 1 .. m |-> HssField(s, b, layout.sizes[b])]
    OBVIOUS
  <2>2. ASSUME NEW b \in 1 .. m
        PROVE  FieldOf(HssField(s, b, layout.sizes[b]), s, b, layout.sizes[b])
    <3>1. b \in Nat /\ layout.sizes[b] \in Nat
      BY <1>3
    <3> QED BY <3>1, FieldIs
  <2>3. \A b \in 1 .. m : q[b] = HssField(s, b, layout.sizes[b])
    BY <2>1, Zenon
  <2>4. \A b \in 1 .. m : FieldOf(q[b], s, b, layout.sizes[b])
    BY <2>2, <2>3, Zenon
  <2>5. q \in [1 .. m -> Seq(Triple)]
    <3>1. \A b \in 1 .. m : q[b] \in Seq(Triple)
      BY <2>4 DEF FieldOf
    <3> QED BY <2>1, <3>1, Zenon
  <2>6. Blocks(s, layout) = q
    BY <1>2, <2>1 DEF Blocks
  <2>7. q = [b \in 1 .. m |-> q[b]]
    BY <2>1, Zenon
  <2> QED BY <2>4, <2>5, <2>6, <2>7, Zenon
<1>7. \A b \in 1 .. m : /\ seqs[b] \in Seq(Triple) /\ Len(seqs[b]) = layout.sizes[b]
                        /\ \A k \in 1 .. layout.sizes[b] : seqs[b][k] = <<s, b, k>>
  BY <1>6 DEF FieldOf
<1>8. PICK f : JoinedUp(f, seqs, m, Triple)
  BY SomeJoin
<1>9. f \in [0 .. m -> Seq(Triple)]
  BY <1>8 DEF JoinedUp
<1>10. \A b \in 1 .. m + 1 : BytesBefore(layout, b) = s0 + Len(f[b - 1])
  <2> TAKE b \in 1 .. m + 1
  <2>1. BlocksLaid(layout, s0, m, seqs)
    BY <1>1, <1>2, <1>7 DEF BlocksLaid
  <2>2. StartsBehind(layout, b, s0, f)
    BY <1>8, <2>1, BeforeBlocks
  <2> QED BY <2>2 DEF StartsBehind
<1>11. PICK x \in Seq(Triple), e \in Nat : x = f[m] /\ e = Len(x)
  <2>1. m \in 0 .. m
    OBVIOUS
  <2>2. f[m] \in Seq(Triple)
    BY <1>9, <2>1
  <2>3. Len(f[m]) \in Nat
    BY <2>2
  <2> QED BY <2>2, <2>3
<1>12. SampleSize(layout) = s0 + e
  <2>1. m + 1 \in 1 .. m + 1 /\ (m + 1) - 1 = m
    OBVIOUS
  <2>2. BytesBefore(layout, m + 1) = s0 + Len(f[(m + 1) - 1])
    BY <1>10, <2>1
  <2> QED BY <1>2, <1>11, <2>1, <2>2 DEF SampleSize
<1>13. SampleBytes(s, layout) = st \o x
  <2>1. m \in 0 .. m
    OBVIOUS
  <2>2. FlattensTo(f, seqs, m)
    BY <1>8, <2>1, FlattenJoins
  <2>3. FlattenSeq(Blocks(s, layout)) = f[m]
    BY <1>6, <2>2 DEF FlattensTo
  <2> QED BY <1>4, <1>11, <2>3 DEF SampleBytes
<1>14. PICK sb \in Seq(Triple) : sb = st \o x /\ TripleBehind(sb, st, x, s0, e)
  <2>1. TripleBehind(st \o x, st, x, s0, e)
    BY <1>5, <1>11, BehindTriple
  <2> QED BY <2>1 DEF TripleBehind
<1>15. /\ Len(sb) = s0 + e
       /\ \A k \in 1 .. s0 : sb[k] = st[k]
       /\ \A k \in 1 .. e : sb[s0 + k] = x[k]
  BY <1>14 DEF TripleBehind
<1>16. layout.stamped => BlockLies(sb, s, 0, 0, StampBytes, s0 + e)
  <2> SUFFICES ASSUME layout.stamped
               PROVE  BlockLies(sb, s, 0, 0, s0, s0 + e)
    BY <1>1
  <2>1. \A k \in 1 .. s0 : sb[0 + k] = <<s, 0, k>>
    BY <1>5, <1>15
  <2> QED BY <2>1 DEF BlockLies
<1>17. ASSUME NEW b \in 1 .. m
       PROVE  /\ BlockLies(sb, s, b, BytesBefore(layout, b), layout.sizes[b], s0 + e)
              /\ layout.sizes[b] \in Nat /\ layout.sizes[b] <= e
  <2>1. PartStands(f, seqs, m, b)
    BY <1>8, PartsStand
  <2>2. PICK c \in Nat, a \in Nat : c = layout.sizes[b] /\ a = Len(f[b - 1])
    <3>1. b - 1 \in 0 .. m
      OBVIOUS
    <3>2. f[b - 1] \in Seq(Triple)
      BY <1>9, <3>1
    <3>3. Len(f[b - 1]) \in Nat /\ layout.sizes[b] \in Nat
      BY <1>3, <3>2
    <3> QED BY <3>3
  <2>3. a + c <= e /\ \A k \in 1 .. c : x[a + k] = seqs[b][k]
    <3>1. Len(seqs[b]) = c
      BY <1>7, <2>2
    <3> QED BY <1>11, <2>1, <2>2, <3>1 DEF PartStands
  <2>4. BytesBefore(layout, b) = s0 + a
    BY <1>10, <2>2
  <2>5. ASSUME NEW k \in 1 .. c
        PROVE  sb[(s0 + a) + k] = <<s, b, k>>
    <3>1. a + k \in 1 .. e /\ (s0 + a) + k = s0 + (a + k)
      BY <2>3
    <3>2. sb[s0 + (a + k)] = x[a + k]
      BY <1>15, <3>1
    <3>3. seqs[b][k] = <<s, b, k>>
      BY <1>7, <2>2
    <3> QED BY <2>3, <3>1, <3>2, <3>3
  <2>6. BlockLies(sb, s, b, s0 + a, c, s0 + e)
    <3>1. s0 + a \in Nat /\ (s0 + a) + c <= s0 + e
      BY SMTT(40), <2>3
    <3> QED BY <2>5, <3>1 DEF BlockLies
  <2> QED BY SMTT(40), <2>2, <2>3, <2>4, <2>6
<1>18. s0 + e \in Nat /\ s0 + e >= 1
  <2>1. PICK b \in 1 .. m : layout.sizes[b] > 0
    BY <1>2, LayoutParts
  <2>2. PICK c \in Nat : c = layout.sizes[b] /\ c <= e
    BY <1>17
  <2> QED BY <2>1, <2>2
<1>19. SampleLaid(sb, s, layout, s0 + e)
  BY <1>2, <1>15, <1>16, <1>17, <1>18 DEF SampleLaid
<1> QED BY <1>12, <1>13, <1>14, <1>19

\* blob is a run of the samples that follow the a-th, the last perhaps cut off.
RunOf(blob, a, layout, n) ==
  /\ blob \in Seq(Triple)
  /\ \A q \in Nat : \A r \in 1 .. n :
       q * n + r <= Len(blob) => blob[q * n + r] = SampleBytes(a + 1 + q, layout)[r]

\* blob has m samples of n bytes, and t bytes.
Spans(blob, m, n, t) == Len(blob) = m * n + t

LEMMA RunBegins ==
  ASSUME NEW layout, NEW n \in Nat, NEW a \in Nat, NEW blob, RunOf(blob, a, layout, n),
         NEW c \in Nat, c <= Len(blob)
  PROVE  RunOf(SubSeq(blob, 1, c), a, layout, n) /\ Len(SubSeq(blob, 1, c)) = c
<1>1. blob \in Seq(Triple)
  BY DEF RunOf
<1>2. PICK z : z = SubSeq(blob, 1, c)
  OBVIOUS
<1>3. z \in Seq(Triple) /\ Len(z) = c /\ \A k \in 1 .. c : z[k] = blob[k]
  BY <1>1, <1>2, FirstOf
<1>4. ASSUME NEW q \in Nat, NEW r \in 1 .. n, q * n + r <= Len(z)
      PROVE  z[q * n + r] = SampleBytes(a + 1 + q, layout)[r]
  <2>1. PICK d \in Nat : d = q * n
    <3>1. q * n \in Nat
      BY TimesRises
    <3> QED BY <3>1, Zenon
  <2>2. d + r \in 1 .. c /\ d + r <= Len(blob)
    <3>1. Len(blob) \in Nat
      BY <1>1
    <3> QED BY <1>3, <1>4, <2>1, <3>1
  <2>3. z[d + r] = blob[d + r]
    BY <1>3, <2>2
  <2>4. blob[q * n + r] = SampleBytes(a + 1 + q, layout)[r]
    BY <2>1, <2>2 DEF RunOf
  <2> QED BY <2>1, <2>3, <2>4
<1>5. RunOf(z, a, layout, n)
  BY <1>3, <1>4 DEF RunOf
<1> QED BY <1>2, <1>3, <1>5

LEMMA RestOf ==
  ASSUME NEW X, NEW s \in Seq(X), NEW c \in Nat, c <= Len(s)
  PROVE  /\ SubSeq(s, c + 1, Len(s)) \in Seq(X)
         /\ Len(SubSeq(s, c + 1, Len(s))) = Len(s) - c
         /\ \A k \in 1 .. Len(s) - c : SubSeq(s, c + 1, Len(s))[k] = s[c + k]
OBVIOUS

LEMMA MiddleOf ==
  ASSUME NEW X, NEW s \in Seq(X), NEW c \in Nat, NEW size \in Nat, c + size <= Len(s)
  PROVE  /\ SubSeq(s, c + 1, c + size) \in Seq(X)
         /\ Len(SubSeq(s, c + 1, c + size)) = size
         /\ \A k \in 1 .. size : SubSeq(s, c + 1, c + size)[k] = s[c + k]
<1>1. PICK m \in Nat : m = c + 1 /\ m >= 1
  OBVIOUS
<1>2. PICK e \in Nat : e = c + size /\ e <= Len(s)
  OBVIOUS
<1>3. Len(s) \in Nat /\ e - m + 1 = size
  BY <1>1, <1>2
<1>4. SubSeq(s, m, e) \in Seq(X) /\ Len(SubSeq(s, m, e)) = size
  <2>1. \A i \in m .. e : s[i] \in X
    BY <1>1, <1>2, <1>3
  <2> QED BY <1>1, <1>2, <1>3, <2>1
<1>5. ASSUME NEW k \in 1 .. size
      PROVE  SubSeq(s, m, e)[k] = s[c + k]
  <2>1. SubSeq(s, m, e)[k] = s[m + k - 1]
    BY <1>1, <1>2, <1>3
  <2>2. m + k - 1 = c + k
    BY <1>1
  <2> QED BY <2>1, <2>2
<1> QED BY <1>1, <1>2, <1>4, <1>5

\* From base on, blob is what sb is.
StandsIn(sb, blob, base, n) ==
  base + n <= Len(blob) /\ \A r \in 1 .. n : blob[base + r] = sb[r]

IsCut(blob, base, from, size, s, b) ==
  SubSeq(blob, base + from + 1, base + from + size) = HssField(s, b, size)

\* A block is cut out of a run as it was taken.
LEMMA CutOut ==
  ASSUME NEW blob \in Seq(Triple), NEW sb, NEW s \in Nat, NEW b \in Nat,
         NEW from \in Nat, NEW size \in Nat, NEW n \in Nat, BlockLies(sb, s, b, from, size, n),
         NEW base \in Nat, StandsIn(sb, blob, base, n)
  PROVE  IsCut(blob, base, from, size, s, b)
<1>1. from \in Nat /\ size \in Nat /\ from + size <= n /\ \A k \in 1 .. size : sb[from + k] = <<s, b, k>>
  BY DEF BlockLies
<1>2. PICK c \in Nat : c = base + from
  BY <1>1
<1>3. c + size <= Len(blob) /\ Len(blob) \in Nat
  BY <1>1, <1>2 DEF StandsIn
<1>4. PICK z : z = SubSeq(blob, c + 1, c + size)
  OBVIOUS
<1>5. z \in Seq(Triple) /\ Len(z) = size /\ \A k \in 1 .. size : z[k] = blob[c + k]
  BY SMTT(40), <1>1, <1>3, <1>4, MiddleOf
<1>6. ASSUME NEW k \in 1 .. size
      PROVE  z[k] = <<s, b, k>>
  <2>1. from + k \in 1 .. n /\ c + k = base + (from + k)
    BY SMTT(40), <1>1, <1>2
  <2>2. blob[base + (from + k)] = sb[from + k]
    BY <2>1 DEF StandsIn
  <2> QED BY <1>1, <1>5, <2>1, <2>2
<1>7. z = [k \in 1 .. size |-> <<s, b, k>>]
  <2>1. z = [k \in 1 .. Len(z) |-> z[k]]
    BY <1>5
  <2> QED BY <1>5, <1>6, <2>1
<1> QED BY <1>2, <1>4, <1>7 DEF HssField, IsCut

\* What was decoded are the m samples that follow the a-th.
AreSamples(d, a, m, layout) ==
  Len(d) = m /\ \A i \in 1 .. m : d[i] = AsTaken(a + i, layout)

\* What read() decodes of a run are its whole samples, as they were taken.
LEMMA RunDecodes ==
  ASSUME NEW layout \in Layouts, NEW n, n = SampleSize(layout),
         NEW a \in Nat, NEW blob, RunOf(blob, a, layout, n),
         NEW m \in Nat, NEW t \in Nat, t < n, Spans(blob, m, n, t)
  PROVE  AreSamples(HssDecode(blob, layout), a, m, layout)
<1>0. Len(blob) = m * n + t
  BY DEF Spans
<1>1. n \in Nat /\ n >= 1
  BY SampleLies DEF SampleLaid
<1>2. blob \in Seq(Triple)
  BY DEF RunOf
<1>3. WholeSamples(Len(blob), n) = m
  <2>1. (m * n + t) \div n = m
    BY <1>1, WholeOf
  <2> QED BY <1>0, <2>1 DEF WholeSamples
<1>4. PICK d : d = HssDecode(blob, layout)
  OBVIOUS
<1>5. d = [i \in 1 .. m |->
             [stamp |-> IF layout.stamped
                        THEN SubSeq(blob, (i - 1) * n + 0 + 1, (i - 1) * n + 0 + StampBytes)
                        ELSE <<>>,
              blocks |-> [b \in 1 .. Len(layout.sizes) |->
                SubSeq(blob, (i - 1) * n + BytesBefore(layout, b) + 1,
                             (i - 1) * n + BytesBefore(layout, b) + layout.sizes[b])]]]
  BY <1>3, <1>4 DEF HssDecode
<1>6. ASSUME NEW i \in 1 .. m
      PROVE  d[i] = AsTaken(a + i, layout)
  <2>1. PICK base \in Nat : base = (i - 1) * n
    <3>1. i - 1 \in Nat
      OBVIOUS
    <3>2. (i - 1) * n \in Nat
      BY <1>1, <3>1, TimesRises
    <3> QED BY <3>2, Zenon
  <2>2. PICK s \in Nat : s = a + i
    OBVIOUS
  <2>3. base + n <= Len(blob)
    <3>1. i * n <= m * n
      BY <1>1, TimesRises
    <3>2. i * n = (i - 1) * n + n
      BY <1>1
    <3>3. PICK e \in Nat, f \in Nat : e = m * n /\ f = i * n
      <4>1. m * n \in Nat /\ i * n \in Nat
        BY <1>1, TimesRises
      <4> QED BY <4>1, Zenon
    <3>4. Len(blob) = e + t /\ f <= e /\ f = base + n
      BY <1>0, <2>1, <3>1, <3>2, <3>3
    <3> QED BY <1>1, <3>4
  <2>4. PICK sb : sb = SampleBytes(s, layout)
    OBVIOUS
  <2>5. SampleLaid(sb, s, layout, n)
    BY <2>4, SampleLies
  <2>6. ASSUME NEW r \in 1 .. n
        PROVE  blob[base + r] = sb[r]
    <3>1. i - 1 \in Nat /\ (i - 1) * n + r <= Len(blob) /\ a + 1 + (i - 1) = s
      BY SMTT(40), <1>1, <2>1, <2>2, <2>3
    <3>2. blob[(i - 1) * n + r] = SampleBytes(a + 1 + (i - 1), layout)[r]
      BY <3>1 DEF RunOf
    <3> QED BY <2>1, <2>4, <3>1, <3>2
  <2>7. ASSUME NEW b \in Nat, NEW from, NEW size, BlockLies(sb, s, b, from, size, n)
        PROVE  SubSeq(blob, base + from + 1, base + from + size) = HssField(s, b, size)
    <3>1. StandsIn(sb, blob, base, n)
      BY <2>3, <2>6 DEF StandsIn
    <3>2. from \in Nat /\ size \in Nat
      BY <2>7 DEF BlockLies
    <3>3. IsCut(blob, base, from, size, s, b)
      <4> HIDE DEF Triple
      <4>1. n \in Nat /\ blob \in Seq(Triple)
        BY <1>1, <1>2
      <4>2. BlockLies(sb, s, b, from, size, n)
        BY <2>7
      <4> QED BY <3>1, <3>2, <4>1, <4>2, CutOut
    <3> QED BY <3>3 DEF IsCut
  <2>8. ASSUME layout.stamped
        PROVE  SubSeq(blob, base + 0 + 1, base + 0 + StampBytes) = Stamp(s, layout)
    <3>1. BlockLies(sb, s, 0, 0, StampBytes, n)
      BY <2>5, <2>8 DEF SampleLaid
    <3>2. SubSeq(blob, base + 0 + 1, base + 0 + StampBytes) = HssField(s, 0, StampBytes)
      BY <2>7, <3>1
    <3> QED BY <2>8, <3>2 DEF Stamp
  <2>9. ~layout.stamped => Stamp(s, layout) = <<>>
    BY DEF Stamp
  <2>10. ASSUME NEW b \in 1 .. Len(layout.sizes)
         PROVE  SubSeq(blob, base + BytesBefore(layout, b) + 1,
                             base + BytesBefore(layout, b) + layout.sizes[b])
                  = HssField(s, b, layout.sizes[b])
    <3>1. BlockLies(sb, s, b, BytesBefore(layout, b), layout.sizes[b], n)
      BY <2>5 DEF SampleLaid
    <3>2. b \in Nat
      OBVIOUS
    <3> QED BY <2>7, <3>1, <3>2
  <2>11. d[i] = [stamp |-> IF layout.stamped
                           THEN SubSeq(blob, base + 0 + 1, base + 0 + StampBytes)
                           ELSE <<>>,
                 blocks |-> [b \in 1 .. Len(layout.sizes) |->
                   SubSeq(blob, base + BytesBefore(layout, b) + 1,
                                base + BytesBefore(layout, b) + layout.sizes[b])]]
    BY <1>5, <2>1, Zenon
  <2>12. [b \in 1 .. Len(layout.sizes) |->
            SubSeq(blob, base + BytesBefore(layout, b) + 1,
                         base + BytesBefore(layout, b) + layout.sizes[b])]
           = Blocks(s, layout)
    BY <2>10, Zenon DEF Blocks
  <2>13. (IF layout.stamped
          THEN SubSeq(blob, base + 0 + 1, base + 0 + StampBytes)
          ELSE <<>>) = Stamp(s, layout)
    BY <2>8, <2>9, Zenon
  <2>14. d[i] = [stamp |-> Stamp(s, layout), blocks |-> Blocks(s, layout)]
    BY <2>11, <2>12, <2>13, Zenon
  <2> QED BY <2>2, <2>14 DEF AsTaken
<1>7. DOMAIN d = 1 .. m
  BY <1>5
<1>8. Len(d) = m
  <2>1. PICK f \in [1 .. m -> {d[i] : i \in 1 .. m}] : f = d
    BY <1>5
  <2>2. Len(f) = m
    BY SeqOfFunction
  <2> QED BY <2>1, <2>2
<1> QED BY <1>4, <1>6, <1>8 DEF AreSamples

\* blob lies in the samples that follow the a-th, behind their first off bytes,
LiesBehind(blob, a, off, layout, n) ==
  /\ blob \in Seq(Triple)
  /\ \A q \in Nat, k \in Nat : \A r \in 1 .. n :
       k >= 1 /\ k <= Len(blob) /\ k + off = q * n + r =>
         blob[k] = SampleBytes(a + 1 + q, layout)[r]

\* and goes on to the end of sample upTo and the next into bytes.
ReachesTo(blob, a, off, upTo, into, n) ==
  \E d \in Nat : a + d = upTo /\ off + Len(blob) = d * n + into

Holds(blob, a, taken, upTo, into, layout, n) ==
  /\ taken \in Nat /\ taken < n /\ into \in Nat /\ into < n
  /\ LiesBehind(blob, a, taken, layout, n)
  /\ ReachesTo(blob, a, taken, upTo, into, n)

\* A byte has one place in one sample.
LEMMA OnePlace ==
  ASSUME NEW n \in Nat, NEW q \in Nat, NEW p \in Nat, NEW r \in 1 .. n, NEW s \in 1 .. n,
         q * n + r = p * n + s
  PROVE  q = p /\ r = s
OBVIOUS

LEMMA RemainderOf ==
  ASSUME NEW x \in Nat, NEW n \in Nat, n > 0
  PROVE  /\ x % n \in Nat /\ x % n < n /\ x \div n \in Nat
         /\ x = (x \div n) * n + (x % n)
OBVIOUS

\* A piece of the sample in progress goes on where the last one ended.
LEMMA PieceGoesOn ==
  ASSUME NEW layout, NEW n \in Nat, NEW a \in Nat, NEW taken, NEW upTo \in Nat, NEW into,
         NEW blob, Holds(blob, a, taken, upTo, into, layout, n),
         NEW j \in Nat, into + j <= n, NEW x \in Seq(Triple), Len(x) = j,
         \A i \in 1 .. j : x[i] = SampleBytes(upTo + 1, layout)[into + i]
  PROVE  /\ LiesBehind(blob \o x, a, taken, layout, n)
         /\ ReachesTo(blob \o x, a, taken, upTo, into + j, n)
<1>1. taken \in Nat /\ into \in Nat /\ blob \in Seq(Triple)
  BY DEF Holds, LiesBehind
<1>2. PICK d \in Nat : a + d = upTo /\ taken + Len(blob) = d * n + into
  BY DEF Holds, ReachesTo
<1>3. PICK l \in Nat, e \in Nat : l = Len(blob) /\ e = d * n
  <2>1. d * n \in Nat /\ Len(blob) \in Nat
    BY <1>1, TimesRises
  <2> QED BY <2>1, Zenon
<1>4. PICK z : z = blob \o x /\ TripleBehind(z, blob, x, l, j)
  BY <1>1, <1>3, BehindTriple
<1>5. z \in Seq(Triple) /\ Len(z) = l + j
  BY <1>4 DEF TripleBehind
<1>6. ASSUME NEW q \in Nat, NEW k \in Nat, NEW r \in 1 .. n,
             k >= 1, k <= Len(z), k + taken = q * n + r
      PROVE  z[k] = SampleBytes(a + 1 + q, layout)[r]
  <2>1. CASE k <= l
    <3>1. z[k] = blob[k]
      BY <1>4, <1>6, <2>1 DEF TripleBehind
    <3>2. k <= Len(blob) /\ LiesBehind(blob, a, taken, layout, n)
      BY <1>3, <2>1 DEF Holds
    <3>3. blob[k] = SampleBytes(a + 1 + q, layout)[r]
      <4>1. k >= 1 /\ k <= Len(blob) /\ k + taken = q * n + r
        BY <1>6, <3>2
      <4> QED BY SMTT(40), <3>2, <4>1 DEF LiesBehind
    <3> QED BY <3>1, <3>3
  <2>2. CASE k > l
    <3>1. PICK i \in 1 .. j : k = l + i
      <4>1. k - l \in 1 .. j /\ k = l + (k - l)
        BY <1>5, <1>6, <2>2
      <4> QED BY <4>1
    <3>2. z[k] = SampleBytes(upTo + 1, layout)[into + i]
      BY <1>4, <3>1 DEF TripleBehind
    <3>3. into + i \in 1 .. n
      <4>1. into + j <= n
        OBVIOUS
      <4> QED BY <1>1, <4>1
    <3>4. q = d /\ r = into + i
      <4>1. PICK t \in Nat : t = q * n
        <5>1. q * n \in Nat
          BY TimesRises
        <5> QED BY <5>1, Zenon
      <4>2. k + taken = t + r /\ taken + l = e + into
        BY <1>2, <1>3, <1>6, <4>1
      <4>3. t + r = e + (into + i)
        BY <1>1, <3>1, <4>1, <4>2
      <4>4. q * n + r = d * n + (into + i)
        BY <1>3, <4>1, <4>3
      <4>5. PICK m \in 1 .. n : m = into + i
        BY <3>3
      <4>6. q * n + r = d * n + m
        BY <4>4, <4>5
      <4>7. q = d /\ r = m
        BY <4>6, OnePlace
      <4> QED BY <4>5, <4>7
    <3>5. a + 1 + q = upTo + 1
      BY <1>2, <3>4
    <3> QED BY <3>2, <3>4, <3>5
  <2> QED BY <1>3, <2>1, <2>2
<1>7. LiesBehind(z, a, taken, layout, n)
  BY <1>5, <1>6 DEF LiesBehind
<1>8. ReachesTo(z, a, taken, upTo, into + j, n)
  <2>1. taken + Len(z) = d * n + (into + j)
    <3>1. taken + l = e + into
      BY <1>2, <1>3
    <3>2. taken + (l + j) = e + (into + j)
      <4>1. /\ taken \in Nat /\ l \in Nat /\ e \in Nat /\ into \in Nat /\ j \in Nat
            /\ taken + l = e + into
        BY <1>1, <3>1
      <4> QED BY ONLY <4>1
    <3> QED BY <1>3, <1>5, <3>2
  <2> QED BY <1>2, <2>1 DEF ReachesTo
<1> QED BY <1>4, <1>7, <1>8

\* What a read leaves goes on in the sample it ended in.
LEMMA RestGoesOn ==
  ASSUME NEW layout, NEW n \in Nat, NEW a \in Nat, NEW taken, NEW upTo \in Nat, NEW into,
         NEW blob, Holds(blob, a, taken, upTo, into, layout, n),
         NEW c \in Nat, c <= Len(blob)
  PROVE  \E b \in Nat : Holds(SubSeq(blob, c + 1, Len(blob)), b, (taken + c) % n,
                              upTo, into, layout, n)
<1>1. /\ taken \in Nat /\ taken < n /\ into \in Nat /\ into < n /\ n > 0
      /\ blob \in Seq(Triple)
  BY DEF Holds, LiesBehind
<1>2. PICK d \in Nat : a + d = upTo /\ taken + Len(blob) = d * n + into
  BY DEF Holds, ReachesTo
<1>3. PICK l \in Nat, g \in Nat : l = Len(blob) /\ g = d * n
  <2>1. d * n \in Nat /\ Len(blob) \in Nat
    BY <1>1, TimesRises
  <2> QED BY <2>1, Zenon
<1>4. PICK e \in Nat, f \in Nat :
        f = (taken + c) % n /\ f < n /\ taken + c = e * n + f
  <2>1. taken + c \in Nat
    BY <1>1
  <2> QED BY ZenonT(40), <1>1, <2>1, RemainderOf
<1>5. PICK h \in Nat : h = e * n
  <2>1. e * n \in Nat
    BY TimesRises
  <2> QED BY <2>1, Zenon
<1>0. taken + l = g + into /\ taken + c = h + f
  BY <1>2, <1>3, <1>4, <1>5
<1>6. e <= d
  <2> SUFFICES ASSUME d < e
               PROVE  FALSE
    OBVIOUS
  <2>1. (d + 1) * n <= e * n
    <3>1. d + 1 \in Nat /\ d + 1 <= e
      OBVIOUS
    <3> QED BY <3>1, TimesRises
  <2>2. (d + 1) * n = d * n + n
    OBVIOUS
  <2>3. g + n <= h
    BY <1>3, <1>5, <2>1, <2>2
  <2>4. c <= l
    BY <1>3
  <2> QED BY <1>0, <1>1, <1>4, <2>3, <2>4
<1>7. PICK z : z = SubSeq(blob, c + 1, Len(blob))
  OBVIOUS
<1>8. z \in Seq(Triple) /\ Len(z) = l - c /\ \A k \in 1 .. l - c : z[k] = blob[c + k]
  BY <1>1, <1>3, <1>7, RestOf
<1>9. ASSUME NEW q \in Nat, NEW k \in Nat, NEW r \in 1 .. n,
             k >= 1, k <= Len(z), k + f = q * n + r
      PROVE  z[k] = SampleBytes((a + e) + 1 + q, layout)[r]
  <2>1. z[k] = blob[c + k]
    <3>1. k \in 1 .. l - c
      BY <1>8, <1>9
    <3> QED BY <1>8, <3>1
  <2>2. (e + q) * n = h + q * n
    BY <1>5
  <2>3. PICK t \in Nat : t = q * n
    <3>1. q * n \in Nat
      BY TimesRises
    <3> QED BY <3>1, Zenon
  <2>4. /\ e + q \in Nat /\ c + k \in Nat /\ c + k >= 1 /\ c + k <= Len(blob)
        /\ (c + k) + taken = (e + q) * n + r
    <3>1. k + f = t + r
      BY <1>9, <2>3
    <3>2. (c + k) + taken = (h + t) + r
      BY <1>0, <1>1, <2>3, <3>1
    <3>3. c + k <= l
      BY <1>3, <1>8, <1>9
    <3> QED BY <1>3, <1>9, <2>2, <2>3, <3>2, <3>3
  <2>5. blob[c + k] = SampleBytes(a + 1 + (e + q), layout)[r]
    BY <2>4 DEF Holds, LiesBehind
  <2>6. a + 1 + (e + q) = (a + e) + 1 + q
    OBVIOUS
  <2> QED BY <2>1, <2>5, <2>6
<1>10. LiesBehind(z, a + e, f, layout, n)
  BY <1>8, <1>9 DEF LiesBehind
<1>11. ReachesTo(z, a + e, f, upTo, into, n)
  <2>1. d - e \in Nat /\ (a + e) + (d - e) = upTo
    BY <1>2, <1>6
  <2>2. (d - e) * n = g - h
    BY <1>3, <1>5
  <2>3. f + Len(z) = (d - e) * n + into
    <3>1. f + (l - c) = (g - h) + into
      BY <1>0, <1>1
    <3> QED BY <1>8, <2>2, <3>1
  <2> QED BY <2>1, <2>3 DEF ReachesTo
<1>12. Holds(z, a + e, f, upTo, into, layout, n)
  BY <1>1, <1>4, <1>10, <1>11 DEF Holds
<1> QED BY <1>4, <1>7, <1>12

\* The samples returned are those that follow the c-th.
ReturnedFrom(samples, c, upTo, layout) ==
  /\ c + Len(samples) <= upTo
  /\ \A i \in 1 .. Len(samples) : samples[i] = AsTaken(c + i, layout)

HssRecords == [layout : Layouts \union {None}, ran : Layouts \union {None},
               owner : Readers \union {None}, readBy : Readers \union {None},
               into : Nat, taken : Nat, from : Nat,
               blocks : [Readers -> Layouts \union {None}]]

(* The invariant of high-speed sampling: as long as the object that started  *)
(* it is the only one to read, it decodes by the layout the samples have,    *)
(* and what the DLL holds goes on where reads have left the last sample.     *)
SamplesInv ==
  kind = "hss" =>
    /\ arrived \in Nat /\ hss \in HssRecords /\ buffer \in Seq(Triple)
    /\ reading = Resting /\ ~walk.on
    /\ hss.owner # None =>
         /\ hss.ran \in Layouts /\ hss.layout \in {hss.ran, None}
         /\ hss.blocks[hss.owner] \in {hss.ran, None}
         /\ \E a \in Nat : Holds(buffer, a, hss.taken, arrived, hss.into, hss.ran,
                                 SampleSize(hss.ran))
         /\ hss.readBy = hss.owner /\ hss.from = 0 =>
              Len(got) \in Nat /\ \E c \in Nat : ReturnedFrom(got, c, arrived, hss.ran)

LEMMA SamplesInvInit == StreamsInit => SamplesInv
<1> SUFFICES ASSUME StreamsInit
             PROVE  SamplesInv
  OBVIOUS
<1>0. reading = Resting /\ ~walk.on
  BY DEF StreamsInit
<1>1. arrived = 0 /\ hss = HssOff /\ buffer = <<>>
  BY DEF StreamsInit
<1>2. hss \in HssRecords /\ hss.owner = None /\ buffer \in Seq(Triple)
  BY <1>1 DEF HssRecords, HssOff
<1> QED BY <1>0, <1>1, <1>2 DEF SamplesInv

LEMMA SizeOfSample ==
  ASSUME NEW layout \in Layouts
  PROVE  SampleSize(layout) \in Nat /\ SampleSize(layout) >= 1
<1>1. SampleLaid(SampleBytes(0, layout), 0, layout, SampleSize(layout))
  BY SampleLies
<1> QED BY <1>1 DEF SampleLaid

LEMMA StartKeepsSamples ==
  ASSUME SamplesInv, NEW o \in Readers, HssStart(o)
  PROVE  SamplesInv'
<1>0. reading' = Resting /\ ~walk'.on
  BY DEF SamplesInv, HssStart, dataVars
<1>1. /\ kind = "hss" /\ kind' = kind /\ buffer' = <<>> /\ got' = <<>> /\ arrived' = 0
      /\ hss \in HssRecords
  BY DEF HssStart, SamplesInv
<1>2. PICK layout \in Layouts :
        hss' = [layout |-> layout, ran |-> layout, owner |-> o, readBy |-> None,
                into |-> 0, taken |-> 0, from |-> 0,
                blocks |-> [hss.blocks EXCEPT ![o] = layout]]
  BY DEF HssStart, Remembered
<1>3. /\ hss' \in HssRecords /\ hss'.ran = layout /\ hss'.layout = layout /\ hss'.owner = o
      /\ hss'.blocks[o] = layout /\ hss'.taken = 0 /\ hss'.into = 0
  BY <1>1, <1>2 DEF HssRecords
<1>4. Holds(<<>>, 0, 0, 0, 0, layout, SampleSize(layout)) /\ <<>> \in Seq(Triple)
  <2>1. PICK n \in Nat : n = SampleSize(layout) /\ n >= 1
    BY SizeOfSample
  <2>2. <<>> \in Seq(Triple) /\ Len(<<>>) = 0
    OBVIOUS
  <2>3. LiesBehind(<<>>, 0, 0, layout, n)
    BY <2>2 DEF LiesBehind
  <2>4. 0 \in Nat /\ 0 + 0 = 0 /\ 0 = 0 * n + 0
    BY <2>1
  <2>5. ReachesTo(<<>>, 0, 0, 0, 0, n)
    BY <2>2, <2>4 DEF ReachesTo
  <2> QED BY <2>1, <2>2, <2>3, <2>5 DEF Holds
<1>5. ReturnedFrom(<<>>, 0, 0, layout)
  BY DEF ReturnedFrom
<1>6. /\ buffer' \in Seq(Triple)
      /\ \E a \in Nat : Holds(buffer', a, hss'.taken, arrived', hss'.into, hss'.ran,
                              SampleSize(hss'.ran))
  BY <1>1, <1>3, <1>4
<1>7. Len(got') \in Nat /\ \E c \in Nat : ReturnedFrom(got', c, arrived', hss'.ran)
  BY <1>1, <1>3, <1>5
<1> QED BY <1>0, <1>1, <1>3, <1>6, <1>7 DEF SamplesInv

LEMMA SampleKeepsSamples ==
  ASSUME SamplesInv, HssSample
  PROVE  SamplesInv'
<1>0. reading' = Resting /\ ~walk'.on
  BY DEF SamplesInv, HssSample
<1>1. /\ kind = "hss" /\ hss.layout \in Layouts /\ hss.layout # None
      /\ kind' = kind /\ got' = got
      /\ arrived \in Nat /\ hss \in HssRecords /\ hss.into \in Nat /\ buffer \in Seq(Triple)
  BY DEF HssSample, SamplesInv, HssRecords
<1>2. PICK layout \in Layouts, n \in Nat, into \in Nat :
        layout = hss.layout /\ n = SampleSize(layout) /\ n >= 1 /\ into = hss.into
  BY <1>1, SizeOfSample
<1>3. PICK end \in into + 1 .. n :
        /\ buffer' = buffer \o SubSeq(SampleBytes(arrived + 1, layout), into + 1, end)
        /\ IF end = n
           THEN arrived' = arrived + 1 /\ hss' = [hss EXCEPT !.into = 0]
           ELSE arrived' = arrived /\ hss' = [hss EXCEPT !.into = end]
  BY <1>2 DEF HssSample
<1>4. PICK j \in Nat : end = into + j /\ into + j <= n
  <2>1. end - into \in Nat /\ end = into + (end - into) /\ end <= n
    BY <1>2, <1>3
  <2> QED BY <2>1
<1>5. PICK sb : sb = SampleBytes(arrived + 1, layout) /\ sb \in Seq(Triple) /\ Len(sb) = n
  <2>1. arrived + 1 \in Nat
    BY <1>1
  <2> QED BY <1>2, <2>1, SampleLies DEF SampleLaid
<1>6. PICK x : x = SubSeq(sb, into + 1, end)
  OBVIOUS
<1>7. x \in Seq(Triple) /\ Len(x) = j /\ \A i \in 1 .. j : x[i] = sb[into + i]
  BY <1>4, <1>5, <1>6, MiddleOf
<1>8. buffer' = buffer \o x /\ buffer' \in Seq(Triple)
  <2>1. buffer' = buffer \o x
    BY <1>3, <1>5, <1>6
  <2>2. buffer \o x \in Seq(Triple)
    <3> HIDE DEF Triple
    <3> QED BY <1>1, <1>7
  <2> QED BY <2>1, <2>2
<1>9. /\ hss' \in HssRecords /\ hss'.layout = hss.layout /\ hss'.ran = hss.ran
      /\ hss'.owner = hss.owner /\ hss'.readBy = hss.readBy /\ hss'.blocks = hss.blocks
      /\ hss'.taken = hss.taken /\ hss'.from = hss.from
      /\ hss'.into = (IF end = n THEN 0 ELSE end)
      /\ arrived' = (IF end = n THEN arrived + 1 ELSE arrived) /\ arrived' \in Nat
  <2>1. end \in Nat
    BY <1>2, <1>3
  <2>2. CASE end = n
    <3>1. arrived' = arrived + 1 /\ hss' = [hss EXCEPT !.into = 0]
      BY <1>3, <2>2
    <3>2. /\ hss' \in HssRecords /\ hss'.layout = hss.layout /\ hss'.ran = hss.ran
          /\ hss'.owner = hss.owner /\ hss'.readBy = hss.readBy
          /\ hss'.blocks = hss.blocks /\ hss'.taken = hss.taken
          /\ hss'.from = hss.from /\ hss'.into = 0
      <4>1. hss \in HssRecords /\ 0 \in Nat
        BY <1>1
      <4>2. hss' = [hss EXCEPT !.into = 0]
        BY <3>1
      <4> QED BY ONLY <4>1, <4>2 DEF HssRecords
    <3>3. arrived' = arrived + 1 /\ arrived' \in Nat
      BY <1>1, <3>1
    <3> QED BY <2>2, <3>2, <3>3
  <2>3. CASE end # n
    BY <1>1, <1>3, <2>1, <2>3 DEF HssRecords
  <2> QED BY <2>2, <2>3
<1>10. ASSUME hss.owner # None
       PROVE  /\ \E a \in Nat : Holds(buffer', a, hss'.taken, arrived', hss'.into, layout, n)
              /\ hss.readBy = hss.owner /\ hss.from = 0 =>
                   Len(got) \in Nat /\ \E c \in Nat : ReturnedFrom(got, c, arrived', hss.ran)
  <2>1. hss.ran = layout
    BY <1>1, <1>2, <1>10 DEF SamplesInv
  <2>2. PICK a \in Nat : Holds(buffer, a, hss.taken, arrived, into, layout, n)
    BY <1>1, <1>2, <1>10, <2>1 DEF SamplesInv
  <2>3. /\ LiesBehind(buffer', a, hss.taken, layout, n)
        /\ ReachesTo(buffer', a, hss.taken, arrived, into + j, n)
    <3>1. /\ LiesBehind(buffer \o x, a, hss.taken, layout, n)
          /\ ReachesTo(buffer \o x, a, hss.taken, arrived, into + j, n)
      <4>1. \A i \in 1 .. j : x[i] = SampleBytes(arrived + 1, layout)[into + i]
        BY <1>5, <1>7
      <4>2. x \in Seq(Triple) /\ Len(x) = j /\ into + j <= n /\ arrived \in Nat
        BY <1>1, <1>4, <1>7
      <4> HIDE DEF Triple
      <4> QED BY ZenonT(40), <2>2, <4>1, <4>2, PieceGoesOn
    <3> QED BY <1>8, <3>1
  <2>4. ReachesTo(buffer', a, hss.taken, arrived', hss'.into, n)
    <3>1. CASE end = n
      <4>1. PICK d \in Nat : a + d = arrived /\ hss.taken + Len(buffer') = d * n + n
        BY <1>4, <2>3, <3>1 DEF ReachesTo
      <4>2. d + 1 \in Nat /\ (d + 1) * n = d * n + n /\ a + (d + 1) = arrived + 1
        BY <4>1
      <4>3. (d + 1) * n = (d + 1) * n + 0
        OBVIOUS
      <4> QED BY <1>9, <3>1, <4>1, <4>2, <4>3 DEF ReachesTo
    <3>2. CASE end # n
      BY <1>4, <1>9, <2>3, <3>2
    <3> QED BY <3>1, <3>2
  <2>5. hss'.into \in Nat /\ hss'.into < n /\ hss.taken \in Nat /\ hss.taken < n
    BY <1>2, <1>3, <1>9, <2>2 DEF Holds
  <2>6. Holds(buffer', a, hss'.taken, arrived', hss'.into, layout, n)
    BY <1>9, <2>3, <2>4, <2>5 DEF Holds
  <2>7. ASSUME hss.readBy = hss.owner, hss.from = 0
        PROVE  Len(got) \in Nat /\ \E c \in Nat : ReturnedFrom(got, c, arrived', hss.ran)
    <3>1. PICK c \in Nat : Len(got) \in Nat /\ ReturnedFrom(got, c, arrived, hss.ran)
      BY <1>1, <1>10, <2>7 DEF SamplesInv
    <3>2. ReturnedFrom(got, c, arrived', hss.ran)
      BY <1>1, <1>9, <3>1 DEF ReturnedFrom
    <3> QED BY <3>1, <3>2
  <2> QED BY <2>6, <2>7
<1>11. hss.owner # None => /\ hss.ran = layout /\ hss.ran \in Layouts
                           /\ hss.blocks[hss.owner] \in {hss.ran, None}
  BY <1>1, <1>2 DEF SamplesInv
<1> QED BY <1>0, <1>1, <1>2, <1>8, <1>9, <1>10, <1>11 DEF SamplesInv

LEMMA StopKeepsSamples ==
  ASSUME SamplesInv, NEW o \in Readers, HssStop(o)
  PROVE  SamplesInv'
<1>0. reading' = Resting /\ ~walk'.on
  BY DEF SamplesInv, HssStop, dataVars
<1>1. /\ kind = "hss" /\ UNCHANGED <<kind, arrived, buffer, got>>
      /\ hss' = [hss EXCEPT !.layout = None, !.blocks = [hss.blocks EXCEPT ![o] = None]]
      /\ arrived \in Nat /\ hss \in HssRecords /\ buffer \in Seq(Triple)
  BY DEF HssStop, SamplesInv, dataVars
<1>2. /\ hss' \in HssRecords /\ hss'.layout = None /\ hss'.ran = hss.ran
      /\ hss'.owner = hss.owner /\ hss'.readBy = hss.readBy
      /\ hss'.into = hss.into /\ hss'.taken = hss.taken /\ hss'.from = hss.from
      /\ \A p \in Readers : hss'.blocks[p] \in {hss.blocks[p], None}
  BY <1>1 DEF HssRecords
<1>3. hss.owner # None => hss.owner \in Readers
  BY <1>1 DEF HssRecords
<1>5. hss.owner # None => /\ hss.ran \in Layouts
                          /\ hss.blocks[hss.owner] \in {hss.ran, None}
                          /\ \E a \in Nat : Holds(buffer, a, hss.taken, arrived, hss.into,
                                                  hss.ran, SampleSize(hss.ran))
                          /\ hss.readBy = hss.owner /\ hss.from = 0 =>
                               Len(got) \in Nat /\ \E c \in Nat : ReturnedFrom(got, c, arrived, hss.ran)
  BY <1>1 DEF SamplesInv
<1> QED BY <1>0, <1>1, <1>2, <1>3, <1>5 DEF SamplesInv

\* What one read() returns of m whole samples and t bytes.
LEMMA ReadReturns ==
  ASSUME NEW layout \in Layouts, NEW n \in Nat, n = SampleSize(layout), n >= 1,
         NEW whole, NEW a \in Nat, NEW m \in Nat, NEW t \in Nat, NEW upTo \in Nat,
         t < n, a + m = upTo, Spans(whole, m, n, t), RunOf(whole, a, layout, n),
         NEW count, count = Min({Len(whole), n * Chunk})
  PROVE  /\ \E c \in Nat : ReturnedFrom(HssDecode(SubSeq(whole, 1, count), layout), c, upTo, layout)
         /\ Len(HssDecode(SubSeq(whole, 1, count), layout)) \in Nat
<1>1. Chunk \in Nat
  BY StreamsAssumption
<1>2. PICK e \in Nat, c \in Nat : e = m * n /\ c = Chunk * n
  <2>1. m * n \in Nat /\ Chunk * n \in Nat
    BY <1>1, TimesRises
  <2> QED BY <2>1, Zenon
<1>3. Len(whole) = e + t /\ whole \in Seq(Triple)
  BY <1>2 DEF RunOf, Spans
<1>4. n * Chunk = c
  BY <1>1, <1>2
<1>5. count \in {e + t, c} /\ count <= e + t /\ count <= c
  <2>1. e + t \in Nat /\ Len(whole) = e + t
    BY <1>3
  <2>2. count = Min({e + t, c})
    BY <1>4, <2>1, Zenon
  <2> QED BY <2>1, <2>2, LeastAmong
<1>6. count \in Nat /\ count <= Len(whole)
  BY <1>3, <1>5
<1>7. RunOf(SubSeq(whole, 1, count), a, layout, n) /\ Len(SubSeq(whole, 1, count)) = count
  BY <1>3, <1>6, RunBegins
<1>8. PICK blob : blob = SubSeq(whole, 1, count) /\ RunOf(blob, a, layout, n) /\ Len(blob) = count
  BY <1>7
<1>9. CASE count = c
  <2>1. Chunk <= m
    <3> SUFFICES ASSUME m < Chunk
                 PROVE  FALSE
      BY <1>1
    <3>1. (m + 1) * n <= Chunk * n
      <4>1. m + 1 \in Nat /\ m + 1 <= Chunk
        BY <1>1
      <4> QED BY <1>1, <4>1, TimesRises
    <3>2. (m + 1) * n = m * n + n
      OBVIOUS
    <3>3. e + n <= c
      BY <1>2, <3>1, <3>2
    <3>4. c <= e + t
      BY <1>5, <1>9
    <3> QED BY <3>3, <3>4
  <2>2. Spans(blob, Chunk, n, 0) /\ 0 < n
    BY SMTT(40), <1>2, <1>8, <1>9 DEF Spans
  <2>3. PICK d : d = HssDecode(blob, layout)
    OBVIOUS
  <2>4. AreSamples(d, a, Chunk, layout)
    BY <1>1, <1>8, <2>2, <2>3, RunDecodes
  <2>5. ReturnedFrom(d, a, upTo, layout)
    BY <1>1, <1>3, <2>1, <2>4 DEF ReturnedFrom, AreSamples
  <2>6. Len(d) \in Nat
    BY <1>1, <2>4 DEF AreSamples
  <2> QED BY <1>8, <1>9, <2>3, <2>5, <2>6
<1>10. CASE count = e + t
  <2>1. Spans(blob, m, n, t)
    BY <1>2, <1>8, <1>10 DEF Spans
  <2>2. PICK d : d = HssDecode(blob, layout)
    OBVIOUS
  <2>3. AreSamples(d, a, m, layout)
    BY <1>3, <1>8, <2>1, <2>2, RunDecodes
  <2>4. ReturnedFrom(d, a, upTo, layout)
    BY <1>3, <2>3 DEF ReturnedFrom, AreSamples
  <2>6. Len(d) \in Nat
    BY <2>3 DEF AreSamples
  <2> QED BY <1>8, <2>2, <2>4, <2>6
<1> QED BY <1>5, <1>9, <1>10

LEMMA ReadKeepsSamples ==
  ASSUME SamplesInv, NEW o \in Readers, HssRead(o)
  PROVE  SamplesInv'
<1>0. reading' = Resting /\ ~walk'.on
  BY DEF SamplesInv, HssRead
<1>1. /\ kind = "hss" /\ hss.blocks[o] \in Layouts /\ hss.blocks[o] # None
      /\ kind' = kind /\ arrived' = arrived
      /\ arrived \in Nat /\ hss \in HssRecords /\ buffer \in Seq(Triple)
  BY DEF HssRead, SamplesInv, HssRecords
<1>2. PICK layout \in Layouts, n \in Nat :
        layout = hss.blocks[o] /\ n = SampleSize(layout) /\ n >= 1
  BY <1>1, SizeOfSample
<1>3. PICK count : count = Min({Len(buffer), n * Chunk})
  OBVIOUS
<1>4. /\ got' = HssDecode(SubSeq(buffer, 1, count), layout)
      /\ buffer' = SubSeq(buffer, count + 1, Len(buffer))
      /\ hss' = [hss EXCEPT !.readBy = o, !.owner = IF hss.owner = o THEN hss.owner ELSE None,
                            !.from = hss.taken, !.taken = (hss.taken + count) % n]
  BY <1>2, <1>3 DEF HssRead, Drop
<1>5. count \in Nat /\ count <= Len(buffer)
  <2>1. PICK l \in Nat, c \in Nat : l = Len(buffer) /\ c = n * Chunk
    <3>1. n * Chunk \in Nat /\ Len(buffer) \in Nat
      BY <1>1, StreamsAssumption, TimesRises
    <3> QED BY <3>1, Zenon
  <2>2. count = Min({l, c})
    BY <1>3, <2>1
  <2>3. count \in {l, c} /\ count <= l
    BY <2>2, LeastAmong
  <2> QED BY <2>1, <2>3
<1>6. buffer' \in Seq(Triple)
  BY <1>1, <1>4, <1>5, RestOf
<1>7. hss.taken \in Nat /\ (hss.taken + count) % n \in Nat
  <2>1. hss.taken \in Nat /\ hss.taken + count \in Nat /\ n > 0
    BY <1>1, <1>2, <1>5 DEF HssRecords
  <2> QED BY <2>1, RemainderOf
<1>8. /\ hss' \in HssRecords /\ hss'.layout = hss.layout /\ hss'.ran = hss.ran
      /\ hss'.owner = (IF hss.owner = o THEN hss.owner ELSE None)
      /\ hss'.blocks = hss.blocks /\ hss'.into = hss.into
      /\ hss'.from = hss.taken /\ hss'.taken = (hss.taken + count) % n
  BY <1>1, <1>4, <1>7 DEF HssRecords
<1>9. CASE hss.owner = o /\ o # None
  <2>1. /\ hss.ran = layout /\ hss.ran \in Layouts /\ hss.layout \in {hss.ran, None}
        /\ hss.blocks[hss.owner] \in {hss.ran, None}
    BY <1>1, <1>2, <1>9 DEF SamplesInv
  <2>2. PICK a \in Nat : Holds(buffer, a, hss.taken, arrived, hss.into, layout, n)
    BY <1>1, <1>2, <1>9, <2>1 DEF SamplesInv
  <2>3. \E b \in Nat : Holds(buffer', b, hss'.taken, arrived', hss'.into, hss'.ran,
                             SampleSize(hss'.ran))
    <3>1. \E b \in Nat : Holds(SubSeq(buffer, count + 1, Len(buffer)), b,
                               (hss.taken + count) % n, arrived, hss.into, layout, n)
      BY <1>1, <1>5, <2>2, RestGoesOn
    <3> QED BY <1>1, <1>2, <1>4, <1>8, <2>1, <3>1
  <2>4. ASSUME hss.taken = 0
        PROVE  Len(got') \in Nat /\ \E c \in Nat : ReturnedFrom(got', c, arrived', hss'.ran)
    <3>1. RunOf(buffer, a, layout, n)
      <4> SUFFICES ASSUME NEW q \in Nat, NEW r \in 1 .. n, q * n + r <= Len(buffer)
                   PROVE  buffer[q * n + r] = SampleBytes(a + 1 + q, layout)[r]
        BY <1>1 DEF RunOf
      <4>1. PICK k \in Nat : k = q * n + r
        <5>1. q * n \in Nat
          BY TimesRises
        <5>2. q * n + r \in Nat
          BY <5>1
        <5> QED BY <5>2
      <4>2. q * n \in Nat
        BY TimesRises
      <4>3. k >= 1 /\ k <= Len(buffer) /\ k + hss.taken = q * n + r
        BY <2>4, <4>1, <4>2
      <4>4. buffer[k] = SampleBytes(a + 1 + q, layout)[r]
        BY <2>2, <4>3 DEF Holds, LiesBehind
      <4> QED BY <4>1, <4>4
    <3>2. PICK m \in Nat : a + m = arrived /\ Len(buffer) = m * n + hss.into
      <4>1. PICK m \in Nat : a + m = arrived /\ hss.taken + Len(buffer) = m * n + hss.into
        BY <2>2 DEF Holds, ReachesTo
      <4>2. PICK l \in Nat : l = Len(buffer)
        BY <1>1
      <4>3. hss.taken + l = l
        BY <2>4
      <4>4. Len(buffer) = m * n + hss.into
        BY <4>1, <4>2, <4>3
      <4> QED BY <4>1, <4>4
    <3>3. hss.into \in Nat /\ hss.into < n /\ Spans(buffer, m, n, hss.into)
      BY <2>2, <3>2 DEF Holds, Spans
    <3>4. /\ \E c \in Nat : ReturnedFrom(HssDecode(SubSeq(buffer, 1, count), layout),
                                         c, arrived, layout)
          /\ Len(HssDecode(SubSeq(buffer, 1, count), layout)) \in Nat
      BY <1>1, <1>2, <1>3, <3>1, <3>2, <3>3, ReadReturns
    <3> QED BY <1>1, <1>4, <1>8, <2>1, <3>4
  <2>5. hss'.owner = hss.owner
    BY <1>8, <1>9
  <2> QED BY <1>0, <1>1, <1>6, <1>8, <2>1, <2>3, <2>4, <2>5 DEF SamplesInv
<1>10. CASE ~(hss.owner = o /\ o # None)
  <2>1. hss'.owner = None
    BY <1>8, <1>10
  <2> QED BY <1>0, <1>1, <1>6, <1>8, <2>1 DEF SamplesInv
<1> QED BY <1>9, <1>10

LEMMA SamplesInvNext == SamplesInv /\ [StreamsNext]_streamVars => SamplesInv'
<1> SUFFICES ASSUME SamplesInv, [StreamsNext]_streamVars
             PROVE  SamplesInv'
  OBVIOUS
<1>1. CASE UNCHANGED streamVars
  BY <1>1 DEF SamplesInv, streamVars, dataVars
<1>2. CASE \E o \in Readers : HssStart(o) \/ HssStop(o) \/ HssRead(o)
  BY <1>2, StartKeepsSamples, StopKeepsSamples, ReadKeepsSamples
<1>3. CASE HssSample
  BY <1>3, SampleKeepsSamples
<1>5. CASE StreamLeft \/ DeadlinePasses \/ StreamEnds
  BY <1>5 DEF SamplesInv, StreamLeft, DeadlinePasses, StreamEnds, dataVars
<1>6. CASE kind # "hss" /\ kind' = kind
  BY <1>6 DEF SamplesInv
<1>7. CASE Start \/ TargetReady \/ Stop \/ RttWait \/ Arrive \/ SwoRead \/ SwoFlush \/ RttRead
           \/ PowerCount \/ StreamStart \/ TraceSample \/ TraceFlush \/ WalkStart
  BY <1>6, <1>7 DEF Start, TargetReady, Stop, RttWait, Arrive, SwoRead, SwoFlush, RttRead,
        PowerCount, StreamStart, TraceSample, TraceFlush, WalkStart, BufferKinds, dataVars
<1>8. CASE SwoReadFlush \/ SwoFlushed \/ ReadRaises \/ PowerRead \/ RttWaitEnds
           \/ WalkRead \/ WalkRaises \/ WalkEnd
  <2>1. reading.op # "none" \/ walk.on
    <3>1. CASE SwoReadFlush \/ SwoFlushed \/ ReadRaises \/ PowerRead \/ RttWaitEnds
      BY <3>1 DEF SwoReadFlush, SwoFlushed, ReadRaises, PowerRead, RttWaitEnds
    <3>2. CASE WalkRead
      BY <3>2 DEF WalkRead
    <3>3. CASE WalkRaises \/ WalkEnd
      BY <3>3 DEF WalkRaises, WalkEnd
    <3> QED BY <1>8, <3>1, <3>2, <3>3
  <2>2. kind # "hss"
    BY <2>1 DEF SamplesInv, Resting
  <2>3. kind' = kind
    <3>1. CASE SwoReadFlush \/ SwoFlushed \/ ReadRaises \/ PowerRead \/ RttWaitEnds
      BY <3>1 DEF SwoReadFlush, SwoFlushed, ReadRaises, PowerRead, RttWaitEnds
    <3>2. CASE WalkRead
      BY <3>2 DEF WalkRead
    <3>3. CASE WalkRaises \/ WalkEnd
      BY <3>3 DEF WalkRaises, WalkEnd
    <3> QED BY <1>8, <3>1, <3>2, <3>3
  <2> QED BY <1>6, <2>2, <2>3
<1> QED BY <1>1, <1>2, <1>3, <1>5, <1>7, <1>8 DEF StreamsNext

LEMMA SamplesAsTaken == SamplesInv => SamplesDecodeAsTaken
<1> SUFFICES ASSUME SamplesInv, kind = "hss", hss.owner # None, hss.readBy = hss.owner,
                    hss.from = 0,
                    NEW i \in 1 .. Len(got)
             PROVE  \E s \in 1 .. arrived :
                      /\ got[i] = AsTaken(s, hss.ran)
                      /\ i > 1 => got[i - 1] = AsTaken(s - 1, hss.ran)
  BY DEF SamplesDecodeAsTaken
<1>1. PICK c \in Nat : ReturnedFrom(got, c, arrived, hss.ran)
  BY DEF SamplesInv
<1>2. arrived \in Nat /\ Len(got) \in Nat
  BY DEF SamplesInv
<1>3. c + Len(got) <= arrived /\ \A j \in 1 .. Len(got) : got[j] = AsTaken(c + j, hss.ran)
  BY <1>1 DEF ReturnedFrom
<1>4. c + i \in 1 .. arrived
  BY <1>2, <1>3
<1>5. got[i] = AsTaken(c + i, hss.ran)
  BY <1>3
<1>6. i > 1 => got[i - 1] = AsTaken((c + i) - 1, hss.ran)
  <2> SUFFICES ASSUME i > 1
               PROVE  got[i - 1] = AsTaken((c + i) - 1, hss.ran)
    OBVIOUS
  <2>1. i - 1 \in 1 .. Len(got) /\ c + (i - 1) = (c + i) - 1
    BY <1>2
  <2>2. got[i - 1] = AsTaken(c + (i - 1), hss.ran)
    BY <1>3, <2>1
  <2> QED BY <2>1, <2>2
<1> QED BY <1>4, <1>5, <1>6

------------------------------------------------------------------------------
(* ITM packets. Decoding from a place depends on the rest only, and reads a  *)
(* packet that begins there and goes on behind it.                           *)

LEMMA LeastOfSet ==
  ASSUME NEW T, T \subseteq Nat, NEW x \in T, \A y \in T : x <= y
  PROVE  Min(T) = x
<1>1. PICK m : m = Min(T)
  OBVIOUS
<1>2. m \in T /\ \A y \in T : m <= y
  BY <1>1 DEF Min
<1>3. m \in Nat /\ x \in Nat /\ m <= x /\ x <= m
  BY <1>2
<1> QED BY <1>1, <1>3

Item == [port : Nat, data : Seq(Nat)]

\* The places of data behind the i-th are those of bytes, as far as they go.
Agrees(data, i, bytes) ==
  \A k \in 1 .. Len(bytes) : i + k <= Len(data) => data[i + k] = bytes[k]

\* From i, decoding goes on at next, behind the packets in front.
Leads(dec, i, front, next) == dec[i] = front \o dec[next]

ItmPacket(data, i) ==
  IF IsSource(data[i])
  THEN <<[port |-> data[i] \div 8, data |-> SubSeq(data, i + 1, i + PayloadLength(data[i]))]>>
  ELSE <<>>

\* dec is what decoding from each place of data gives.
Decoded(dec, data) ==
  /\ data \in Seq(Nat)
  /\ dec \in [1 .. Len(data) + 1 -> Seq(Item)]
  /\ dec[Len(data) + 1] = <<>>
  /\ \A i \in 1 .. Len(data) :
       /\ SizeBits(data[i]) = 0 => dec[i] = dec[AfterProtocol(data, i)]
       /\ SizeBits(data[i]) # 0 /\ ~Fits(data, i) => dec[i] = <<>>
       /\ SizeBits(data[i]) # 0 /\ Fits(data, i) =>
            Leads(dec, i, ItmPacket(data, i), i + 1 + PayloadLength(data[i]))

\* A packet with a payload of z bytes behind its header h.
Laden(bytes, means, h, z) ==
  /\ SizeBits(h) # 0 /\ PayloadLength(h) = z
  /\ bytes \in Seq(Nat) /\ Len(bytes) = 1 + z /\ bytes[1] = h
  /\ means = IF IsSource(h)
             THEN <<[port |-> h \div 8, data |-> SubSeq(bytes, 2, 1 + z)]>>
             ELSE <<>>

\* z is the size places of s behind the c-th.
IsPart(z, s, c, size) ==
  Len(z) = size /\ \A k \in 1 .. size : z[k] = s[c + k]

LEMMA PartOf ==
  ASSUME NEW X, NEW s \in Seq(X), NEW c \in Nat, NEW size \in Nat, c + size <= Len(s)
  PROVE  SubSeq(s, c + 1, c + size) \in Seq(X) /\ IsPart(SubSeq(s, c + 1, c + size), s, c, size)
BY DEF IsPart

LEMMA StimulusIsLaden ==
  ASSUME NEW port \in Nat, NEW size \in 1 .. 3, NEW z \in {1, 2, 4},
         z = IF size = 3 THEN 4 ELSE size,
         NEW payload \in Seq(Nat), Len(payload) = z,
         NEW h \in Nat, h = 8 * port + size
  PROVE  Laden(Stimulus(port, size, payload).bytes, Stimulus(port, size, payload).means, h, z)
<1>1. z \in Nat
  OBVIOUS
<1>2. h % 4 = size /\ h \div 8 = port /\ (h \div 4) % 2 = 0
  OBVIOUS
<1>3. SizeBits(h) = size /\ PayloadLength(h) = z /\ IsSource(h)
  <2>1. SizeBits(h) = size /\ IsSource(h)
    BY <1>2 DEF SizeBits, IsSource
  <2>2. size = 1 \/ size = 2 \/ size = 3
    OBVIOUS
  <2>3. PayloadLength(h) = z
    BY <2>1, <2>2 DEF PayloadLength
  <2> QED BY <2>1, <2>3
<1>4. PICK b : b = <<h>> \o payload
  OBVIOUS
<1>5. b \in Seq(Nat) /\ Len(b) = 1 + z /\ b[1] = h /\ \A k \in 1 .. z : b[k + 1] = payload[k]
  <2>1. PICK f : f = <<h>>
    OBVIOUS
  <2>2. f \in Seq(Nat) /\ Len(f) = 1 /\ f[1] = h
    BY <2>1
  <2>3. b = f \o payload
    BY <1>4, <2>1
  <2>4. b \in Seq(Nat) /\ StandBehind(b, f, payload, 1, z)
    BY <1>1, <2>2, <2>3, PutBehind
  <2>5. Len(b) = 1 + z /\ b[1] = f[1] /\ \A k \in 1 .. z : b[1 + k] = payload[k]
    BY <2>4 DEF StandBehind
  <2>6. \A k \in 1 .. z : k + 1 = 1 + k
    BY <1>1
  <2> QED BY <2>2, <2>4, <2>5, <2>6
<1>6. SubSeq(b, 2, 1 + z) = payload
  <2>1. PICK s : s = SubSeq(b, 1 + 1, 1 + z)
    OBVIOUS
  <2>2. s \in Seq(Nat) /\ Len(s) = z /\ \A k \in 1 .. z : s[k] = b[1 + k]
    <3>1. 1 + z <= Len(b) /\ 1 \in Nat
      BY <1>1, <1>5
    <3>2. s \in Seq(Nat) /\ IsPart(s, b, 1, z)
      BY <1>1, <1>5, <2>1, <3>1, PartOf
    <3> QED BY <3>2 DEF IsPart
  <2>3. \A k \in 1 .. z : s[k] = payload[k]
    <3> TAKE k \in 1 .. z
    <3>1. s[k] = b[1 + k] /\ b[k + 1] = payload[k] /\ 1 + k = k + 1
      BY SMTT(40), <1>5, <2>2
    <3> QED BY <3>1
  <2>4. s = payload
    <3>1. Len(s) = Len(payload)
      BY <2>2
    <3>2. \A k \in 1 .. Len(s) : s[k] = payload[k]
      BY <2>2, <2>3
    <3> QED BY <2>2, <3>1, <3>2, SeqEqual
  <2> QED BY <2>1, <2>4
<1>7. Stimulus(port, size, payload) = [bytes |-> b, means |-> <<[port |-> port, data |-> payload]>>]
  BY <1>4 DEF Stimulus
<1>8. Laden(b, <<[port |-> port, data |-> payload]>>, h, z)
  <2>1. (IF IsSource(h) THEN <<[port |-> h \div 8, data |-> SubSeq(b, 2, 1 + z)]>> ELSE <<>>)
          = <<[port |-> port, data |-> payload]>>
    BY <1>2, <1>3, <1>6
  <2>2. SizeBits(h) # 0
    BY <1>3
  <2> QED BY <1>3, <1>5, <2>1, <2>2, Zenon DEF Laden
<1> QED BY <1>7, <1>8

\* A packet carries a payload, or is a synchronisation or protocol packet.
Synchronises(bytes) ==
  \A k \in 1 .. Len(bytes) : bytes[k] = IF k < Len(bytes) THEN 0 ELSE 128
Extends(bytes) ==
  /\ bytes[1] # 0 /\ bytes[1] % 4 = 0
  /\ \A k \in 1 .. Len(bytes) : bytes[k] >= 128 <=> k < Len(bytes)

LEMMA BytesOfPacket ==
  ASSUME NEW p \in Packets
  PROVE  p.bytes \in Seq(Nat) /\ Len(p.bytes) \in Nat /\ Len(p.bytes) >= 1
<1>1. PICK S : S = 0 .. 255
  OBVIOUS
<1>2. p.bytes \in Seq(S) /\ Len(p.bytes) > 0
  BY <1>1, PacketsAssumption
<1>3. PICK b \in Seq(S) : b = p.bytes
  BY <1>2
<1>4. b \in Seq(Nat)
  <2>1. PICK n \in Nat : n = Len(b)
    OBVIOUS
  <2>2. \A k \in 1 .. n : b[k] \in Nat
    <3>1. \A k \in 1 .. n : b[k] \in S
      BY <2>1
    <3>2. S \subseteq Nat
      BY <1>1
    <3> QED BY <3>1, <3>2, Zenon
  <2>3. b = [k \in 1 .. n |-> b[k]]
    BY <2>1
  <2>4. b \in [1 .. n -> Nat]
    BY <2>2, <2>3, Zenon
  <2> QED BY <2>4
<1>5. Len(b) \in Nat /\ Len(b) > 0
  BY <1>2, <1>3
<1> QED BY <1>3, <1>4, <1>5

LEMMA PacketShapes ==
  ASSUME NEW p \in Packets
  PROVE  \/ \E h \in Nat, z \in {1, 2, 4} : Laden(p.bytes, p.means, h, z)
         \/ p.means = <<>> /\ Len(p.bytes) > 1 /\ Synchronises(p.bytes)
         \/ p.means = <<>> /\ Extends(p.bytes)
<1>1. PICK b \in Seq(Nat) : b = p.bytes /\ Len(b) \in Nat /\ Len(b) >= 1
  BY BytesOfPacket
<1>2. CASE IsStimulus(p)
  <2>1. PICK port \in 0 .. 31, size \in 1 .. 3 :
          /\ p = Stimulus(port, size, Tail(b))
          /\ Len(b) = 1 + PayloadBytes[size]
    BY <1>1, <1>2 DEF IsStimulus
  <2>2. PICK z \in {1, 2, 4} : z = PayloadBytes[size] /\ z = IF size = 3 THEN 4 ELSE size
    <3>1. size = 1 \/ size = 2 \/ size = 3
      OBVIOUS
    <3>2. PayloadBytes[1] = 1 /\ PayloadBytes[2] = 2 /\ PayloadBytes[3] = 4
      BY DEF PayloadBytes
    <3> QED BY <3>1, <3>2
  <2>3. PICK t \in Seq(Nat) : t = Tail(b) /\ Len(t) = z
    <3>1. Tail(b) \in Seq(Nat) /\ Len(Tail(b)) = z
      BY <1>1, <2>1, <2>2
    <3> QED BY <3>1
  <2>4. PICK h \in Nat : h = 8 * port + size
    OBVIOUS
  <2>5. port \in Nat
    OBVIOUS
  <2>6. Laden(p.bytes, p.means, h, z)
    BY <2>1, <2>2, <2>3, <2>4, <2>5, StimulusIsLaden
  <2> QED BY <2>6
<1>3. CASE p = Skipped(p.bytes) /\ IsHardware(p)
  <2>1. PICK source \in 0 .. 31, size \in 1 .. 3 :
          b[1] = 8 * source + 4 + size /\ Len(b) = 1 + PayloadBytes[size]
    BY <1>1, <1>3 DEF IsHardware
  <2>2. p.means = <<>>
    BY <1>3 DEF Skipped
  <2>3. PICK h \in Nat : h = 8 * source + 4 + size
    OBVIOUS
  <2>4. h % 4 = size /\ (h \div 4) % 2 = 1
    BY <2>3
  <2>5. SizeBits(h) = size /\ ~IsSource(h)
    BY <2>4 DEF SizeBits, IsSource
  <2>6. PICK z \in {1, 2, 4} : z = PayloadBytes[size] /\ z = PayloadLength(h)
    <3>1. size = 1 \/ size = 2 \/ size = 3
      OBVIOUS
    <3>2. PayloadBytes[1] = 1 /\ PayloadBytes[2] = 2 /\ PayloadBytes[3] = 4
      BY DEF PayloadBytes
    <3> QED BY <2>5, <3>1, <3>2 DEF PayloadLength
  <2>7. SizeBits(h) # 0 /\ b[1] = h /\ Len(b) = 1 + z
    BY <2>1, <2>3, <2>5, <2>6
  <2>8. Laden(b, p.means, h, z)
    BY <2>2, <2>5, <2>6, <2>7, Zenon DEF Laden
  <2> QED BY <1>1, <2>8
<1>4. CASE p = Skipped(p.bytes) /\ IsSynchronisation(p)
  BY <1>4 DEF Skipped, IsSynchronisation, Synchronises
<1>5. CASE p = Skipped(p.bytes) /\ IsProtocol(p)
  BY <1>5 DEF Skipped, IsProtocol, Extends
<1>6. \/ IsStimulus(p)
      \/ p = Skipped(p.bytes) /\ (IsHardware(p) \/ IsSynchronisation(p) \/ IsProtocol(p))
  BY PacketsAssumption
<1> QED BY <1>2, <1>3, <1>4, <1>5, <1>6

\* Decoding from place i of data, where bytes begin, gives means and goes on
\* behind them, or gives nothing where data ends before they do.
ReadsAs(dec, data, i, bytes, means) ==
  IF i + Len(bytes) <= Len(data)
  THEN Leads(dec, i + 1, means, i + Len(bytes) + 1)
  ELSE dec[i + 1] = <<>>

LEMMA LadenRead ==
  ASSUME NEW dec, NEW data, Decoded(dec, data), NEW i \in Nat, i < Len(data),
         NEW bytes, NEW means, NEW h \in Nat, NEW z \in {1, 2, 4}, Laden(bytes, means, h, z),
         Agrees(data, i, bytes)
  PROVE  ReadsAs(dec, data, i, bytes, means)
<1>1. /\ SizeBits(h) # 0 /\ PayloadLength(h) = z
      /\ bytes \in Seq(Nat) /\ Len(bytes) = 1 + z /\ bytes[1] = h
      /\ means = IF IsSource(h)
                 THEN <<[port |-> h \div 8, data |-> SubSeq(bytes, 2, 1 + z)]>>
                 ELSE <<>>
  BY DEF Laden
<1>2. z \in Nat /\ data \in Seq(Nat) /\ Len(data) \in Nat
  BY DEF Decoded
<1>3. \A k \in 1 .. 1 + z : i + k <= Len(data) => data[i + k] = bytes[k]
  BY <1>1 DEF Agrees
<1>4. i + 1 \in 1 .. Len(data) /\ 1 \in 1 .. 1 + z
  BY <1>2
<1>5. data[i + 1] = h
  BY <1>1, <1>2, <1>3, <1>4
<1>6. Fits(data, i + 1) <=> (i + 1) + z <= Len(data)
  BY <1>1, <1>5 DEF Fits
<1>7. CASE (i + 1) + z <= Len(data)
  <2>1. Leads(dec, i + 1, ItmPacket(data, i + 1), (i + 1) + 1 + z)
    BY <1>1, <1>4, <1>5, <1>6, <1>7 DEF Decoded
  <2>2. PICK s : s = SubSeq(data, (i + 1) + 1, (i + 1) + z)
    OBVIOUS
  <2>3. s \in Seq(Nat) /\ Len(s) = z /\ \A k \in 1 .. z : s[k] = data[(i + 1) + k]
    <3>1. i + 1 \in Nat
      OBVIOUS
    <3>2. s \in Seq(Nat) /\ IsPart(s, data, i + 1, z)
      BY <1>2, <1>7, <2>2, <3>1, PartOf
    <3> QED BY <3>2 DEF IsPart
  <2>4. PICK t : t = SubSeq(bytes, 1 + 1, 1 + z)
    OBVIOUS
  <2>5. t \in Seq(Nat) /\ Len(t) = z /\ \A k \in 1 .. z : t[k] = bytes[1 + k]
    <3>1. 1 \in Nat /\ 1 + z <= Len(bytes)
      BY <1>1, <1>2
    <3>2. t \in Seq(Nat) /\ IsPart(t, bytes, 1, z)
      BY <1>1, <1>2, <2>4, <3>1, PartOf
    <3> QED BY <3>2 DEF IsPart
  <2>6. ASSUME NEW k \in 1 .. z
        PROVE  s[k] = t[k]
    <3>1. 1 + k \in 1 .. 1 + z /\ i + (1 + k) <= Len(data) /\ i + (1 + k) = (i + 1) + k
      BY <1>2, <1>7
    <3>2. data[i + (1 + k)] = bytes[1 + k]
      BY <1>3, <3>1
    <3> QED BY <2>3, <2>5, <3>1, <3>2
  <2>7. s = t
    <3>1. Len(s) = Len(t) /\ \A k \in 1 .. Len(s) : s[k] = t[k]
      BY <2>3, <2>5, <2>6
    <3> QED BY <2>3, <2>5, <3>1, SeqEqual
  <2>8. ItmPacket(data, i + 1) = means
    <3>1. ItmPacket(data, i + 1) = IF IsSource(h) THEN <<[port |-> h \div 8, data |-> s]>> ELSE <<>>
      BY <1>1, <1>5, <2>2 DEF ItmPacket
    <3>2. SubSeq(bytes, 2, 1 + z) = t
      BY <2>4
    <3> QED BY <1>1, <2>7, <3>1, <3>2, Zenon
  <2>9. (i + 1) + 1 + z = i + Len(bytes) + 1 /\ i + Len(bytes) <= Len(data)
    BY <1>1, <1>2, <1>7
  <2> QED BY <2>1, <2>8, <2>9 DEF ReadsAs
<1>8. CASE ~((i + 1) + z <= Len(data))
  <2>1. dec[i + 1] = <<>>
    BY <1>1, <1>4, <1>5, <1>6, <1>8 DEF Decoded
  <2>2. ~(i + Len(bytes) <= Len(data))
    BY <1>1, <1>2, <1>8
  <2> QED BY <2>1, <2>2 DEF ReadsAs
<1> QED BY <1>7, <1>8

\* What begins behind the i-th place is skipped as far as its l bytes are there.
Passes(data, i, l) ==
  /\ SizeBits(data[i + 1]) = 0
  /\ AfterProtocol(data, i + 1) = IF i + l <= Len(data) THEN i + l + 1 ELSE Len(data) + 1

\* A packet that is skipped is gone over to the next.
LEMMA PassedOver ==
  ASSUME NEW dec, NEW data, Decoded(dec, data), NEW i \in Nat, i < Len(data),
         NEW bytes, NEW l \in Nat, l >= 1, Len(bytes) = l,
         Passes(data, i, l)
  PROVE  ReadsAs(dec, data, i, bytes, <<>>)
<1>1. data \in Seq(Nat) /\ Len(data) \in Nat /\ i + 1 \in 1 .. Len(data)
  BY DEF Decoded
<1>2. dec[i + 1] = dec[AfterProtocol(data, i + 1)]
  BY <1>1 DEF Decoded, Passes
<1>3. CASE i + l <= Len(data)
  <2>1. i + l + 1 \in 1 .. Len(data) + 1
    BY <1>1, <1>3
  <2>2. dec[i + l + 1] \in Seq(Item)
    BY <2>1 DEF Decoded
  <2>3. <<>> \o dec[i + l + 1] = dec[i + l + 1]
    BY <2>2, ConcatEmptySeq
  <2> QED BY <1>2, <1>3, <2>3 DEF ReadsAs, Leads, Passes
<1>4. CASE ~(i + l <= Len(data))
  <2>1. dec[Len(data) + 1] = <<>>
    BY DEF Decoded
  <2> QED BY <1>2, <1>4, <2>1 DEF ReadsAs, Passes
<1> QED BY <1>3, <1>4

LEMMA SynchronisationRead ==
  ASSUME NEW dec, NEW data, Decoded(dec, data), NEW i \in Nat, i < Len(data),
         NEW bytes \in Seq(Nat), Len(bytes) > 1, Synchronises(bytes), Agrees(data, i, bytes)
  PROVE  ReadsAs(dec, data, i, bytes, <<>>)
<1>1. PICK n \in Nat, l \in Nat : n = Len(data) /\ l = Len(bytes)
  BY DEF Decoded
<1>2. data \in Seq(Nat) /\ i < n /\ l > 1
  BY <1>1 DEF Decoded
<1>3. ASSUME NEW k \in 1 .. l, i + k <= n
      PROVE  data[i + k] = IF k < l THEN 0 ELSE 128
  <2>1. data[i + k] = bytes[k]
    BY <1>1, <1>3 DEF Agrees
  <2> QED BY <1>1, <2>1 DEF Synchronises
<1>4. data[i + 1] = 0
  <2>1. 1 \in 1 .. l /\ i + 1 <= n /\ 1 < l
    BY <1>2
  <2> QED BY <1>3, <2>1
<1>5. SizeBits(data[i + 1]) = 0
  BY <1>4 DEF SizeBits
<1>6. PICK T : T = {j \in (i + 1) .. n : data[j] # 0} \union {n + 1}
  OBVIOUS
<1>7. PastZeros(data, i + 1) = Min(T) /\ T \subseteq Nat
  BY <1>1, <1>6 DEF PastZeros
<1>8. ASSUME NEW j \in (i + 1) .. n, data[j] # 0
      PROVE  i + l <= j
  <2> SUFFICES ASSUME j < i + l
               PROVE  FALSE
    OBVIOUS
  <2>1. PICK k \in 1 .. l : k = j - i
    OBVIOUS
  <2>2. i + k = j /\ k < l
    BY <2>1
  <2> QED BY SMTT(40), <1>3, <1>8, <2>2
<1>9. CASE i + l <= n
  <2>1. data[i + l] = 128
    <3>1. l \in 1 .. l /\ ~(l < l)
      BY <1>2
    <3> QED BY <1>3, <1>9, <3>1
  <2>2. i + l \in T
    BY <1>2, <1>6, <1>9, <2>1
  <2>3. \A y \in T : i + l <= y
    BY <1>6, <1>8, <1>9
  <2>4. Min(T) = i + l
    BY <1>7, <2>2, <2>3, LeastOfSet
  <2>5. AfterProtocol(data, i + 1) = i + l + 1
    BY <1>1, <1>4, <1>7, <1>9, <2>1, <2>4 DEF AfterProtocol
  <2>6. Passes(data, i, l)
    BY <1>1, <1>5, <1>9, <2>5 DEF Passes
  <2>7. l >= 1
    BY <1>2
  <2> QED BY <1>1, <2>6, <2>7, PassedOver, Zenon
<1>10. CASE ~(i + l <= n)
  <2>1. n + 1 \in T
    BY <1>6
  <2>2. \A y \in T : n + 1 <= y
    BY <1>6, <1>8, <1>10
  <2>3. Min(T) = n + 1
    BY <1>7, <2>1, <2>2, LeastOfSet
  <2>4. ~(n + 1 <= n)
    OBVIOUS
  <2>5. AfterProtocol(data, i + 1) = n + 1
    BY <1>1, <1>4, <1>7, <2>3, <2>4 DEF AfterProtocol
  <2>6. Passes(data, i, l)
    BY <1>1, <1>5, <1>10, <2>5 DEF Passes
  <2>7. l >= 1
    BY <1>2
  <2> QED BY <1>1, <2>6, <2>7, PassedOver, Zenon
<1> QED BY <1>9, <1>10

LEMMA ProtocolRead ==
  ASSUME NEW dec, NEW data, Decoded(dec, data), NEW i \in Nat, i < Len(data),
         NEW bytes \in Seq(Nat), Len(bytes) >= 1, Extends(bytes), Agrees(data, i, bytes)
  PROVE  ReadsAs(dec, data, i, bytes, <<>>)
<1>1. PICK n \in Nat, l \in Nat : n = Len(data) /\ l = Len(bytes)
  BY DEF Decoded
<1>2. data \in Seq(Nat) /\ i < n /\ l >= 1
  BY <1>1 DEF Decoded
<1>3. ASSUME NEW k \in 1 .. l, i + k <= n
      PROVE  data[i + k] = bytes[k] /\ bytes[k] \in Nat /\ (data[i + k] >= 128 <=> k < l)
  <2>1. data[i + k] = bytes[k]
    BY <1>1, <1>3 DEF Agrees
  <2> QED BY <1>1, <2>1 DEF Extends
<1>4. PICK h \in Nat : data[i + 1] = h /\ h # 0 /\ h % 4 = 0 /\ (h >= 128 <=> 1 < l)
  <2>1. 1 \in 1 .. l /\ i + 1 <= n
    BY <1>2
  <2> QED BY <1>3, <2>1 DEF Extends
<1>5. SizeBits(data[i + 1]) = 0
  BY <1>4 DEF SizeBits
<1>6. CASE l = 1
  <2>1. AfterProtocol(data, i + 1) = (i + 1) + 1
    BY <1>4, <1>6 DEF AfterProtocol
  <2>2. i + l <= n /\ (i + 1) + 1 = i + l + 1
    BY <1>2, <1>6
  <2>3. Passes(data, i, l)
    BY <1>1, <1>5, <2>1, <2>2 DEF Passes
  <2> QED BY <1>1, <1>2, <2>3, PassedOver, Zenon
<1>7. CASE l # 1
  <2>1. l > 1
    BY <1>2, <1>7
  <2>2. PICK T : T = {j \in (i + 2) .. n : data[j] < 128} \union {n}
    OBVIOUS
  <2>3. AfterProtocol(data, i + 1) = Min(T) + 1 /\ T \subseteq Nat
    <3>1. (i + 1) + 1 = i + 2
      OBVIOUS
    <3>2. PastContinuation(data, (i + 1) + 1) = Min(T) + 1
      BY <1>1, <2>2, <3>1 DEF PastContinuation
    <3>3. AfterProtocol(data, i + 1) = PastContinuation(data, (i + 1) + 1)
      BY <1>4, <2>1 DEF AfterProtocol
    <3>4. T \subseteq Nat
      BY <1>1, <2>2
    <3> QED BY <3>2, <3>3, <3>4
  <2>4. ASSUME NEW j \in (i + 2) .. n, data[j] < 128
        PROVE  i + l <= j
    <3> SUFFICES ASSUME j < i + l
                 PROVE  FALSE
      OBVIOUS
    <3>1. PICK k \in 1 .. l : k = j - i
      OBVIOUS
    <3>2. i + k = j /\ k < l
      BY <3>1
    <3>3. i + k <= n
      BY <3>2
    <3>4. data[i + k] = bytes[k] /\ bytes[k] \in Nat /\ data[i + k] >= 128
      BY <1>3, <3>2, <3>3
    <3>5. data[j] \in Nat /\ data[j] >= 128
      BY <3>2, <3>4, Zenon
    <3> QED BY <2>4, <3>5
  <2>5. CASE i + l <= n
    <3>1. data[i + l] < 128
      <4>1. l \in 1 .. l /\ ~(l < l)
        BY <1>2
      <4>2. data[i + l] = bytes[l] /\ bytes[l] \in Nat /\ ~(data[i + l] >= 128)
        BY <1>3, <2>5, <4>1
      <4> QED BY <4>2
    <3>2. i + l \in T
      BY <2>1, <2>2, <2>5, <3>1
    <3>3. \A y \in T : i + l <= y
      BY <2>2, <2>4, <2>5
    <3>4. Min(T) = i + l
      BY <2>3, <3>2, <3>3, LeastOfSet
    <3>5. AfterProtocol(data, i + 1) = i + l + 1
      BY <2>3, <3>4
    <3>6. Passes(data, i, l)
      BY <1>1, <1>5, <2>5, <3>5 DEF Passes
    <3> QED BY <1>1, <1>2, <3>6, PassedOver, Zenon
  <2>6. CASE ~(i + l <= n)
    <3>1. n \in T
      BY <2>2
    <3>2. \A y \in T : n <= y
      BY <2>2, <2>4, <2>6
    <3>3. Min(T) = n
      BY <2>3, <3>1, <3>2, LeastOfSet
    <3>4. AfterProtocol(data, i + 1) = n + 1
      BY <2>3, <3>3
    <3>5. Passes(data, i, l)
      BY <1>1, <1>5, <2>6, <3>4 DEF Passes
    <3> QED BY <1>1, <1>2, <3>5, PassedOver, Zenon
  <2> QED BY <2>5, <2>6
<1> QED BY <1>6, <1>7

LEMMA PacketRead ==
  ASSUME NEW dec, NEW data, Decoded(dec, data), NEW i \in Nat, i < Len(data),
         NEW p \in Packets, Agrees(data, i, p.bytes)
  PROVE  ReadsAs(dec, data, i, p.bytes, p.means)
<1>1. CASE \E h \in Nat, z \in {1, 2, 4} : Laden(p.bytes, p.means, h, z)
  <2>1. PICK h \in Nat, z \in {1, 2, 4} : Laden(p.bytes, p.means, h, z)
    BY <1>1
  <2> QED BY <2>1, LadenRead
<1>2. PICK b \in Seq(Nat) : b = p.bytes /\ Len(b) >= 1
  BY BytesOfPacket
<1>3. CASE p.means = <<>> /\ Len(p.bytes) > 1 /\ Synchronises(p.bytes)
  <2>1. ReadsAs(dec, data, i, b, <<>>)
    BY <1>2, <1>3, SynchronisationRead
  <2> QED BY <1>2, <1>3, <2>1
<1>4. CASE p.means = <<>> /\ Extends(p.bytes)
  <2>1. ReadsAs(dec, data, i, b, <<>>)
    BY <1>2, <1>4, ProtocolRead
  <2> QED BY <1>2, <1>4, <2>1
<1> QED BY <1>1, <1>3, <1>4, PacketShapes

LEMMA LeastMember ==
  ASSUME NEW T, T \subseteq Nat, T # {}
  PROVE  Min(T) \in T
<1>1. PICK x \in T : \A y \in T : x <= y
  BY LeastNatural
<1> QED BY <1>1, LeastOfSet

\* Decoding always goes on behind where it is.
LEMMA GoesForward ==
  ASSUME NEW data \in Seq(Nat), NEW i \in 1 .. Len(data)
  PROVE  /\ SizeBits(data[i]) = 0 => AfterProtocol(data, i) \in i + 1 .. Len(data) + 1
         /\ SizeBits(data[i]) # 0 /\ Fits(data, i) =>
              /\ i + 1 + PayloadLength(data[i]) \in i + 1 .. Len(data) + 1
              /\ PayloadLength(data[i]) \in Nat
<1>1. PICK n \in Nat : n = Len(data)
  OBVIOUS
<1>2. i \in 1 .. n /\ data[i] \in Nat
  BY <1>1
<1>3. ASSUME SizeBits(data[i]) # 0, Fits(data, i)
      PROVE  /\ i + 1 + PayloadLength(data[i]) \in i + 1 .. n + 1
             /\ PayloadLength(data[i]) \in Nat
  <2>1. SizeBits(data[i]) \in 1 .. 3
    <3>1. data[i] % 4 \in 0 .. 3
      BY <1>2
    <3> QED BY <1>3, <3>1 DEF SizeBits
  <2>2. SizeBits(data[i]) = 1 \/ SizeBits(data[i]) = 2 \/ SizeBits(data[i]) = 3
    BY <2>1
  <2>3. PICK z \in {1, 2, 4} : z = PayloadLength(data[i])
    BY <2>2 DEF PayloadLength
  <2>4. i + z <= n
    BY <1>1, <1>3, <2>3 DEF Fits
  <2> QED BY <1>2, <2>3, <2>4
<1>4. CASE data[i] = 0
  <2>1. PICK T : T = {j \in i .. n : data[j] # 0} \union {n + 1}
    OBVIOUS
  <2>2. T \subseteq i + 1 .. n + 1 /\ T # {} /\ T \subseteq Nat
    <3>1. \A y \in T : y \in i + 1 .. n + 1
      <4> TAKE y \in T
      <4>1. CASE y = n + 1
        BY <1>2, <4>1
      <4>2. CASE y \in i .. n /\ data[y] # 0
        <5>1. y # i
          BY <1>4, <4>2
        <5> QED BY <1>2, <4>2, <5>1
      <4> QED BY <2>1, <4>1, <4>2
    <3> QED BY <1>2, <2>1, <3>1
  <2>3. PICK m \in i + 1 .. n + 1 : m = PastZeros(data, i)
    <3>1. Min(T) \in T
      BY <2>2, LeastMember
    <3> QED BY <1>1, <2>1, <2>2, <3>1 DEF PastZeros
  <2>4. AfterProtocol(data, i) \in {m, m + 1} /\ (AfterProtocol(data, i) = m + 1 => m <= n)
    BY <1>1, <1>4, <2>3 DEF AfterProtocol
  <2> QED BY <1>1, <1>2, <1>3, <2>3, <2>4
<1>5. CASE data[i] >= 128
  <2>1. PICK T : T = {j \in i + 1 .. n : data[j] < 128} \union {n}
    OBVIOUS
  <2>2. T \subseteq i .. n /\ T # {} /\ T \subseteq Nat
    BY <1>2, <2>1
  <2>3. PICK m \in i .. n : m = Min(T)
    BY <2>2, LeastMember
  <2>4. AfterProtocol(data, i) = m + 1
    BY <1>1, <1>2, <1>5, <2>1, <2>3 DEF AfterProtocol, PastContinuation
  <2> QED BY <1>1, <1>2, <1>3, <2>3, <2>4
<1>6. CASE data[i] # 0 /\ ~(data[i] >= 128)
  <2>1. AfterProtocol(data, i) = i + 1
    BY <1>6 DEF AfterProtocol
  <2> QED BY <1>1, <1>2, <1>3, <2>1
<1> QED BY <1>4, <1>5, <1>6

\* What decode makes of place i, of what it makes of those behind it.
DecodeStep(h, data, i) ==
  IF i > Len(data) THEN <<>>
  ELSE IF SizeBits(data[i]) = 0 THEN h[AfterProtocol(data, i)]
  ELSE IF ~Fits(data, i) THEN <<>>
  ELSE ItmPacket(data, i) \o h[i + 1 + PayloadLength(data[i])]

LEMMA DependsOnRest ==
  ASSUME NEW data \in Seq(Nat), NEW i \in 1 .. Len(data) + 1, NEW g, NEW h,
         \A x \in i + 1 .. Len(data) + 1 : g[x] = h[x]
  PROVE  DecodeStep(g, data, i) = DecodeStep(h, data, i)
<1>1. CASE i > Len(data)
  BY <1>1 DEF DecodeStep
<1>2. CASE ~(i > Len(data))
  <2>1. i \in 1 .. Len(data)
    BY <1>2
  <2>2. SizeBits(data[i]) = 0 => g[AfterProtocol(data, i)] = h[AfterProtocol(data, i)]
    BY <2>1, GoesForward
  <2>3. SizeBits(data[i]) # 0 /\ Fits(data, i) =>
          g[i + 1 + PayloadLength(data[i])] = h[i + 1 + PayloadLength(data[i])]
    BY <2>1, GoesForward
  <2> QED BY <1>2, <2>2, <2>3, Zenon DEF DecodeStep
<1> QED BY <1>1, <1>2

\* h is right from place i on.
RightFrom(h, data, i) ==
  /\ DOMAIN h = 1 .. Len(data) + 1 /\ h = [x \in 1 .. Len(data) + 1 |-> h[x]]
  /\ \A x \in i .. Len(data) + 1 : h[x] = DecodeStep(h, data, x)

LEMMA SomeDecodes ==
  ASSUME NEW data \in Seq(Nat)
  PROVE  \E h : RightFrom(h, data, 1)
<1>1. PICK n \in Nat : n = Len(data)
  OBVIOUS
<1> DEFINE Some(m) == \E h : RightFrom(h, data, n + 1 - m)
           T == {m \in 0 .. n : ~Some(m)}
<1>2. T = {}
  <2> SUFFICES ASSUME T # {}
               PROVE  FALSE
    OBVIOUS
  <2>1. PICK m \in T : \A y \in T : m <= y
    <3>1. T \subseteq Nat
      <4> HIDE DEF Some
      <4> QED OBVIOUS
    <3> HIDE DEF T
    <3> QED BY <3>1, LeastNatural
  <2>2. m \in 0 .. n /\ ~Some(m)
    BY <2>1
  <2>3. m # 0
    <3>1. PICK h : h = [x \in 1 .. n + 1 |-> <<>>]
      OBVIOUS
    <3>2. DOMAIN h = 1 .. n + 1 /\ h[n + 1] = <<>> /\ h = [x \in 1 .. n + 1 |-> h[x]]
      BY <3>1
    <3>3. DecodeStep(h, data, n + 1) = <<>>
      BY <1>1 DEF DecodeStep
    <3>4. \A x \in n + 1 .. n + 1 : h[x] = DecodeStep(h, data, x)
      <4>1. \A x \in n + 1 .. n + 1 : x = n + 1
        OBVIOUS
      <4> QED BY <3>2, <3>3, <4>1
    <3>5. RightFrom(h, data, n + 1)
      BY <1>1, <3>2, <3>4 DEF RightFrom
    <3>6. n + 1 - 0 = n + 1
      OBVIOUS
    <3>7. Some(0)
      BY <3>5, <3>6
    <3> QED BY <2>2, <3>7
  <2>4. m - 1 \in 0 .. n /\ ~(m <= m - 1)
    BY <2>2, <2>3
  <2>5. PICK j \in 1 .. n : j = n + 1 - m
    BY <2>2, <2>3
  <2>6. PICK h : RightFrom(h, data, j + 1)
    <3>1. Some(m - 1)
      <4> HIDE DEF Some
      <4> QED BY <2>1, <2>4 DEF Some
    <3>2. n + 1 - (m - 1) = j + 1
      BY <2>2, <2>5
    <3> QED BY <3>1, <3>2
  <2>7. PICK v : v = DecodeStep(h, data, j)
    OBVIOUS
  <2>8. PICK k : k = [x \in 1 .. n + 1 |-> IF x = j THEN v ELSE h[x]]
    OBVIOUS
  <2>9. DOMAIN k = 1 .. n + 1 /\ k = [x \in 1 .. n + 1 |-> k[x]] /\ k[j] = v
    BY <2>5, <2>8
  <2>10. \A x \in j + 1 .. n + 1 : k[x] = h[x]
    BY <2>5, <2>8
  <2>11. ASSUME NEW x \in j .. n + 1
         PROVE  k[x] = DecodeStep(k, data, x)
    <3>1. x \in 1 .. Len(data) + 1 /\ \A y \in x + 1 .. Len(data) + 1 : y \in j + 1 .. n + 1
      BY <1>1, <2>5
    <3>2. \A y \in x + 1 .. Len(data) + 1 : k[y] = h[y]
      BY <2>10, <3>1
    <3>3. DecodeStep(k, data, x) = DecodeStep(h, data, x)
      BY <3>1, <3>2, DependsOnRest
    <3>4. CASE x = j
      BY <2>7, <2>9, <3>3, <3>4
    <3>5. CASE x # j
      <4>1. x \in j + 1 .. Len(data) + 1 /\ x \in j + 1 .. n + 1
        BY <1>1, <2>5, <3>5
      <4>2. h[x] = DecodeStep(h, data, x)
        BY <2>6, <4>1 DEF RightFrom
      <4> QED BY <2>10, <3>3, <4>1, <4>2
    <3> QED BY <3>4, <3>5
  <2>12. RightFrom(k, data, n + 1 - m)
    BY <1>1, <2>5, <2>9, <2>11 DEF RightFrom
  <2>13. Some(m)
    BY <2>12
  <2> QED BY <2>2, <2>13
<1>3. n \notin T /\ n \in 0 .. n
  <2> HIDE DEF T
  <2> QED BY <1>2
<1>4. Some(n)
  <2> HIDE DEF Some
  <2> QED BY <1>3
<1>5. n + 1 - n = 1
  OBVIOUS
<1> QED BY <1>4, <1>5

LEMMA AllDecoded ==
  ASSUME NEW data \in Seq(Nat), NEW h, RightFrom(h, data, 1)
  PROVE  Decoded(h, data)
<1>1. PICK n \in Nat : n = Len(data)
  OBVIOUS
<1>2. /\ h = [x \in 1 .. n + 1 |-> h[x]]
      /\ \A x \in 1 .. n + 1 : h[x] = DecodeStep(h, data, x)
  BY <1>1 DEF RightFrom
<1>3. h[n + 1] = <<>>
  <2>1. n + 1 \in 1 .. n + 1 /\ n + 1 > Len(data)
    BY <1>1
  <2> QED BY <1>2, <2>1 DEF DecodeStep
<1>4. ASSUME NEW i \in 1 .. n
      PROVE  /\ SizeBits(data[i]) = 0 => h[i] = h[AfterProtocol(data, i)]
             /\ SizeBits(data[i]) # 0 /\ ~Fits(data, i) => h[i] = <<>>
             /\ SizeBits(data[i]) # 0 /\ Fits(data, i) =>
                  Leads(h, i, ItmPacket(data, i), i + 1 + PayloadLength(data[i]))
  <2>1. h[i] = DecodeStep(h, data, i)
    BY <1>2
  <2>2. ~(i > Len(data))
    BY <1>1
  <2> QED BY <2>1, <2>2, Zenon DEF DecodeStep, Leads
<1> DEFINE T == {m \in 0 .. n : h[n + 1 - m] \notin Seq(Item)}
<1>5. T = {}
  <2> SUFFICES ASSUME T # {}
               PROVE  FALSE
    OBVIOUS
  <2>1. PICK m \in T : \A y \in T : m <= y
    <3>1. T \subseteq Nat
      OBVIOUS
    <3> HIDE DEF T
    <3> QED BY <3>1, LeastNatural
  <2>2. m \in 0 .. n /\ h[n + 1 - m] \notin Seq(Item)
    BY <2>1
  <2>3. m # 0
    <3>1. n + 1 - 0 = n + 1 /\ <<>> \in Seq(Item)
      OBVIOUS
    <3> QED BY <1>3, <2>2, <3>1
  <2>4. PICK i \in 1 .. n : i = n + 1 - m
    BY <2>2, <2>3
  <2>5. ASSUME NEW x \in i + 1 .. n + 1
        PROVE  h[x] \in Seq(Item)
    <3>1. n + 1 - x \in 0 .. n /\ n + 1 - (n + 1 - x) = x /\ ~(m <= n + 1 - x)
      BY <2>2, <2>4
    <3>2. n + 1 - x \notin T
      BY <2>1, <3>1
    <3> QED BY <3>1, <3>2
  <2>6. i \in 1 .. Len(data) /\ data[i] \in Nat
    BY <1>1
  <2>7. CASE SizeBits(data[i]) = 0
    <3>1. AfterProtocol(data, i) \in i + 1 .. n + 1
      BY <1>1, <2>6, <2>7, GoesForward
    <3> QED BY <1>4, <2>2, <2>4, <2>5, <2>7, <3>1
  <2>8. CASE SizeBits(data[i]) # 0 /\ ~Fits(data, i)
    <3>1. h[i] = <<>> /\ <<>> \in Seq(Item)
      BY <1>4, <2>8
    <3> QED BY <2>2, <2>4, <3>1
  <2>9. CASE SizeBits(data[i]) # 0 /\ Fits(data, i)
    <3>1. PICK z \in Nat : z = PayloadLength(data[i])
      BY <2>6, <2>9, GoesForward
    <3>2. i + 1 + z \in i + 1 .. n + 1 /\ i + z <= n
      <4>1. i + 1 + PayloadLength(data[i]) \in i + 1 .. Len(data) + 1
        BY <2>6, <2>9, GoesForward
      <4>2. i + PayloadLength(data[i]) <= Len(data)
        BY <2>9 DEF Fits
      <4> QED BY <1>1, <3>1, <4>1, <4>2
    <3>3. PICK r \in Seq(Item) : r = h[i + 1 + z]
      BY <2>5, <3>2
    <3>4. PICK s \in Seq(Nat) : s = SubSeq(data, i + 1, i + z)
      <4>1. SubSeq(data, i + 1, i + z) \in Seq(Nat)
        BY SMTT(40), <1>1, <3>2, PartOf
      <4> QED BY <4>1
    <3>5. data[i] \div 8 \in Nat
      BY <2>6
    <3>6. PICK f \in Seq(Item) : f = ItmPacket(data, i)
      <4>1. PICK it \in Item : it = [port |-> data[i] \div 8, data |-> s]
        BY <3>5 DEF Item
      <4>2. <<it>> \in Seq(Item) /\ <<>> \in Seq(Item)
        OBVIOUS
      <4>3. ItmPacket(data, i) = IF IsSource(data[i]) THEN <<it>> ELSE <<>>
        BY <3>1, <3>4, <4>1 DEF ItmPacket
      <4> QED BY <4>2, <4>3
    <3>7. h[i] = f \o r
      BY <1>4, <2>9, <3>1, <3>3, <3>6 DEF Leads
    <3>8. f \o r \in Seq(Item)
      OBVIOUS
    <3> QED BY <2>2, <2>4, <3>7, <3>8
  <2> QED BY <2>7, <2>8, <2>9
<1>6. \A x \in 1 .. n + 1 : h[x] \in Seq(Item)
  <2> TAKE x \in 1 .. n + 1
  <2>1. n + 1 - x \in 0 .. n /\ n + 1 - (n + 1 - x) = x
    OBVIOUS
  <2>2. n + 1 - x \notin T
    <3> HIDE DEF T
    <3> QED BY <1>5
  <2> QED BY <2>1, <2>2
<1>7. h \in [1 .. n + 1 -> Seq(Item)]
  BY <1>2, <1>6
<1> QED BY <1>1, <1>3, <1>4, <1>7 DEF Decoded

LEMMA DecodeItmIs ==
  ASSUME NEW data \in Seq(Nat)
  PROVE  \E dec : Decoded(dec, data) /\ DecodeItm(data) = dec[1]
<1> DEFINE Rec(h) ==
      h = [i \in 1 .. Len(data) + 1 |->
             IF i > Len(data) THEN <<>>
             ELSE IF SizeBits(data[i]) = 0 THEN h[AfterProtocol(data, i)]
             ELSE IF ~Fits(data, i) THEN <<>>
             ELSE LET size == PayloadLength(data[i])
                      packet == [port |-> data[i] \div 8,
                                 data |-> SubSeq(data, i + 1, i + size)]
                  IN  (IF IsSource(data[i]) THEN <<packet>> ELSE <<>>) \o h[i + 1 + size]]
<1>1. PICK g : g = CHOOSE h : Rec(h)
  OBVIOUS
<1>2. DecodeItm(data) = g[1]
  BY <1>1 DEF DecodeItm
<1>3. \A h : Rec(h) <=> h = [i \in 1 .. Len(data) + 1 |-> DecodeStep(h, data, i)]
  BY DEF DecodeStep, ItmPacket
<1> HIDE DEF Rec
<1>4. PICK h : RightFrom(h, data, 1)
  BY SomeDecodes
<1>5. Rec(h)
  <2>1. h = [i \in 1 .. Len(data) + 1 |-> DecodeStep(h, data, i)]
    <3>1. h = [x \in 1 .. Len(data) + 1 |-> h[x]]
      BY <1>4 DEF RightFrom
    <3>2. \A x \in 1 .. Len(data) + 1 : h[x] = DecodeStep(h, data, x)
      BY <1>4 DEF RightFrom
    <3> QED BY <3>1, <3>2, Zenon
  <2> QED BY <1>3, <2>1
<1>6. g = [i \in 1 .. Len(data) + 1 |-> DecodeStep(g, data, i)]
  BY <1>1, <1>3, <1>5
<1>7. RightFrom(g, data, 1)
  <2>1. DOMAIN g = 1 .. Len(data) + 1
    BY <1>6, Zenon
  <2>2. \A x \in 1 .. Len(data) + 1 : g[x] = DecodeStep(g, data, x)
    BY <1>6, Zenon
  <2>3. g = [x \in 1 .. Len(data) + 1 |-> g[x]]
    BY <1>6, <2>2, Zenon
  <2> QED BY <2>1, <2>2, <2>3 DEF RightFrom
<1>8. Decoded(g, data)
  BY <1>7, AllDecoded
<1> QED BY <1>2, <1>8

------------------------------------------------------------------------------
(* A stream of packets, of which the first bytes have been read.             *)

LEMMA PacketParts ==
  ASSUME NEW p \in Packets
  PROVE  /\ p.bytes \in Seq(Nat) /\ Len(p.bytes) \in Nat /\ Len(p.bytes) >= 1
         /\ p.means \in Seq(Item)
<1>1. CASE \E h \in Nat, z \in {1, 2, 4} : Laden(p.bytes, p.means, h, z)
  <2>1. PICK h \in Nat, z \in {1, 2, 4} : Laden(p.bytes, p.means, h, z)
    BY <1>1
  <2>2. /\ p.bytes \in Seq(Nat) /\ Len(p.bytes) = 1 + z
        /\ p.means = IF IsSource(h)
                     THEN <<[port |-> h \div 8, data |-> SubSeq(p.bytes, 2, 1 + z)]>>
                     ELSE <<>>
    BY <2>1 DEF Laden
  <2>3. z \in Nat /\ 1 \in Nat
    OBVIOUS
  <2>4. 1 + z <= Len(p.bytes)
    BY <2>2, <2>3
  <2>5. SubSeq(p.bytes, 1 + 1, 1 + z) \in Seq(Nat)
    BY <2>2, <2>3, <2>4, PartOf
  <2>6. PICK it \in Item : it = [port |-> h \div 8, data |-> SubSeq(p.bytes, 2, 1 + z)]
    <3>1. h \div 8 \in Nat /\ 1 + 1 = 2
      OBVIOUS
    <3>2. SubSeq(p.bytes, 2, 1 + z) \in Seq(Nat)
      BY <2>5, <3>1
    <3> QED BY <3>1, <3>2 DEF Item
  <2>7. <<it>> \in Seq(Item) /\ <<>> \in Seq(Item)
    OBVIOUS
  <2> QED BY <2>2, <2>3, <2>6, <2>7
<1>2. CASE p.means = <<>>
  <2>1. <<>> \in Seq(Item)
    OBVIOUS
  <2> QED BY <1>2, <2>1, BytesOfPacket
<1> QED BY <1>1, <1>2, PacketShapes

Regrouped(a, b, c) == a \o (b \o c) = (a \o b) \o c

LEMMA Reassociated ==
  ASSUME NEW X, NEW a \in Seq(X), NEW b \in Seq(X), NEW c \in Seq(X)
  PROVE  Regrouped(a, b, c)
<1>1. a \o (b \o c) = (a \o b) \o c
  OBVIOUS
<1> QED BY <1>1 DEF Regrouped

\* What decoding the first n bytes of packets gives.
LEMMA DecodesWhole ==
  ASSUME NEW packets \in Seq(Packets), NEW n \in Nat, n <= Len(BytesOf(packets)),
         NEW data \in Seq(Nat), Len(data) = n,
         \A k \in 1 .. n : data[k] = BytesOf(packets)[k]
  PROVE  DecodeItm(data) = Whole(packets, n)
<1>1. PICK m \in Nat : m = Len(packets)
  OBVIOUS
<1>2. \A p \in 1 .. m : packets[p] \in Packets
  BY <1>1
<1>3. PICK seqs \in [1 .. m -> Seq(Nat)] : \A p \in 1 .. m : seqs[p] = packets[p].bytes
  <2>1. PICK s : s = [p \in 1 .. m |-> packets[p].bytes]
    OBVIOUS
  <2>2. \A p \in 1 .. m : packets[p].bytes \in Seq(Nat)
    BY <1>2, PacketParts, Zenon
  <2>3. s \in [1 .. m -> Seq(Nat)]
    BY <2>1, <2>2, Zenon
  <2>4. \A p \in 1 .. m : s[p] = packets[p].bytes
    BY <2>1, Zenon
  <2> QED BY <2>3, <2>4, Zenon
<1>4. PICK f : JoinedUp(f, seqs, m, Nat)
  BY SomeJoin
<1>5. f \in [0 .. m -> Seq(Nat)] /\ f[0] = <<>>
  BY <1>4 DEF JoinedUp
<1>6. \A p \in 0 .. m : FlattenSeq([i \in 1 .. p |-> seqs[i]]) = f[p]
  <2> TAKE p \in 0 .. m
  <2>1. FlattensTo(f, seqs, p)
    BY <1>4, FlattenJoins
  <2> QED BY <2>1 DEF FlattensTo
<1>7. ASSUME NEW p \in 0 .. m
      PROVE  BytesOf(SubSeq(packets, 1, p)) = f[p]
  <2>1. PICK s : s = SubSeq(packets, 1, p)
    OBVIOUS
  <2>2. Len(s) = p /\ \A i \in 1 .. p : s[i] = packets[i]
    BY <1>1, <2>1
  <2>3. \A i \in 1 .. p : s[i].bytes = seqs[i]
    <3> TAKE i \in 1 .. p
    <3>1. i \in 1 .. m
      OBVIOUS
    <3>2. s[i] = packets[i] /\ seqs[i] = packets[i].bytes
      BY <1>3, <2>2, <3>1, Zenon
    <3> QED BY <3>2, Zenon
  <2>4. [i \in 1 .. Len(s) |-> s[i].bytes] = [i \in 1 .. p |-> seqs[i]]
    BY <2>2, <2>3, Zenon
  <2>5. BytesOf(s) = FlattenSeq([i \in 1 .. p |-> seqs[i]])
    BY <2>4, Zenon DEF BytesOf
  <2> QED BY <1>6, <2>1, <2>5, Zenon
<1>8. BytesOf(packets) = f[m]
  <2>1. SubSeq(packets, 1, m) = packets
    BY <1>1, SubSeqFull
  <2>2. m \in 0 .. m
    OBVIOUS
  <2> QED BY <1>7, <2>1, <2>2
<1>9. PICK st \in [0 .. m -> Nat] : \A p \in 0 .. m : st[p] = Len(f[p])
  <2>1. PICK s : s = [p \in 0 .. m |-> Len(f[p])]
    OBVIOUS
  <2>2. \A p \in 0 .. m : Len(f[p]) \in Nat
    BY <1>5
  <2>3. s \in [0 .. m -> Nat]
    BY <2>1, <2>2, Zenon
  <2>4. \A p \in 0 .. m : s[p] = Len(f[p])
    BY <2>1, Zenon
  <2> QED BY <2>3, <2>4, Zenon
<1>10. st[0] = 0 /\ n <= st[m]
  <2>1. 0 \in 0 .. m /\ m \in 0 .. m
    OBVIOUS
  <2>2. Len(f[0]) = 0
    BY <1>5
  <2> QED BY <1>8, <1>9, <2>1, <2>2
<1>11. ASSUME NEW p \in 1 .. m
       PROVE  /\ st[p - 1] \in Nat /\ st[p] \in Nat /\ Len(packets[p].bytes) \in Nat
              /\ st[p] = st[p - 1] + Len(packets[p].bytes) /\ Len(packets[p].bytes) >= 1
              /\ \A k \in 1 .. Len(packets[p].bytes) :
                   BytesOf(packets)[st[p - 1] + k] = packets[p].bytes[k]
  <2>1. /\ Len(f[p]) = Len(f[p - 1]) + Len(seqs[p])
        /\ \A k \in 1 .. Len(seqs[p]) : f[m][Len(f[p - 1]) + k] = seqs[p][k]
    <3>1. PartStands(f, seqs, m, p)
      BY <1>4, PartsStand
    <3> QED BY <3>1 DEF PartStands
  <2>2. p - 1 \in 0 .. m /\ p \in 0 .. m
    OBVIOUS
  <2>3. seqs[p] = packets[p].bytes
    BY <1>3
  <2>4. st[p - 1] = Len(f[p - 1]) /\ st[p] = Len(f[p]) /\ st[p - 1] \in Nat /\ st[p] \in Nat
    BY <1>9, <2>2
  <2>5. Len(packets[p].bytes) \in Nat /\ Len(packets[p].bytes) >= 1
    BY <1>2, PacketParts
  <2> QED BY <1>8, <2>1, <2>3, <2>4, <2>5
<1>12. PICK dec : Decoded(dec, data) /\ DecodeItm(data) = dec[1]
  BY DecodeItmIs
<1>13. ASSUME NEW p \in 1 .. m, st[p - 1] < n
       PROVE  ReadsAs(dec, data, st[p - 1], packets[p].bytes, packets[p].means)
  <2>1. Agrees(data, st[p - 1], packets[p].bytes)
    <3> SUFFICES ASSUME NEW k \in 1 .. Len(packets[p].bytes), st[p - 1] + k <= Len(data)
                 PROVE  data[st[p - 1] + k] = packets[p].bytes[k]
      BY DEF Agrees
    <3>1. PICK a \in Nat, l \in Nat : a = st[p - 1] /\ l = Len(packets[p].bytes)
      BY <1>11
    <3>2. k \in 1 .. l /\ a + k <= n
      BY <3>1
    <3>3. a + k \in 1 .. n
      BY <3>2
    <3>4. data[a + k] = BytesOf(packets)[a + k]
      BY <3>3
    <3>5. BytesOf(packets)[a + k] = packets[p].bytes[k]
      BY <1>11, <3>1
    <3> QED BY <3>1, <3>4, <3>5
  <2>2. st[p - 1] \in Nat /\ st[p - 1] < Len(data)
    BY <1>11, <1>13
  <2> QED BY <1>2, <1>12, <2>1, <2>2, PacketRead
<1>14. PICK ws \in [1 .. m -> Seq(Item)] :
         \A p \in 1 .. m : ws[p] = IF st[p] <= n THEN packets[p].means ELSE <<>>
  <2>1. PICK s : s = [p \in 1 .. m |-> IF st[p] <= n THEN packets[p].means ELSE <<>>]
    OBVIOUS
  <2>2. \A p \in 1 .. m : packets[p].means \in Seq(Item)
    BY <1>2, PacketParts
  <2>3. <<>> \in Seq(Item)
    OBVIOUS
  <2>4. \A p \in 1 .. m : s[p] = IF st[p] <= n THEN packets[p].means ELSE <<>>
    BY <2>1, Zenon
  <2>5. \A p \in 1 .. m : s[p] \in Seq(Item)
    BY <2>2, <2>3, <2>4, Zenon
  <2>6. s \in [1 .. m -> Seq(Item)]
    BY <2>1, <2>5, Zenon
  <2> QED BY <2>4, <2>6, Zenon
<1>15. PICK v : JoinedUp(v, ws, m, Item)
  BY SomeJoin
<1>16. /\ v \in [0 .. m -> Seq(Item)] /\ v[0] = <<>>
       /\ \A i \in 1 .. m : v[i] = v[i - 1] \o ws[i]
  BY <1>15 DEF JoinedUp
<1>17. Whole(packets, n) = v[m]
  <2>1. m \in 0 .. m
    OBVIOUS
  <2>2. FlattenSeq([i \in 1 .. m |-> ws[i]]) = v[m]
    <3>1. FlattensTo(v, ws, m)
      BY <1>15, <2>1, FlattenJoins
    <3> QED BY <3>1 DEF FlattensTo
  <2>3. ASSUME NEW p \in 1 .. m
        PROVE  (IF Len(BytesOf(SubSeq(packets, 1, p))) <= n THEN packets[p].means ELSE <<>>) = ws[p]
    <3>1. p \in 0 .. m
      OBVIOUS
    <3> QED BY <1>7, <1>9, <1>14, <3>1
  <2>4. [p \in 1 .. m |-> IF Len(BytesOf(SubSeq(packets, 1, p))) <= n
                          THEN packets[p].means ELSE <<>>]
          = [i \in 1 .. m |-> ws[i]]
    BY <2>3
  <2> QED BY <1>1, <2>2, <2>4 DEF Whole
<1>18. ASSUME NEW x \in 0 .. m, x + 1 \in 0 .. m
       PROVE  st[x] <= st[x + 1]
  <2>1. x + 1 \in 1 .. m /\ (x + 1) - 1 = x
    BY <1>18
  <2>2. PICK a \in Nat, b \in Nat, l \in Nat :
          a = st[x] /\ b = st[x + 1] /\ l = Len(packets[x + 1].bytes)
    BY <1>11, <2>1
  <2>3. b = a + l
    BY <1>11, <2>1, <2>2
  <2> QED BY SMTT(40), <2>2, <2>3
<1>19. \A x, y \in 0 .. m : x <= y => st[x] <= st[y]
  BY <1>18, NeverFalls
\* Up to the last packet that is there whole, decoding gives what they mean.
<1> DEFINE Good(p) == st[p] <= n => Leads(dec, 1, v[p], st[p] + 1)
           T == {p \in 0 .. m : ~Good(p)}
<1>20. T = {}
  <2> SUFFICES ASSUME T # {}
               PROVE  FALSE
    OBVIOUS
  <2>1. PICK p \in T : \A y \in T : p <= y
    <3>1. T \subseteq Nat
      <4> HIDE DEF Good
      <4> QED OBVIOUS
    <3> HIDE DEF T
    <3> QED BY <3>1, LeastNatural
  <2>2. p \in 0 .. m /\ st[p] <= n /\ ~Leads(dec, 1, v[p], st[p] + 1)
    BY <2>1
  <2>3. p # 0
    <3>1. dec[1] \in Seq(Item)
      <4>1. 1 \in 1 .. Len(data) + 1
        OBVIOUS
      <4> QED BY <1>12, <4>1 DEF Decoded
    <3>2. <<>> \o dec[1] = dec[1]
      BY <3>1, ConcatEmptySeq
    <3>3. 0 + 1 = 1
      OBVIOUS
    <3>4. Leads(dec, 1, v[0], st[0] + 1)
      BY <1>10, <1>16, <3>2, <3>3 DEF Leads
    <3> QED BY <2>2, <3>4
  <2>4. p - 1 \in 0 .. m /\ ~(p <= p - 1) /\ p \in 1 .. m
    BY <2>2, <2>3
  <2>5. Good(p - 1)
    <3> HIDE DEF Good
    <3> QED BY <2>1, <2>4
  <2>6. PICK l \in Nat, a \in Nat : l = Len(packets[p].bytes) /\ a = st[p - 1]
    BY <1>11, <2>4
  <2>7. st[p] = a + l /\ l >= 1
    BY <1>11, <2>4, <2>6
  <2>8. a < n /\ a <= n /\ a + l <= n
    <3>1. a + l <= n
      BY <2>2, <2>7
    <3> QED BY <2>7, <3>1
  <2>9. Leads(dec, 1, v[p - 1], a + 1)
    BY <2>5, <2>6, <2>8
  <2>10. ReadsAs(dec, data, a, packets[p].bytes, packets[p].means)
    BY <1>13, <2>4, <2>6, <2>8
  <2>11. Leads(dec, a + 1, packets[p].means, a + l + 1)
    BY <2>6, <2>8, <2>10 DEF ReadsAs
  <2>12. PICK r \in Seq(Item) : r = dec[a + l + 1]
    <3>1. a + l + 1 \in 1 .. Len(data) + 1
      BY <2>8
    <3> QED BY <1>12, <3>1 DEF Decoded
  <2>13. ws[p] = packets[p].means /\ ws[p] \in Seq(Item) /\ v[p - 1] \in Seq(Item)
         /\ v[p] = v[p - 1] \o ws[p]
    <3>1. p \in 1 .. m /\ p - 1 \in 0 .. m /\ st[p] <= n
      BY <2>2, <2>4
    <3>2. ws[p] = packets[p].means
      BY <1>14, <3>1, Zenon
    <3>3. ws[p] \in Seq(Item)
      BY <1>14, <3>1, Zenon
    <3>4. v[p - 1] \in Seq(Item)
      BY <1>16, <3>1, Zenon
    <3>5. v[p] = v[p - 1] \o ws[p]
      BY <1>16, <3>1, Zenon
    <3> QED BY <3>2, <3>3, <3>4, <3>5, Zenon
  <2>14. dec[1] = v[p - 1] \o (ws[p] \o r)
    <3>1. dec[1] = v[p - 1] \o dec[a + 1]
      BY <2>9, Zenon DEF Leads
    <3>2. dec[a + 1] = packets[p].means \o dec[a + l + 1]
      BY <2>11, Zenon DEF Leads
    <3> QED BY <2>12, <2>13, <3>1, <3>2, Zenon
  <2>15. dec[1] = v[p] \o r
    <3>1. PICK x \in Seq(Item), y \in Seq(Item) : x = v[p - 1] /\ y = ws[p]
      BY <2>13
    <3>2. dec[1] = x \o (y \o r) /\ v[p] = x \o y
      BY <2>13, <2>14, <3>1
    <3>3. Regrouped(x, y, r)
      BY Reassociated
    <3> QED BY <3>2, <3>3, Zenon DEF Regrouped
  <2>16. Leads(dec, 1, v[p], st[p] + 1)
    BY <2>7, <2>12, <2>15 DEF Leads
  <2> QED BY <2>2, <2>16
<1> HIDE DEF T
\* The last packet that is there whole.
<1>21. PICK p \in 0 .. m : st[p] <= n /\ \A q \in 0 .. m : st[q] <= n => q <= p
  <2> DEFINE U == {m - q : q \in {q \in 0 .. m : st[q] <= n}}
  <2>1. U \subseteq Nat /\ U # {}
    <3>1. 0 \in {q \in 0 .. m : st[q] <= n}
      BY <1>10
    <3> QED BY <3>1
  <2>2. PICK x \in U : \A y \in U : x <= y
    <3> HIDE DEF U
    <3> QED BY <2>1, LeastNatural
  <2>3. PICK p \in 0 .. m : st[p] <= n /\ x = m - p
    BY <2>2
  <2>4. ASSUME NEW q \in 0 .. m, st[q] <= n
        PROVE  q <= p
    <3>1. m - q \in U
      BY <2>4
    <3>2. m - p <= m - q
      BY <2>2, <2>3, <3>1
    <3> QED BY <3>2
  <2> QED BY <2>3, <2>4
<1>22. dec[st[p] + 1] = <<>>
  <2>1. CASE st[p] = n
    BY <1>12, <2>1 DEF Decoded
  <2>2. CASE st[p] # n
    <3>1. p # m /\ st[p] < n
      BY <1>9, <1>10, <1>21, <2>2
    <3>2. p + 1 \in 1 .. m /\ p + 1 \in 0 .. m /\ (p + 1) - 1 = p
      BY <3>1
    <3>3. ReadsAs(dec, data, st[p], packets[p + 1].bytes, packets[p + 1].means)
      BY <1>13, <3>1, <3>2
    <3>4. ~(st[p + 1] <= n)
      BY <1>21, <3>2
    <3>5. st[p + 1] = st[p] + Len(packets[p + 1].bytes)
      BY <1>11, <3>2
    <3> QED BY <3>3, <3>4, <3>5 DEF ReadsAs
  <2> QED BY <2>1, <2>2
<1>23. dec[1] = v[p]
  <2>1. Good(p)
    <3> HIDE DEF Good
    <3> QED BY <1>20 DEF T
  <2>2. dec[1] = v[p] \o <<>>
    BY <1>21, <1>22, <2>1 DEF Leads
  <2>3. v[p] \in Seq(Item)
    BY <1>16
  <2> QED BY <2>2, <2>3, ConcatEmptySeq
<1> DEFINE S == {q \in p .. m : v[q] # v[p]}
<1>24. S = {}
  <2> SUFFICES ASSUME S # {}
               PROVE  FALSE
    OBVIOUS
  <2>1. PICK q \in S : \A y \in S : q <= y
    <3>1. S \subseteq Nat
      OBVIOUS
    <3> HIDE DEF S
    <3> QED BY <3>1, LeastNatural
  <2>2. q \in p .. m /\ v[q] # v[p]
    BY <2>1
  <2>3. q # p
    BY <2>2
  <2>4. q - 1 \in p .. m /\ ~(q <= q - 1) /\ q \in 1 .. m /\ q \in 0 .. m /\ ~(q <= p)
    BY <2>2, <2>3
  <2>5. v[q - 1] = v[p]
    BY <2>1, <2>4
  <2>6. ws[q] = <<>>
    BY <1>14, <1>21, <2>4
  <2>7. v[q] = v[p] \o <<>> /\ v[p] \in Seq(Item)
    BY <1>16, <2>4, <2>5, <2>6
  <2>8. v[q] = v[p]
    BY <2>7, ConcatEmptySeq
  <2> QED BY <2>2, <2>8
<1>25. v[m] = v[p]
  <2>1. m \in p .. m
    OBVIOUS
  <2> QED BY <1>24, <2>1
<1> QED BY <1>12, <1>17, <1>23, <1>25

------------------------------------------------------------------------------
(* What has arrived lies in what is sent. As long as nothing is lost, what   *)
(* has been read is its beginning: no place of it can be skipped, because    *)
(* the DLL only holds later ones.                                            *)
PacketsInv ==
  kind = "swo" => sent \in Seq(Packets) /\ arrived <= Len(Bytes)

LEMMA BytesAreNatural ==
  ASSUME NEW packets \in Seq(Packets)
  PROVE  BytesOf(packets) \in Seq(Nat)
<1>1. PICK m \in Nat : m = Len(packets)
  OBVIOUS
<1>2. PICK seqs : seqs = [p \in 1 .. m |-> packets[p].bytes]
  OBVIOUS
<1>3. \A p \in 1 .. m : packets[p].bytes \in Seq(Nat)
  <2> TAKE p \in 1 .. m
  <2>1. packets[p] \in Packets
    BY <1>1
  <2> QED BY <2>1, PacketParts
<1>4. seqs \in [1 .. m -> Seq(Nat)]
  BY <1>2, <1>3, Zenon
<1>5. PICK f : JoinedUp(f, seqs, m, Nat)
  BY <1>4, SomeJoin
<1>6. m \in 0 .. m
  OBVIOUS
<1>7. FlattensTo(f, seqs, m)
  BY <1>4, <1>5, <1>6, FlattenJoins
<1>8. f[m] \in Seq(Nat)
  BY <1>5, <1>6 DEF JoinedUp
<1>9. [i \in 1 .. m |-> seqs[i]] = [p \in 1 .. m |-> packets[p].bytes]
  BY <1>2, <1>4, Zenon
<1>10. BytesOf(packets) = FlattenSeq([p \in 1 .. m |-> packets[p].bytes])
  BY <1>1, Zenon DEF BytesOf
<1> QED BY <1>7, <1>8, <1>9, <1>10, Zenon DEF FlattensTo

LEMMA PacketsInvInit == StreamsInit => PacketsInv
<1> SUFFICES ASSUME StreamsInit, kind = "swo"
             PROVE  sent \in Seq(Packets) /\ arrived <= Len(Bytes)
  BY DEF PacketsInv
<1>1. sent \in UNION {[1 .. n -> Packets] : n \in 1 .. MaxPackets} /\ arrived = 0
  BY DEF StreamsInit
<1>2. PICK n \in 1 .. MaxPackets : sent \in [1 .. n -> Packets]
  BY <1>1
<1>3. n \in Nat
  BY StreamsAssumption
<1>4. sent \in Seq(Packets)
  BY <1>2, <1>3, SeqOfFunction
<1>5. Bytes \in Seq(Nat)
  BY <1>4, BytesAreNatural DEF Bytes
<1>6. Len(Bytes) \in Nat
  BY <1>5
<1> QED BY <1>1, <1>4, <1>6

LEMMA PacketsInvNext ==
  ByteInv /\ PacketsInv /\ [StreamsNext]_streamVars => PacketsInv'
<1> SUFFICES ASSUME ByteInv, PacketsInv, [StreamsNext]_streamVars, kind' = "swo"
             PROVE  sent' \in Seq(Packets) /\ arrived' <= Len(Bytes')
  BY SMTT(40) DEF PacketsInv
<1>1. kind' = kind /\ sent' = sent
  BY DEF StreamsNext, streamVars, dataVars, Start, TargetReady, Stop, RttWait,
         RttWaitEnds, Arrive, SwoRead, SwoReadFlush, SwoFlush, SwoFlushed,
         ReadRaises, RttRead, PowerCount, PowerRead, StreamStart,
         StreamLeft, DeadlinePasses, StreamEnds, HssStart, HssStop, HssRead, HssSample,
         TraceSample, TraceFlush, WalkStart, WalkRead, WalkRaises, WalkEnd
<1>2. kind = "swo" /\ sent \in Seq(Packets) /\ arrived <= Len(Bytes) /\ arrived \in Nat
  BY <1>1 DEF PacketsInv, ByteInv, BufferKinds
<1>3. Bytes' = Bytes
  BY <1>1, Zenon DEF Bytes
<1>4. Len(Bytes) \in Nat
  <2>1. Bytes \in Seq(Nat)
    BY <1>2, BytesAreNatural DEF Bytes
  <2> QED BY <2>1
<1>5. CASE Arrive
  BY <1>1, <1>2, <1>3, <1>4, <1>5 DEF Arrive
<1>6. CASE arrived' = arrived
  BY <1>1, <1>2, <1>3, <1>6
<1>7. Arrive \/ arrived' = arrived
  BY <1>2 DEF StreamsNext, streamVars, dataVars, Start, TargetReady, Stop, RttWait,
         RttWaitEnds, SwoRead, SwoReadFlush, SwoFlush, SwoFlushed,
         ReadRaises, RttRead, PowerCount, PowerRead, StreamStart,
         StreamLeft, DeadlinePasses, StreamEnds, HssStart, HssStop, HssRead, HssSample,
         TraceSample, TraceFlush, WalkStart, WalkRead, WalkRaises, WalkEnd
<1> QED BY <1>5, <1>6, <1>7

\* Bytes are taken in order, and none before one that is left behind.
LEMMA ReadFromTheStart ==
  ASSUME NEW taken, NEW have, NEW n \in Nat, Accounted(taken, have, {}, n)
  PROVE  /\ Len(taken) \in Nat /\ Len(taken) <= n
         /\ \A i \in 1 .. Len(taken) : taken[i] = i
<1>1. /\ taken \in Seq(Nat) /\ have \in Seq(Nat)
      /\ \A i, j \in 1 .. Len(taken) : i < j => taken[i] < taken[j]
      /\ \A i \in 1 .. Len(taken), j \in 1 .. Len(have) : taken[i] < have[j]
      /\ \A i \in 1 .. Len(taken) : taken[i] \in 1 .. n
      /\ \A b \in 1 .. n : \/ \E i \in 1 .. Len(taken) : taken[i] = b
                           \/ \E j \in 1 .. Len(have) : have[j] = b
  BY DEF Accounted, Ascending
<1>2. PICK m \in Nat : m = Len(taken)
  BY <1>1
<1> DEFINE T == {i \in 1 .. m : taken[i] # i}
<1>3. T = {}
  <2> SUFFICES ASSUME T # {}
               PROVE  FALSE
    OBVIOUS
  <2>1. PICK i \in T : \A y \in T : i <= y
    <3>1. T \subseteq Nat
      OBVIOUS
    <3> HIDE DEF T
    <3> QED BY <3>1, LeastNatural
  <2>2. i \in 1 .. m /\ taken[i] # i
    BY <2>1
  <2>3. PICK x \in 1 .. n : x = taken[i]
    BY <1>1, <1>2, <2>2
  <2>4. i < x
    <3>1. CASE i = 1
      BY <2>2, <2>3, <3>1
    <3>2. CASE i # 1
      <4>1. i - 1 \in 1 .. m /\ ~(i <= i - 1) /\ i - 1 < i
        BY <2>2, <3>2
      <4>2. taken[i - 1] = i - 1
        BY <2>1, <4>1
      <4>3. taken[i - 1] < taken[i]
        BY <1>1, <1>2, <2>2, <4>1
      <4> QED BY <2>2, <2>3, <4>2, <4>3
    <3> QED BY <3>1, <3>2
  <2>5. i \in 1 .. n
    BY <2>2, <2>3, <2>4
  <2>6. ASSUME NEW j \in 1 .. m, taken[j] = i
        PROVE  FALSE
    <3>1. CASE j < i
      <4>1. taken[j] = j
        BY <2>1, <2>2, <3>1
      <4> QED BY <2>6, <3>1, <4>1
    <3>2. CASE j = i
      BY <2>2, <2>6, <3>2
    <3>3. CASE i < j
      <4>1. taken[i] < taken[j]
        BY <1>1, <1>2, <2>2, <3>3
      <4> QED BY <2>2, <2>3, <2>4, <2>6, <4>1
    <3> QED BY <2>2, <3>1, <3>2, <3>3
  <2>7. ASSUME NEW j \in 1 .. Len(have), have[j] = i
        PROVE  FALSE
    <3>1. taken[i] < have[j]
      BY <1>1, <1>2, <2>2
    <3> QED BY <2>2, <2>3, <2>4, <2>7, <3>1
  <2> QED BY <1>1, <1>2, <2>5, <2>6, <2>7
<1>4. \A i \in 1 .. m : taken[i] = i
  BY <1>3
<1>5. m <= n
  <2>1. CASE m = 0
    BY <2>1
  <2>2. CASE m # 0
    <3>1. m \in 1 .. m
      BY <2>2
    <3>2. taken[m] = m /\ taken[m] \in 1 .. n
      BY <1>1, <1>2, <1>4, <3>1
    <3> QED BY <3>2
  <2> QED BY <2>1, <2>2
<1> QED BY <1>2, <1>4, <1>5

LEMMA PacketsAsSent == ByteInv /\ PacketsInv => PacketsDecoded
<1> SUFFICES ASSUME ByteInv, PacketsInv, kind = "swo", gone = {}
             PROVE  DecodeItm([i \in 1 .. Len(got) |-> Bytes[got[i]]]) = Whole(sent, Len(got))
  BY DEF PacketsDecoded
<1>1. /\ arrived \in Nat /\ Accounted(got, buffer, {}, arrived)
      /\ sent \in Seq(Packets) /\ arrived <= Len(Bytes)
  BY DEF ByteInv, BufferKinds, PacketsInv
<1>2. PICK n \in Nat : n = Len(got) /\ n <= arrived /\ \A i \in 1 .. n : got[i] = i
  <2>1. /\ Len(got) \in Nat /\ Len(got) <= arrived
        /\ \A i \in 1 .. Len(got) : got[i] = i
    BY <1>1, ReadFromTheStart
  <2> QED BY <2>1, Zenon
<1>3. Bytes \in Seq(Nat)
  BY <1>1, BytesAreNatural DEF Bytes
<1>4. n <= Len(Bytes)
  BY <1>1, <1>2, <1>3
<1>5. PICK data : data = [i \in 1 .. n |-> Bytes[got[i]]]
  OBVIOUS
<1>6. \A i \in 1 .. n : data[i] = Bytes[i] /\ Bytes[i] \in Nat
  <2> TAKE i \in 1 .. n
  <2>1. i \in 1 .. Len(Bytes)
    BY <1>3, <1>4
  <2>2. data[i] = Bytes[got[i]] /\ got[i] = i
    BY <1>2, <1>5, Zenon
  <2> QED BY <1>3, <2>1, <2>2
<1>7. data \in [1 .. n -> Nat]
  <2>1. \A i \in 1 .. n : Bytes[got[i]] \in Nat
    BY <1>2, <1>6, Zenon
  <2> QED BY <1>5, <2>1, Zenon
<1>8. data \in Seq(Nat) /\ Len(data) = n
  BY <1>7, SeqOfFunction
<1>9. n <= Len(BytesOf(sent)) /\ \A k \in 1 .. n : data[k] = BytesOf(sent)[k]
  BY <1>4, <1>6 DEF Bytes
<1>10. DecodeItm(data) = Whole(sent, n)
  BY <1>1, <1>8, <1>9, DecodesWhole
<1> QED BY <1>2, <1>5, <1>10, Zenon

------------------------------------------------------------------------------
LEMMA ProbeStreams ==
  /\ ProbeInit => StreamsInit
  /\ [ProbeNext]_probeVars => [StreamsNext]_streamVars
BY DEF ProbeInit, ProbeNext, probeVars, LinkStep, StreamStep, TimeStep

(* Whatever arrives between the calls of a read of SWO, RTT or power trace,  *)
(* each byte is returned once and in order, is still with the DLL, or was    *)
(* lost or flushed there (swo.py:141, rtt.py:134, powertrace.py:83).         *)
THEOREM BytesReadOnce == ProbeSpec => []EachByteOnce
<1>1. ProbeInit => ByteInv
  BY ProbeStreams, ByteInvInit
<1>2. ByteInv /\ [ProbeNext]_probeVars => ByteInv'
  BY ProbeStreams, ByteInvNext
<1>3. ByteInv => EachByteOnce
  BY BytesAccounted
<1> QED BY <1>1, <1>2, <1>3, PTL DEF ProbeSpec

(* read_all() returns the TRACE buffer from its first sample on, however the *)
(* DLL cuts what it is asked for, unless samples fall out meanwhile          *)
(* (tracebuf.py:191).                                                        *)
THEOREM WalkReturnsAPrefix == ProbeSpec => []WalkIsPrefix
<1>1. ProbeInit => WalkInv
  BY ProbeStreams, WalkInvInit
<1>2. WalkInv /\ [ProbeNext]_probeVars => WalkInv'
  BY ProbeStreams, WalkInvNext
<1>3. WalkInv => WalkIsPrefix
  BY WalksAPrefix
<1> QED BY <1>1, <1>2, <1>3, PTL DEF ProbeSpec

(* For blocks of any number and sizes (not all empty), with stamps or        *)
(* without, samples that come in any pieces, and restarts with other blocks  *)
(* by any objects: of the only reader, which has started the sampling, each  *)
(* read that begins with a sample decodes samples as they were taken, one    *)
(* after the other. Of the reads that follow one which ended in a piece of a *)
(* sample, and so begin inside one, nothing is claimed (hss.py:99-124).      *)
THEOREM SamplesTakenWhole == ProbeSpec => []SamplesDecodeAsTaken
<1>1. ProbeInit => SamplesInv
  BY ProbeStreams, SamplesInvInit
<1>2. SamplesInv /\ [ProbeNext]_probeVars => SamplesInv'
  BY ProbeStreams, SamplesInvNext
<1>3. SamplesInv => SamplesDecodeAsTaken
  BY SamplesAsTaken
<1> QED BY <1>1, <1>2, <1>3, PTL DEF ProbeSpec

(* Of a stream that is ITM packets of every form, in any order, and not in   *)
(* the TPIU's frames, as the comment on read() has it (swo.py:142): wherever *)
(* the reads have cut the stream, and whatever lies in a packet, decoding    *)
(* what has been read gives the stimulus packets that lie in it whole, as    *)
(* long as nothing was lost (swo.py:183-229).                                *)
THEOREM PacketsReadWhole == ProbeSpec => []PacketsDecoded
<1>1. ProbeInit => ByteInv /\ PacketsInv
  BY ProbeStreams, ByteInvInit, PacketsInvInit
<1>2. ByteInv /\ PacketsInv /\ [ProbeNext]_probeVars => ByteInv' /\ PacketsInv'
  BY ProbeStreams, ByteInvNext, PacketsInvNext
<1>3. ByteInv /\ PacketsInv => PacketsDecoded
  BY PacketsAsSent
<1> QED BY <1>1, <1>2, <1>3, PTL DEF ProbeSpec

LEMMA ProbeTimes ==
  /\ ProbeInit => TimeInit
  /\ [ProbeNext]_probeVars => [TimeNext]_timeVars
BY DEF ProbeInit, ProbeNext, probeVars, LinkStep, StreamStep, TimeStep

(* Wherever stamps lie in a window, and whichever way round the probe hands  *)
(* windows out, each stamp stays with the instruction it was taken of, in    *)
(* blocks that grow, shrink from the front and are cut (builder.py:54).      *)
THEOREM StampsStayPut == ProbeSpec => []StampsStayWithInstructions
<1>1. ProbeInit => TimeInv
  BY ProbeTimes, TimeInvInit
<1>2. TimeInv /\ [ProbeNext]_probeVars => TimeInv'
  BY ProbeTimes, TimeInvNext
<1>3. TimeInv => StampsStayWithInstructions
  BY StampsStay
<1> QED BY <1>1, <1>2, <1>3, PTL DEF ProbeSpec

(* The cycle of a stamped instruction is the one it ran in; one interpolated *)
(* lies between two stamps of its own window around it, and looking it up    *)
(* leads back to its block, to no later an instruction (timeline.py:22).     *)
THEOREM TimeToldHonestly == ProbeSpec => []TimeHonest
<1>1. ProbeInit => TimeInv
  BY ProbeTimes, TimeInvInit
<1>2. TimeInv /\ [ProbeNext]_probeVars => TimeInv'
  BY ProbeTimes, TimeInvNext
<1>3. TimeInv => TimeHonest
  BY TimesAreHonest
<1> QED BY <1>1, <1>2, <1>3, PTL DEF ProbeSpec
==============================================================================
