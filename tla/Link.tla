-------------------------------- MODULE Link --------------------------------
(* The handles of link.py in one process: opening, connecting and closing    *)
(* them, run control and halted(), breakpoints and the register cache.       *)
(*                                                                           *)
(* One script drives the probe, so a call is a step unless something can get *)
(* in between: the core (a breakpoint stops it), the clock (a deadline       *)
(* passes) or Ctrl-C, which is raised once the call into the DLL that is     *)
(* under way has returned, with its effect. The DLL holds one probe,         *)
(* whichever handle is used: a method that does not ask whether its handle   *)
(* is open drives that probe.                                                *)
EXTENDS Naturals, Sequences

CONSTANTS
  Handles,   \* JLink objects; a name is free again once its object is dropped
  Devices,   \* device names connect() may be given
  Points,    \* handles the DLL gives to breakpoints and watchpoints
  MaxNest,   \* bound: halted() blocks inside one another
  None

ASSUME LinkAssumption == None \notin Handles \union Devices

VARIABLES
  openInstance,  \* JLink._open_instance
  opened,        \* [Handles -> BOOLEAN]: _opened
  device,        \* [Handles -> Devices or None]: _device
  listed,        \* [Handles -> Devices or None]: device of _register_cache
  tried,         \* [Handles -> SUBSET Devices]: devices it has asked for
  held,          \* handles the script has a reference to
  cut,           \* history: "opening" or "closing", if the last of them was cut
                 \* short between the DLL and openInstance, else "none"
  probeOpen,     \* the DLL has the probe open
  attached,      \* the device the DLL is attached to
  core,          \* "running" or "halted"
  points,        \* breakpoints and watchpoints the DLL has armed
  nest,          \* was_running of the halted() blocks entered, outermost first
  call           \* the call in progress, when others can step in between

handleVars == <<openInstance, opened, device, listed, tried, held, cut>>
coreVars == <<core, points, nest>>
linkVars == <<handleVars, probeOpen, attached, coreVars, call>>

Idle == [op |-> "idle"]
Connecting(h, d, opening) ==
  [op |-> "connecting", by |-> h, to |-> d, opening |-> opening]

LinkInit ==
  /\ openInstance = None
  /\ opened = [h \in Handles |-> FALSE]
  /\ device = [h \in Handles |-> None]
  /\ listed = [h \in Handles |-> None]
  /\ tried = [h \in Handles |-> {}]
  /\ held = {}
  /\ cut = "none"
  /\ probeOpen = FALSE
  /\ attached = None
  /\ core \in {"running", "halted"}
  /\ points = {}
  /\ nest = <<>>
  /\ call = Idle

------------------------------------------------------------------------------
(* Handles. A constructor that is refused, or whose OpenEx fails, raises     *)
(* before it has changed anything.                                           *)

MayOpen(h) == openInstance = None

\* Mutant: the register list is kept with the class.
FreshListShared(h) == listed[h]

FreshList(h) == None

OpenHandle(h) ==
  /\ call = Idle /\ nest = <<>> /\ h \notin held /\ ~opened[h]
  /\ MayOpen(h)
  /\ probeOpen' = TRUE
  /\ opened' = [opened EXCEPT ![h] = TRUE]
  /\ openInstance' = h
  /\ cut' = "none"
  /\ listed' = [listed EXCEPT ![h] = FreshList(h)]
  /\ tried' = [tried EXCEPT ![h] = {}]
  /\ \E d \in Devices \union {None} :
       /\ device' = [device EXCEPT ![h] = d]
       /\ \/ call' = Idle /\ held' = held \union {h}    \* connect=False, or no device
          \/ call' = Idle /\ held' = held               \* Ctrl-C, before the script has it
          \/ d # None /\ call' = Connecting(h, d, TRUE) /\ held' = held
  /\ UNCHANGED <<attached, coreVars>>

\* Ctrl-C when OpenEx has returned: the new object is dropped, and nobody knows
\* that the probe is open.
OpenInterrupted(h) ==
  /\ call = Idle /\ nest = <<>> /\ h \notin held /\ ~opened[h]
  /\ MayOpen(h)
  /\ probeOpen' = TRUE
  /\ cut' = "opening"
  /\ UNCHANGED <<openInstance, opened, device, listed, tried, held, attached,
                 coreVars, call>>

\* connect() on a handle that is open; a closed one is refused by _require_open.
ConnectTo(h) ==
  /\ call = Idle /\ h \in held /\ opened[h]
  /\ \E d \in Devices : call' = Connecting(h, d, FALSE)
  /\ UNCHANGED <<handleVars, probeOpen, attached, coreVars>>

\* Connecting needs a probe that is open, which the handle only thinks it has
\* after a close() cut short.
Connected ==
  /\ call.op = "connecting" /\ probeOpen
  /\ device' = [device EXCEPT ![call.by] = call.to]
  /\ tried' = [tried EXCEPT ![call.by] = @ \union {call.to}]
  /\ held' = held \union {call.by}
  /\ attached' = call.to
  /\ call' = Idle
  /\ UNCHANGED <<openInstance, opened, listed, cut, probeOpen, coreVars>>

\* What close() does with a handle that is open.
HandBack(h) ==
  /\ probeOpen' = FALSE
  /\ attached' = None
  /\ points' = {}
  /\ opened' = [opened EXCEPT ![h] = FALSE]
  /\ openInstance' = IF openInstance = h THEN None ELSE openInstance
  /\ cut' = "none"

\* Ctrl-C in close() when JLINKARM_Close has returned, or when _opened has been
\* cleared too.
HandBackCut(h) ==
  /\ probeOpen' = FALSE
  /\ attached' = None
  /\ points' = {}
  /\ opened' \in {opened, [opened EXCEPT ![h] = FALSE]}
  /\ openInstance' = openInstance
  /\ cut' = "closing"

\* The device is unknown, or the core does not answer. _device is set between
\* the two, and a device that was attached may be lost.
ConnectRaises ==
  /\ call.op = "connecting"
  /\ device' \in {device, [device EXCEPT ![call.by] = call.to]}
  /\ tried' = [tried EXCEPT ![call.by] = @ \union {call.to}]
  /\ call' = Idle
  /\ IF call.opening
     THEN HandBack(call.by) \/ HandBackCut(call.by)
     ELSE attached' \in {attached, None}
          /\ UNCHANGED <<probeOpen, points, opened, openInstance, cut>>
  /\ UNCHANGED <<listed, held, core, nest>>

\* Ctrl-C while connecting is no Exception: __init__ does not close, and the
\* script has no handle to close.
ConnectInterrupted ==
  /\ call.op = "connecting"
  /\ device' \in {device, [device EXCEPT ![call.by] = call.to]}
  /\ tried' = [tried EXCEPT ![call.by] = @ \union {call.to}]
  /\ attached' \in {attached, None} \union (IF probeOpen THEN {call.to} ELSE {})
  /\ call' = Idle
  /\ UNCHANGED <<openInstance, opened, listed, held, cut, probeOpen, coreVars>>

\* Mutant: close() does not look whether its handle is open.
AlreadyClosedNever(h) == FALSE

AlreadyClosed(h) == ~opened[h]

Close(h) ==
  /\ IF AlreadyClosed(h)
     THEN UNCHANGED <<probeOpen, attached, points, opened, openInstance, cut>>
     ELSE HandBack(h)
  /\ UNCHANGED <<device, listed, tried, held, core, nest, call>>

CloseHandle(h) ==
  /\ call = Idle /\ nest = <<>> /\ h \in held
  /\ Close(h)

CloseOpenLink ==
  /\ call = Idle /\ nest = <<>> /\ openInstance # None
  /\ Close(openInstance)

\* Either of the two, cut short.
CloseInterrupted(h) ==
  /\ call = Idle /\ nest = <<>> /\ (h \in held \/ h = openInstance)
  /\ ~AlreadyClosed(h)
  /\ HandBackCut(h)
  /\ UNCHANGED <<device, listed, tried, held, core, nest, call>>

Forget(h) ==
  /\ call = Idle /\ nest = <<>> /\ h \in held /\ ~opened[h]
  /\ held' = held \ {h}
  /\ UNCHANGED <<openInstance, opened, device, listed, tried, cut, probeOpen,
                 attached, coreVars, call>>

------------------------------------------------------------------------------
(* Run control, by whichever handle: only the attached device matters. Calls *)
(* the DLL refuses raise and change nothing.                                 *)

Driven == call = Idle /\ held # {} /\ attached # None

Halt ==
  /\ Driven /\ core' = "halted"
  /\ UNCHANGED <<handleVars, probeOpen, attached, points, nest, call>>

\* A body of halted() that resumes the core itself is not considered.
Go ==
  /\ Driven /\ nest = <<>> /\ core' = "running"
  /\ UNCHANGED <<handleVars, probeOpen, attached, points, nest, call>>

Reset ==
  /\ Driven /\ core' \in {"halted", "running"}
  /\ nest # <<>> => core' = "halted"
  /\ UNCHANGED <<handleVars, probeOpen, attached, points, nest, call>>

\* halted(): look, then halt, with the core free to stop in between.
HaltedLook ==
  /\ Driven /\ Len(nest) < MaxNest
  /\ IF core = "running"
     THEN call' = [op |-> "halting"] /\ nest' = nest
     ELSE call' = call /\ nest' = Append(nest, FALSE)
  /\ UNCHANGED <<handleVars, probeOpen, attached, core, points>>

HaltedHalt ==
  /\ call.op = "halting"
  /\ core' = "halted"
  /\ nest' = Append(nest, TRUE)
  /\ call' = Idle
  /\ UNCHANGED <<handleVars, probeOpen, attached, points>>

HaltedRaises ==
  /\ call.op = "halting"
  /\ call' = Idle
  /\ UNCHANGED <<handleVars, probeOpen, attached, coreVars>>

\* Mutant: halted() always resumes.
ResumesAlways(wasRunning) == TRUE

Resumes(wasRunning) == wasRunning

\* The block ends, by its end or by an exception.
HaltedExit ==
  /\ call = Idle /\ nest # <<>>
  /\ core' = IF Resumes(nest[Len(nest)]) THEN "running" ELSE core
  /\ nest' = SubSeq(nest, 1, Len(nest) - 1)
  /\ UNCHANGED <<handleVars, probeOpen, attached, points, call>>

\* wait_for_halt(): poll until the core is seen halted or the deadline passes.
WaitForHalt ==
  /\ Driven
  /\ call' = [op |-> "waiting", late |-> FALSE]
  /\ UNCHANGED <<handleVars, probeOpen, attached, coreVars>>

\* Mutant: the deadline is computed anew in every turn.
GivesUpNever(late) == FALSE

GivesUp(late) == late

WaitEnds ==
  /\ call.op = "waiting"
  /\ GivesUp(call.late) \/ core = "halted"
  /\ call' = Idle
  /\ UNCHANGED <<handleVars, probeOpen, attached, coreVars>>

\* It has seen the core running, and sleeps.
WaitPolls ==
  /\ call.op = "waiting" /\ ~GivesUp(call.late) /\ core = "running"
  /\ UNCHANGED linkVars

WaitDeadline ==
  /\ call.op = "waiting" /\ ~call.late
  /\ call' = [op |-> "waiting", late |-> TRUE]
  /\ UNCHANGED <<handleVars, probeOpen, attached, coreVars>>

------------------------------------------------------------------------------
(* Breakpoints, watchpoints and the register list.                           *)

SetBreakpoint(p) ==
  /\ Driven /\ p \notin points /\ points' = points \union {p}
  /\ UNCHANGED <<handleVars, probeOpen, attached, core, nest, call>>

ClearBreakpoint(p) ==
  /\ Driven /\ p \in points /\ points' = points \ {p}
  /\ UNCHANGED <<handleVars, probeOpen, attached, core, nest, call>>

ClearAllBreakpoints ==
  /\ Driven /\ points' = {}
  /\ UNCHANGED <<handleVars, probeOpen, attached, core, nest, call>>

\* The target, at any time: the core runs into one of them.
Stops ==
  /\ core = "running" /\ points # {} /\ attached # None
  /\ core' = "halted"
  /\ UNCHANGED <<handleVars, probeOpen, attached, points, nest, call>>

\* registers(), and every lookup of a register by name: asked for once.
Registers(h) ==
  /\ Driven /\ h \in held /\ listed[h] = None
  /\ listed' = [listed EXCEPT ![h] = attached]
  /\ UNCHANGED <<openInstance, opened, device, tried, held, cut, probeOpen,
                 attached, coreVars, call>>

LinkNext ==
  \/ \E h \in Handles : \/ OpenHandle(h) \/ ConnectTo(h) \/ CloseHandle(h)
                        \/ Forget(h) \/ Registers(h)
                        \/ OpenInterrupted(h) \/ CloseInterrupted(h)
  \/ Connected \/ ConnectRaises \/ ConnectInterrupted \/ CloseOpenLink
  \/ Halt \/ Go \/ Reset \/ HaltedLook \/ HaltedHalt \/ HaltedRaises
  \/ HaltedExit \/ WaitForHalt \/ WaitPolls \/ WaitEnds \/ WaitDeadline
  \/ \E p \in Points : SetBreakpoint(p) \/ ClearBreakpoint(p)
  \/ ClearAllBreakpoints \/ Stops

LinkSpec == LinkInit /\ [][LinkNext]_linkVars

------------------------------------------------------------------------------
(* The process can hand the probe back, whatever failed or was closed twice: *)
(* an open handle is the one close_open_link() closes; an open probe has     *)
(* such a handle, unless Ctrl-C came between OpenEx and _open_instance; and  *)
(* a handle that keeps others from opening is open and has the probe, unless *)
(* Ctrl-C came between JLINKARM_Close and _open_instance. Either exception   *)
(* ends with the next opening or closing that runs to its end, and no handle *)
(* closes the probe of another (link.py:132-150, 169-180, 776-788).          *)
HandleHoldsProbe ==
  /\ \A h \in Handles : opened[h] => openInstance = h
  /\ probeOpen /\ cut # "opening" => openInstance # None /\ opened[openInstance]
  /\ openInstance # None /\ cut # "closing" => probeOpen /\ opened[openInstance]

(* A handle that has asked for one device only names registers by the list   *)
(* of the device the DLL is attached to, however often handles were closed   *)
(* and opened before (link.py:529).                                          *)
RegistersOfDevice ==
  \A h \in Handles :
    opened[h] /\ listed[h] # None /\ attached # None
      => attached = listed[h] \/ \E d \in tried[h] : d # attached

(* Inside halted() the core is halted, in every block of a nest and after    *)
(* the inner ones have ended (link.py:430).                                  *)
BodyRunsHalted == nest # <<>> => core = "halted"
==============================================================================
