------------------------------- MODULE Probe --------------------------------
(* What a script does with a J-Link outside a capture: the handles and run   *)
(* control (Link), one of the readers of an open probe (Streams), or windows *)
(* with cycle stamps and the time axis built of them (Timeline). In the code *)
(* the three share the handle's library and no state, so a behaviour is      *)
(* about one of them and loses nothing by it.                                *)
EXTENDS Streams, Timeline

VARIABLE about

probeVars == <<linkVars, streamVars, timeVars, about>>

ProbeInit ==
  /\ about \in {"link", "streams", "timeline"}
  /\ LinkInit /\ StreamsInit /\ TimeInit
  /\ about # "link" => core = "running"
  /\ about # "streams" => kind = "trace"
  /\ about # "timeline" => newestFirst

LinkStep == about = "link" /\ UNCHANGED <<streamVars, timeVars, about>>
StreamStep == about = "streams" /\ UNCHANGED <<linkVars, timeVars, about>>
TimeStep == about = "timeline" /\ UNCHANGED <<linkVars, streamVars, about>>

ProbeNext ==
  \/ LinkStep /\ LinkNext
  \/ StreamStep /\ StreamsNext
  \/ TimeStep /\ TimeNext

(* Time passes, a loop that polls goes on polling, and a read that has       *)
(* copied goes on to flush. stream() is a generator, so that its loop goes   *)
(* on is an assumption about the script: it takes the next item, if it does  *)
(* not leave the loop (StreamLeft, of which no fairness is assumed). Nothing *)
(* is assumed of the core, of what arrives, or otherwise of the script.      *)
ProbeFairness ==
  /\ WF_probeVars((WaitDeadline \/ WaitEnds) /\ LinkStep)
  /\ WF_probeVars((DeadlinePasses \/ StreamEnds \/ RttWaitEnds) /\ StreamStep)
  /\ WF_probeVars(SwoReadFlush /\ StreamStep)

ProbeSpec == ProbeInit /\ [][ProbeNext]_probeVars /\ ProbeFairness

(* wait_for_halt(), wait_until_running() and a stream() that was given a     *)
(* duration end, whether or not the core halts or RTT comes up, and however  *)
(* much there is to read (link.py:416, rtt.py:81, swo.py:167): a stream()    *)
(* that the script goes on iterating. Rtt.stream() by default has no         *)
(* duration (rtt.py:155-161) and ends only if the script leaves it.          *)
CallsReturn ==
  /\ call.op = "waiting" ~> call.op # "waiting"
  /\ deadline = "ahead" ~> deadline = "none"
==============================================================================
