-------------------------------- MODULE Sessions --------------------------------
(***************************************************************************)
(* The files of jtrace/artifacts.py: processes that write trace sessions   *)
(* and coverage reports, each dying wherever it likes, beside a viewer     *)
(* that lists and reads what is there at any moment.  Nothing locks        *)
(* anything; what a viewer sees is decided by the order of the writes.     *)
(*                                                                         *)
(* A file is written by opening it, which empties it, and filling it: it   *)
(* is absent, torn, or whole and of one generation, the number of the      *)
(* write it comes from.  A directory is a session or a report; the id is   *)
(* made fresh or is given by the caller, who may give it twice.            *)
(***************************************************************************)
EXTENDS Integers, Sequences, FiniteSets

CONSTANTS
  TraceIds, ReportIds,   \* directories of sessions, and of reports
  Writers,
  MaxWrites              \* bound: writes begun

ASSUME SessionsAssumption == TraceIds \cap ReportIds = {} /\ MaxWrites \in Nat

Ids == TraceIds \cup ReportIds
Files == {"instructions", "sidecar", "index", "events", "stream", "snapshot", "report"}

Absent == 0
Torn == -1

VARIABLES
  disk,       \* for each id and file: Absent, Torn, or a generation
  writing,    \* for each writer: a write in progress, or {}
  writes,     \* writes begun, the generation of the last
  viewer,     \* what the viewer is doing
  \* history
  begun,      \* for each id, how often its writing was begun
  returned    \* the ids whose writing has returned

sessionVars == <<disk, writing, writes, viewer, begun, returned>>

IdleViewer ==
  [at |-> "idle", kind |-> {}, there |-> {}, visited |-> {}, out |-> {}, owed |-> {}]

SessionInit ==
  /\ disk = [id \in Ids |-> [f \in Files |-> Absent]]
  /\ writing = [w \in Writers |-> {}]
  /\ writes = 0
  /\ viewer = IdleViewer
  /\ begun = [id \in Ids |-> 0]
  /\ returned = {}

-------------------------------------------------------------------------------
(***************************************************************************)
(* write_trace_session and write_coverage_report                           *)
(***************************************************************************)

\* Mutant: the sidecar first, as the other small files could be.
OrderSidecarFirst(snapshot) ==
  <<"sidecar", "instructions", "index", "events", "stream">>
    \o (IF snapshot THEN <<"snapshot">> ELSE <<>>)

\* The order in which the files appear: of a session, which may be written
\* without a store,
SessionOrder(snapshot) ==
  IF snapshot
  THEN <<"instructions", "sidecar", "index", "events", "stream", "snapshot">>
  ELSE <<"instructions", "sidecar", "index", "events", "stream">>

\* and of a report.
ReportOrder == <<"report">>

Write(id, generation, left, open) ==
  [id |-> id, generation |-> generation, left |-> left, open |-> open]

BeginWrite(w, id, order) ==
  /\ writing[w] = {}
  /\ writes < MaxWrites
  /\ writes' = writes + 1
  /\ writing' = [writing EXCEPT ![w] = {Write(id, writes + 1, order, FALSE)}]
  /\ begun' = [begun EXCEPT ![id] = @ + 1]
  /\ UNCHANGED <<disk, viewer, returned>>

\* A capture is over and has instructions: an empty one, or one that failed,
\* raises an error before it comes here.
Begin(w, id, snapshot) == id \in TraceIds /\ BeginWrite(w, id, SessionOrder(snapshot))

BeginReport(w, id) == id \in ReportIds /\ BeginWrite(w, id, ReportOrder)

\* The next file is opened,
OpenFile(w) ==
  /\ \E write \in writing[w] :
       /\ write.left # <<>>
       /\ ~write.open
       /\ disk' = [disk EXCEPT ![write.id][Head(write.left)] = Torn]
       /\ writing' = [writing EXCEPT ![w] =
            {Write(write.id, write.generation, write.left, TRUE)}]
  /\ UNCHANGED <<writes, viewer, begun, returned>>

\* and filled and closed: of instructions.json row by row, but nobody can tell
\* how far a torn file goes.
FillFile(w) ==
  /\ \E write \in writing[w] :
       /\ write.open
       /\ disk' = [disk EXCEPT ![write.id][Head(write.left)] = write.generation]
       /\ writing' = [writing EXCEPT ![w] =
            {Write(write.id, write.generation, Tail(write.left), FALSE)}]
  /\ UNCHANGED <<writes, viewer, begun, returned>>

WriteReturns(w) ==
  /\ \E write \in writing[w] : write.left = <<>> /\ returned' = returned \cup {write.id}
  /\ writing' = [writing EXCEPT ![w] = {}]
  /\ UNCHANGED <<disk, writes, viewer, begun>>

\* The process dies, or a row or the file system raises an error.
Die(w) ==
  /\ writing[w] # {}
  /\ writing' = [writing EXCEPT ![w] = {}]
  /\ UNCHANGED <<disk, writes, viewer, begun, returned>>

-------------------------------------------------------------------------------
(***************************************************************************)
(* list_trace_sessions, list_coverage_reports, read_trace_session          *)
(***************************************************************************)

\* owed is history: what had been written when the listing began.
StartListing(kind) ==
  /\ viewer.at = "idle"
  /\ viewer' = [at |-> "listing", kind |-> kind, visited |-> {}, out |-> {},
                there |-> {id \in kind : begun[id] > 0},
                owed |-> returned \cap kind]
  /\ UNCHANGED <<disk, writing, writes, begun, returned>>

\* The listing goes on.
Listing(at, visited, out) ==
  [at |-> at, kind |-> viewer.kind, there |-> viewer.there, visited |-> visited,
   out |-> out, owed |-> viewer.owed]

Shown(id) == IF id \in ReportIds THEN disk[id]["report"] ELSE disk[id]["sidecar"]

\* Mutant: one file that cannot be parsed ends the listing.
ListEntryOrStop(id) ==
  /\ viewer.at = "listing"
  /\ id \in viewer.kind \ viewer.visited
  /\ viewer' = IF Shown(id) = Torn THEN Listing("listing", viewer.kind, viewer.out)
               ELSE Listing("listing", viewer.visited \cup {id},
                 IF Shown(id) = Absent THEN viewer.out ELSE viewer.out \cup {id})
  /\ UNCHANGED <<disk, writing, writes, begun, returned>>

\* Of a directory without the file, or with one that cannot be parsed, nothing
\* is listed.
ListEntry(id) ==
  /\ viewer.at = "listing"
  /\ id \in viewer.kind \ viewer.visited
  /\ viewer' = Listing("listing", viewer.visited \cup {id},
       IF Shown(id) \in {Absent, Torn} THEN viewer.out ELSE viewer.out \cup {id})
  /\ UNCHANGED <<disk, writing, writes, begun, returned>>

ListReport(id) == id \in ReportIds /\ ListEntry(id)
ListSession(id) == id \in TraceIds /\ ListEntry(id)

\* A directory that appears during the listing may be passed over.
EndListing ==
  /\ viewer.at = "listing"
  /\ viewer.there \subseteq viewer.visited
  /\ viewer' = Listing("listed", viewer.visited, viewer.out)
  /\ UNCHANGED <<disk, writing, writes, begun, returned>>

\* read_trace_session looks at the sidecar
ReadSidecar(id) ==
  /\ viewer.at \in {"idle", "listed"}
  /\ id \in TraceIds
  /\ viewer' = [at |-> CASE Shown(id) = Absent -> "none"
                         [] Shown(id) = Torn -> "raised"
                         [] OTHER -> "reading",
                id |-> id, known |-> viewer.at = "listed" /\ id \in viewer.out,
                sidecar |-> Shown(id)]
  /\ UNCHANGED <<disk, writing, writes, begun, returned>>

\* and then at the payload.
ReadPayload ==
  /\ viewer.at = "reading"
  /\ LET payload == disk[viewer.id]["instructions"]
     IN  viewer' = [at |-> IF payload = Torn THEN "raised" ELSE "read",
                    id |-> viewer.id, known |-> viewer.known,
                    sidecar |-> viewer.sidecar, instructions |-> payload]
  /\ UNCHANGED <<disk, writing, writes, begun, returned>>

Leave ==
  /\ viewer.at \in {"listed", "none", "raised", "read"}
  /\ viewer' = IdleViewer
  /\ UNCHANGED <<disk, writing, writes, begun, returned>>

SessionNext ==
  \/ \E w \in Writers :
       \/ \E id \in TraceIds, snapshot \in BOOLEAN : Begin(w, id, snapshot)
       \/ \E id \in ReportIds : BeginReport(w, id)
       \/ OpenFile(w) \/ FillFile(w) \/ WriteReturns(w) \/ Die(w)
  \/ StartListing(TraceIds) \/ StartListing(ReportIds)
  \/ \E id \in Ids : ListSession(id) \/ ListReport(id) \/ ReadSidecar(id)
  \/ EndListing \/ ReadPayload \/ Leave

SessionSpec == SessionInit /\ [][SessionNext]_sessionVars

-------------------------------------------------------------------------------
(***************************************************************************)
(* Properties                                                              *)
(***************************************************************************)

\* The files besides the payload that the readers of the store stat
\* (artifacts.py:402-405).
StoreFiles == {"index", "events", "stream"}

\* Of a session that a listing shows, read_trace_session, which looks at the
\* sidecar and the payload, gets the sidecar with all of the instructions it
\* belongs to, whatever its writer has done since and wherever writers have
\* died; and of one whose writing had returned the other files are there as
\* well.  Whoever reads a session without having seen it listed gets sidecar
\* and instructions of one write, or nothing, or an error.  Premise: the id is
\* written once.  It is the order of the writes that does it: the payload is
\* complete before the sidecar exists (artifacts.py:429-450, 461-488).
\*
\* The rest of the files come behind the sidecar (437-449): a session whose
\* writer is still there or has died is listed without them, and then reads as
\* corrupt to the readers that stat them.  The property does not rule it out.
ListedReadsWhole ==
  viewer.at \in {"none", "raised", "reading", "read"} /\ begun[viewer.id] <= 1 =>
      /\ viewer.known => viewer.at \in {"reading", "read"}
      /\ viewer.at = "read" => viewer.instructions = viewer.sidecar
      /\ viewer.at = "raised" => viewer.sidecar = Torn
      /\ viewer.known /\ viewer.id \in returned =>
           \A f \in StoreFiles : disk[viewer.id][f] \notin {Absent, Torn}

\* "Every readable session sidecar" (artifacts.py:456), and every readable
\* report: what had been written before the listing began is on the list,
\* whatever debris dead writers left beside it and whoever is writing.  Premise:
\* its id is written once; a second write under it empties the file first.
ListComplete ==
  viewer.at = "listed" => \A id \in viewer.owed : begun[id] = 1 => id \in viewer.out
===============================================================================
