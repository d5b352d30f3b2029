-------------------------------- MODULE Snapshot --------------------------------
(***************************************************************************)
(* save, describe and load of TraceStore: at any moment of its life a      *)
(* store is written to a file, one member per block behind a header, by a  *)
(* process that may die on the way, and the file is read back by replaying *)
(* its blocks into a store of the same capacity.                           *)
(***************************************************************************)
EXTENDS StoreFeed

VARIABLES
  phase,        \* "feeding", "saved", "loading", "loaded" or "raised"
  file,         \* header, and how much of the rest is there
  lblocks, lstarts, llength, lstats     \* the store that is loaded

loadVars == <<lblocks, lstarts, llength, lstats>>
snapshotVars == <<feedVars, phase, file, loadVars>>

Loaded == INSTANCE TraceStore WITH
  blocks <- lblocks, starts <- lstarts, length <- llength, stats <- lstats

\* The capacity is a constant and so is the header's.  header: whether all of it
\* is there; members: how many of the members are; compressed: the codec is not
\* "none".
NoFile == [specs |-> <<>>, stats |-> stats, compressed |-> TRUE,
           header |-> FALSE, members |-> 0]

SnapshotInit ==
  /\ FeedInit
  /\ phase = "feeding"
  /\ file = NoFile
  /\ Loaded!StoreInit

Use == phase = "feeding" /\ FeedNext /\ UNCHANGED <<phase, file, loadVars>>

-------------------------------------------------------------------------------
(***************************************************************************)
(* save, which is through before anyone else uses the store, or the death  *)
(* of the process after any part of the file was written                   *)
(***************************************************************************)

Save(compressed, header, members) ==
  /\ phase = "feeding"
  /\ file' = [specs |-> blocks, stats |-> stats, compressed |-> compressed,
              header |-> header, members |-> members]
  /\ phase' = "saved"
  /\ UNCHANGED <<feedVars, loadVars>>

Whole == file.header /\ file.members = Len(file.specs)

\* The index of the first item of the block after block i.
Offset[i \in 0 .. Len(file.specs)] ==
  IF i = 0 THEN 0 ELSE Offset[i - 1] + file.specs[i].n

\* describe: the shape of the capture, from the header alone.
Described ==
  [instructionCount |-> Offset[Len(file.specs)],
   blockCount |-> Len(file.specs),
   boundaries |-> {Offset[k - 1] :
     k \in {j \in DOMAIN file.specs : file.specs[j].lost > 0 /\ Offset[j - 1] > 0}}]

-------------------------------------------------------------------------------
(***************************************************************************)
(* load                                                                    *)
(***************************************************************************)

\* The blocks replayed so far; none is evicted again.
Replayed == Len(lblocks)

Open ==
  /\ phase = "saved"
  /\ phase' = IF file.header THEN "loading" ELSE "raised"
  /\ UNCHANGED <<feedVars, file, loadVars>>

LoadBlock ==
  /\ phase = "loading"
  /\ Replayed < file.members
  /\ Loaded!AppendBlock(file.specs[Replayed + 1])
  /\ UNCHANGED <<feedVars, phase, file>>

\* A member that is cut off or missing: decompressing it raises an error.
\* Without compression it is taken for a block of the items that are there,
\* or raises if the last of them is incomplete.
LoadTorn ==
  /\ phase = "loading"
  /\ file.members <= Replayed /\ Replayed < Len(file.specs)
  /\ \/ phase' = "raised" /\ UNCHANGED loadVars
     \/ /\ ~file.compressed
        /\ \E n \in 0 .. file.specs[Replayed + 1].n :
             /\ Replayed > file.members => n = 0
             /\ Loaded!AppendBlock([file.specs[Replayed + 1] EXCEPT !.n = n])
        /\ UNCHANGED phase
  /\ UNCHANGED <<feedVars, file>>

\* Mutant: the counters are those of the replay.
FinishLoadRecounted ==
  /\ phase = "loading"
  /\ Replayed = Len(file.specs)
  /\ phase' = "loaded"
  /\ UNCHANGED <<feedVars, file, loadVars>>

\* The counters of the header replace those of the replay.
FinishLoad ==
  /\ phase = "loading"
  /\ Replayed = Len(file.specs)
  /\ lstats' = file.stats
  /\ phase' = "loaded"
  /\ UNCHANGED <<feedVars, file, lblocks, lstarts, llength>>

Closed == phase \in {"loaded", "raised"} /\ UNCHANGED snapshotVars

SnapshotNext ==
  \/ Use
  \/ \E compressed \in BOOLEAN, header \in BOOLEAN, members \in 0 .. Len(blocks) :
       /\ ~header => members = 0
       /\ Save(compressed, header, members)
  \/ Open \/ LoadBlock \/ LoadTorn \/ FinishLoad
  \/ Closed

SnapshotSpec == SnapshotInit /\ [][SnapshotNext]_snapshotVars

-------------------------------------------------------------------------------
(***************************************************************************)
(* Properties                                                              *)
(***************************************************************************)

\* Reloading a store that was evicted from, cut and left with empty blocks
\* gives back all of it: "the program counters, the block seams, the loss"
\* (store.py:474-476), the index table and the counters of a life that the
\* replay has not seen.  No block is evicted a second time.
LoadRestores ==
  phase = "loaded" /\ Whole =>
    <<lblocks, lstarts, llength, lstats>> = <<blocks, starts, length, stats>>

\* What describe says of a file without opening a block is what loading it
\* finds (store.py:549-584).
DescribeAgrees ==
  phase = "loaded" /\ Whole =>
    Described = [instructionCount |-> llength, blockCount |-> Len(lblocks),
                 boundaries |-> Loaded!Boundaries]

\* A compressed file whose writer died is refused, never read as a shorter
\* capture with the counters of the whole one.
TornIsRefused == phase = "loaded" /\ file.compressed => Whole

\* What load returns of a whole file is the store that was saved, as describe
\* announces it, and a torn compressed one is refused: the three above, which is
\* what a reader of a snapshot relies on (store.py:464-657).
LoadHonest == LoadRestores /\ DescribeAgrees /\ TornIsRefused
===============================================================================
