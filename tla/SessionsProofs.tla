--------------------------- MODULE SessionsProofs ----------------------------
(* What a viewer sees of the sessions and reports of any number of writers   *)
(* that die anywhere: the invariant behind the two properties of Sessions.   *)
EXTENDS Sessions, SequenceTheorems, TLAPS

\* The files of a session that no viewer here reads.
Small == {"index", "events", "stream", "snapshot"}

Missing == {Absent, Torn}

WriteRecords == [id : Ids, generation : Nat \ {0}, left : Seq(Files), open : BOOLEAN]

SessionTypeOK ==
  /\ disk \in [Ids -> [Files -> Int]]
  /\ writing \in [Writers -> SUBSET WriteRecords]
  /\ writes \in Nat
  /\ begun \in [Ids -> Nat]
  /\ returned \subseteq Ids

\* A write is known by what it has still to write: everything, everything but
\* the instructions, or only small files, which come last; of a report,
\* everything or nothing.
BeforeInstructions(a) ==
  /\ a.id \in TraceIds
  /\ a.left # <<>> /\ Head(a.left) = "instructions"
  /\ Tail(a.left) # <<>> /\ Head(Tail(a.left)) = "sidecar"
  /\ Tail(Tail(a.left)) \in Seq(Small)
  /\ disk[a.id]["sidecar"] = Absent

BeforeSidecar(a) ==
  /\ a.id \in TraceIds
  /\ a.left # <<>> /\ Head(a.left) = "sidecar"
  /\ Tail(a.left) \in Seq(Small)
  /\ disk[a.id]["instructions"] = a.generation
  /\ disk[a.id]["sidecar"] \in Missing

BeforeReport(a) ==
  /\ a.id \in ReportIds
  /\ a.left # <<>> /\ Head(a.left) = "report" /\ Tail(a.left) = <<>>
  /\ disk[a.id]["report"] \in Missing

PastShown(a) ==
  /\ a.left \in Seq(Small)
  /\ Shown(a.id) = a.generation
  /\ a.id \in TraceIds => disk[a.id]["instructions"] = a.generation

Reached(a) == BeforeInstructions(a) \/ BeforeSidecar(a) \/ BeforeReport(a) \/ PastShown(a)

\* A file the store's readers stat is there unless it is still to come.
ToCome(left, f) == \E k \in 1..Len(left) : left[k] = f

RestToCome(a) ==
  a.id \in TraceIds =>
    \A f \in StoreFiles : ToCome(a.left, f) \/ disk[a.id][f] \notin Missing

Stage(a) == Reached(a) /\ RestToCome(a)

\* An id that is begun once has one write, and the write is at one of the
\* stages; an id that is not begun has no files.
WritesInOrder ==
  /\ \A id \in Ids : begun[id] = 0 => \A f \in Files : disk[id][f] = Absent
  /\ \A w \in Writers : \A a \in writing[w] :
       /\ a.open => a.left # <<>>
       /\ begun[a.id] >= 1 /\ (begun[a.id] <= 1 => Stage(a))
  /\ \A w, v \in Writers : \A a \in writing[w], b \in writing[v] :
       a.id = b.id /\ begun[a.id] <= 1 => w = v /\ a = b

\* The payload is whole before there is a sidecar, and of the same write.
PayloadFirst ==
  \A id \in TraceIds :
    begun[id] <= 1 /\ disk[id]["sidecar"] # Absent =>
      /\ disk[id]["instructions"] \notin Missing
      /\ disk[id]["sidecar"] \in {Torn, disk[id]["instructions"]}

ReturnedShown ==
  \A id \in returned : begun[id] >= 1 /\ (begun[id] <= 1 => Shown(id) \notin Missing)

\* What has returned, nobody writes any more, and nothing of it is missing.
ReturnedWhole ==
  \A id \in returned : begun[id] <= 1 =>
    /\ \A w \in Writers : \A a \in writing[w] : a.id # id
    /\ id \in TraceIds => \A f \in StoreFiles : disk[id][f] \notin Missing

DiskInv ==
  SessionTypeOK /\ WritesInOrder /\ PayloadFirst /\ ReturnedShown /\ ReturnedWhole

------------------------------------------------------------------------------
(* What the viewer has seen stays true.                                      *)

ListingHonest ==
  viewer.at \in {"idle", "listing", "listed"} =>
    /\ \A id \in viewer.out : id \in Ids /\ (begun[id] <= 1 => Shown(id) \notin Missing)
    /\ \A id \in viewer.owed :
         /\ id \in Ids /\ id \in viewer.there
         /\ begun[id] <= 1 => Shown(id) \notin Missing
         /\ begun[id] <= 1 /\ id \in viewer.visited => id \in viewer.out
    /\ viewer.at = "listed" => viewer.there \subseteq viewer.visited

ReadingHonest ==
  viewer.at \in {"none", "raised", "reading", "read"} =>
    /\ viewer.id \in TraceIds
    /\ begun[viewer.id] <= 1 =>
         /\ viewer.known => viewer.at \in {"reading", "read"}
         /\ viewer.at = "reading" =>
              viewer.sidecar \notin Missing /\ disk[viewer.id]["sidecar"] = viewer.sidecar
         /\ viewer.at = "read" => viewer.instructions = viewer.sidecar
         /\ viewer.at = "raised" => viewer.sidecar = Torn

ViewerAt ==
  viewer.at \in {"idle", "listing", "listed", "none", "raised", "reading", "read"}

ViewerInv == ViewerAt /\ ListingHonest /\ ReadingHonest

------------------------------------------------------------------------------
LEMMA FilesAreFiles ==
  /\ Small \subseteq Files /\ StoreFiles \subseteq Files
  /\ {"instructions", "sidecar", "report"} \subseteq Files
  /\ "instructions" \notin Small /\ "sidecar" \notin Small /\ "report" \notin Small
  /\ Absent = 0 /\ Torn = -1 /\ Missing = {0, -1}
  /\ \A g \in Nat \ {0} : g \notin Missing
  BY DEF Small, StoreFiles, Files, Absent, Torn, Missing

LEMMA OrderShape ==
  ASSUME NEW snapshot \in BOOLEAN
  PROVE  LET o == SessionOrder(snapshot)
         IN  /\ o \in Seq(Files)
             /\ o # <<>> /\ Head(o) = "instructions"
             /\ Tail(o) # <<>> /\ Head(Tail(o)) = "sidecar"
             /\ Tail(Tail(o)) \in Seq(Small)
             /\ \A f \in StoreFiles : ToCome(o, f)
<1>1. CASE snapshot
  <2>1. SessionOrder(snapshot) =
          <<"instructions", "sidecar", "index", "events", "stream", "snapshot">>
    BY <1>1 DEF SessionOrder
  <2>2. /\ Len(SessionOrder(snapshot)) = 6 /\ SessionOrder(snapshot)[3] = "index"
        /\ SessionOrder(snapshot)[4] = "events" /\ SessionOrder(snapshot)[5] = "stream"
    BY <2>1
  <2>3. \A f \in StoreFiles : ToCome(SessionOrder(snapshot), f)
    BY <2>2 DEF StoreFiles, ToCome
  <2> QED BY <2>1, <2>3 DEF Files, Small
<1>2. CASE ~snapshot
  <2>1. SessionOrder(snapshot) =
          <<"instructions", "sidecar", "index", "events", "stream">>
    BY <1>2 DEF SessionOrder
  <2>2. /\ Len(SessionOrder(snapshot)) = 5 /\ SessionOrder(snapshot)[3] = "index"
        /\ SessionOrder(snapshot)[4] = "events" /\ SessionOrder(snapshot)[5] = "stream"
    BY <2>1
  <2>3. \A f \in StoreFiles : ToCome(SessionOrder(snapshot), f)
    BY <2>2 DEF StoreFiles, ToCome
  <2> QED BY <2>1, <2>3 DEF Files, Small
<1> QED BY <1>1, <1>2

LEMMA ReportShape ==
  /\ ReportOrder \in Seq(Files)
  /\ ReportOrder # <<>> /\ Head(ReportOrder) = "report" /\ Tail(ReportOrder) = <<>>
  BY DEF ReportOrder, Files

\* What is left of a list of files when one is taken.
LEMMA SeqEnds ==
  ASSUME NEW S, NEW s \in Seq(S), s # <<>>
  PROVE  Head(s) \in S /\ Tail(s) \in Seq(S)
  OBVIOUS

LEMMA FirstToCome ==
  ASSUME NEW s \in Seq(Files), s # <<>>
  PROVE  ToCome(s, Head(s))
<1>1. 1 \in 1..Len(s) /\ s[1] = Head(s)
  OBVIOUS
<1> QED BY <1>1 DEF ToCome

LEMMA RestIsToCome ==
  ASSUME NEW s \in Seq(Files), s # <<>>, NEW f, f # Head(s), ToCome(s, f)
  PROVE  ToCome(Tail(s), f)
<1>1. PICK k \in 1..Len(s) : s[k] = f
  BY DEF ToCome
<1>2. k # 1
  BY <1>1
<1>3. k - 1 \in 1..Len(Tail(s)) /\ Tail(s)[k - 1] = f
  BY <1>1, <1>2
<1> QED BY <1>3 DEF ToCome

LEMMA NothingToCome == \A f : ~ToCome(<<>>, f)
  BY DEF ToCome

LEMMA SeqEmpty ==
  ASSUME NEW S, NEW s, s = <<>>
  PROVE  s \in Seq(S)
  OBVIOUS

\* A step of a file of one session.
LEMMA DiskUpdate ==
  ASSUME disk \in [Ids -> [Files -> Int]], NEW i \in Ids, NEW f \in Files, NEW v \in Int,
         disk' = [disk EXCEPT ![i][f] = v]
  PROVE  /\ disk' \in [Ids -> [Files -> Int]]
         /\ disk'[i][f] = v
         /\ \A j \in Ids, g \in Files : (j # i \/ g # f) => disk'[j][g] = disk[j][g]
  OBVIOUS

LEMMA SessionInitial == SessionInit => DiskInv /\ ViewerInv
<1> SUFFICES ASSUME SessionInit PROVE DiskInv /\ ViewerInv
  OBVIOUS
<1>1. SessionTypeOK
  BY DEF SessionInit, SessionTypeOK, Absent
<1>2. WritesInOrder /\ PayloadFirst /\ ReturnedShown /\ ReturnedWhole
  BY FilesAreFiles
     DEF SessionInit, WritesInOrder, PayloadFirst, ReturnedShown, ReturnedWhole, Ids
<1>3. ViewerInv
  BY DEF SessionInit, ViewerInv, ViewerAt, ListingHonest, ReadingHonest, IdleViewer
<1> QED BY <1>1, <1>2, <1>3 DEF DiskInv

------------------------------------------------------------------------------
(* Writers                                                                   *)

\* What a step must leave alone for a viewer: no id is unbegun, and under an id
\* that is begun once the file that is listed stays as it is once it is whole.
Kept ==
  \A id \in Ids :
    /\ begun[id] <= begun'[id]
    /\ begun'[id] <= 1 /\ Shown(id) \notin Missing => Shown(id)' = Shown(id)

LEMMA ShownIs ==
  \A id \in Ids :
    /\ Shown(id) = IF id \in ReportIds THEN disk[id]["report"] ELSE disk[id]["sidecar"]
    /\ Shown(id)' = IF id \in ReportIds THEN disk'[id]["report"] ELSE disk'[id]["sidecar"]
    /\ id \in TraceIds => id \notin ReportIds
  BY SessionsAssumption DEF Shown

\* A stage of a write looks at the files of its own id.
LEMMA StageOfOwnFiles ==
  ASSUME NEW a \in WriteRecords, disk'[a.id] = disk[a.id], Stage(a)
  PROVE  Stage(a)'
<1>1. Shown(a.id)' = Shown(a.id)
  BY DEF Shown
<1> QED
  BY <1>1
     DEF Stage, Reached, BeforeInstructions, BeforeSidecar, BeforeReport, PastShown,
         RestToCome

\* A write a of w goes on as b and changes files of its own id only.
LEMMA WriteGoesOn ==
  ASSUME DiskInv, NEW w \in Writers, NEW a \in writing[w], NEW b \in WriteRecords,
         b.id = a.id, b.open => b.left # <<>>,
         writing' = [writing EXCEPT ![w] = {b}],
         disk' \in [Ids -> [Files -> Int]],
         \A id \in Ids : id # a.id => disk'[id] = disk[id],
         UNCHANGED <<writes, begun, returned>>,
         begun[a.id] <= 1 =>
           /\ Stage(b)'
           /\ Shown(a.id) \notin Missing => Shown(a.id)' = Shown(a.id)
           /\ a.id \in TraceIds /\ disk'[a.id]["sidecar"] # Absent =>
                /\ disk'[a.id]["instructions"] \notin Missing
                /\ disk'[a.id]["sidecar"] \in {Torn, disk'[a.id]["instructions"]}
  PROVE  DiskInv' /\ Kept
<1>1. a \in WriteRecords /\ a.id \in Ids /\ begun[a.id] >= 1 /\ begun \in [Ids -> Nat]
  BY DEF DiskInv, SessionTypeOK, WritesInOrder, WriteRecords
<1>2. SessionTypeOK'
  BY DEF DiskInv, SessionTypeOK
<1>3. writing'[w] = {b} /\ \A v \in Writers : v # w => writing'[v] = writing[v]
  BY DEF DiskInv, SessionTypeOK
<1>4. \A v \in Writers : \A c \in writing[v] : c \in WriteRecords /\ c.id \in Ids
  BY DEF DiskInv, SessionTypeOK, WriteRecords
<1>5. \A id \in Ids : begun'[id] = 0 => \A f \in Files : disk'[id][f] = Absent
  BY <1>1 DEF DiskInv, WritesInOrder
<1>6. ASSUME NEW v \in Writers, NEW c \in writing'[v]
      PROVE  /\ c.open => c.left # <<>>
             /\ begun'[c.id] >= 1 /\ (begun'[c.id] <= 1 => Stage(c)')
  <2>1. CASE v = w
    BY <1>1, <1>3, <2>1
  <2>2. CASE v # w
    <3>1. c \in writing[v] /\ c \in WriteRecords /\ c.id \in Ids
      BY <1>3, <1>4, <2>2
    <3>2. /\ c.open => c.left # <<>>
          /\ begun[c.id] >= 1 /\ (begun[c.id] <= 1 => Stage(c))
      BY <3>1 DEF DiskInv, WritesInOrder
    <3>3. begun[c.id] <= 1 => c.id # a.id
      BY <2>2, <3>1 DEF DiskInv, WritesInOrder
    <3>4. begun[c.id] <= 1 => Stage(c)'
      BY <3>1, <3>2, <3>3, StageOfOwnFiles
    <3> QED BY <3>2, <3>4
  <2> QED BY <2>1, <2>2
<1>7. ASSUME NEW v \in Writers, NEW u \in Writers, NEW c \in writing'[v],
             NEW d \in writing'[u], c.id = d.id, begun'[c.id] <= 1
      PROVE  v = u /\ c = d
  <2>1. CASE v = w /\ u = w
    BY <1>3, <2>1
  <2>2. CASE v = w /\ u # w
    <3>1. d \in writing[u] /\ d.id = a.id /\ begun[a.id] <= 1
      BY <1>3, <1>7, <2>2
    <3> QED BY <2>2, <3>1 DEF DiskInv, WritesInOrder
  <2>3. CASE v # w /\ u = w
    <3>1. c \in writing[v] /\ c.id = a.id /\ begun[a.id] <= 1
      BY <1>3, <1>7, <2>3
    <3> QED BY <2>3, <3>1 DEF DiskInv, WritesInOrder
  <2>4. CASE v # w /\ u # w
    BY <1>3, <1>7, <2>4 DEF DiskInv, WritesInOrder
  <2> QED BY <2>1, <2>2, <2>3, <2>4
<1>8. WritesInOrder'
  BY <1>5, <1>6, <1>7 DEF WritesInOrder
<1>9. PayloadFirst'
  <2> SUFFICES ASSUME NEW id \in TraceIds, begun'[id] <= 1, disk'[id]["sidecar"] # Absent
               PROVE  /\ disk'[id]["instructions"] \notin Missing
                      /\ disk'[id]["sidecar"] \in {Torn, disk'[id]["instructions"]}
    BY DEF PayloadFirst
  <2>1. CASE id = a.id
    BY <2>1
  <2>2. CASE id # a.id
    BY <2>2 DEF DiskInv, PayloadFirst, Ids
  <2> QED BY <2>1, <2>2
<1>10. \A id \in Ids : begun[id] <= 1 /\ Shown(id) \notin Missing => Shown(id)' = Shown(id)
  <2> SUFFICES ASSUME NEW id \in Ids, begun[id] <= 1, Shown(id) \notin Missing
               PROVE  Shown(id)' = Shown(id)
    OBVIOUS
  <2>1. CASE id = a.id
    BY <2>1
  <2>2. CASE id # a.id
    BY <2>2, ShownIs
  <2> QED BY <2>1, <2>2
<1>11. Kept
  BY <1>1, <1>10 DEF Kept
<1>12. ReturnedShown'
  <2> SUFFICES ASSUME NEW id \in returned
               PROVE  begun'[id] >= 1 /\ (begun'[id] <= 1 => Shown(id)' \notin Missing)
    BY DEF ReturnedShown
  <2>1. id \in Ids /\ begun[id] >= 1 /\ (begun[id] <= 1 => Shown(id) \notin Missing)
    BY DEF DiskInv, SessionTypeOK, ReturnedShown
  <2> QED BY <1>10, <2>1
<1>13. ReturnedWhole'
  <2> SUFFICES ASSUME NEW id \in returned, begun[id] <= 1
               PROVE  /\ \A v \in Writers : \A c \in writing'[v] : c.id # id
                      /\ id \in TraceIds => \A f \in StoreFiles : disk'[id][f] \notin Missing
    BY DEF ReturnedWhole
  <2>1. /\ \A v \in Writers : \A c \in writing[v] : c.id # id
        /\ id \in TraceIds => \A f \in StoreFiles : disk[id][f] \notin Missing
        /\ id \in Ids
    BY DEF DiskInv, SessionTypeOK, ReturnedWhole
  <2>2. a.id # id /\ disk'[id] = disk[id]
    BY <2>1
  <2>3. ASSUME NEW v \in Writers, NEW c \in writing'[v] PROVE c.id # id
    <3>1. CASE v = w
      BY <1>3, <2>2, <3>1
    <3>2. CASE v # w
      BY <1>3, <2>1, <3>2
    <3> QED BY <3>1, <3>2
  <2> QED BY <2>1, <2>2, <2>3
<1> QED BY <1>2, <1>8, <1>9, <1>11, <1>12, <1>13 DEF DiskInv

\* A file of a write: it is one of its id's, and the others stay.
LEMMA OpenKeeps ==
  ASSUME DiskInv, NEW w \in Writers, OpenFile(w)
  PROVE  DiskInv' /\ Kept
<1>1. PICK a \in writing[w] :
        /\ a.left # <<>>
        /\ disk' = [disk EXCEPT ![a.id][Head(a.left)] = Torn]
        /\ writing' = [writing EXCEPT ![w] = {Write(a.id, a.generation, a.left, TRUE)}]
  BY DEF OpenFile
<1>2. /\ a \in WriteRecords /\ a.id \in Ids /\ a.generation \in Nat \ {0}
      /\ a.left \in Seq(Files)
  BY DEF DiskInv, SessionTypeOK, WriteRecords
<1>3. PICK f \in Files : f = Head(a.left)
  BY <1>1, <1>2
<1>b. PICK b : b = Write(a.id, a.generation, a.left, TRUE)
  OBVIOUS
<1>4. /\ b \in WriteRecords /\ writing' = [writing EXCEPT ![w] = {b}]
      /\ b.id = a.id /\ b.generation = a.generation /\ b.left = a.left /\ b.left # <<>>
  <2>1. /\ b \in WriteRecords
        /\ b.id = a.id /\ b.generation = a.generation /\ b.left = a.left
    BY <1>2, <1>b DEF Write, WriteRecords
  <2> QED BY <1>1, <1>b, <2>1
<1>5. /\ disk' \in [Ids -> [Files -> Int]]
      /\ disk'[a.id][f] = Torn
      /\ \A j \in Ids, g \in Files : (j # a.id \/ g # f) => disk'[j][g] = disk[j][g]
  BY <1>1, <1>2, <1>3, FilesAreFiles, DiskUpdate DEF DiskInv, SessionTypeOK
<1>6. \A id \in Ids : id # a.id => disk'[id] = disk[id]
  BY <1>1, <1>2 DEF DiskInv, SessionTypeOK
<1>7. ASSUME begun[a.id] <= 1
      PROVE  /\ Stage(b)'
             /\ Shown(a.id) \notin Missing => Shown(a.id)' = Shown(a.id)
             /\ a.id \in TraceIds /\ disk'[a.id]["sidecar"] # Absent =>
                  /\ disk'[a.id]["instructions"] \notin Missing
                  /\ disk'[a.id]["sidecar"] \in {Torn, disk'[a.id]["instructions"]}
  <2>1. Reached(a) /\ RestToCome(a)
    BY <1>7 DEF DiskInv, WritesInOrder, Stage
  <2>c. RestToCome(b)'
    <3> SUFFICES ASSUME a.id \in TraceIds, NEW g \in StoreFiles
                 PROVE  ToCome(a.left, g) \/ disk'[a.id][g] \notin Missing
      BY <1>4 DEF RestToCome
    <3>1. ToCome(a.left, g) \/ disk[a.id][g] \notin Missing
      BY <2>1 DEF RestToCome
    <3>2. CASE g = f
      BY <1>1, <1>2, <1>3, <3>2, FirstToCome
    <3>3. CASE g # f
      BY <1>2, <1>5, <3>1, <3>3, FilesAreFiles
    <3> QED BY <3>2, <3>3
  <2>2. CASE BeforeInstructions(a)
    <3>1. f = "instructions" /\ disk'[a.id]["sidecar"] = Absent /\ Shown(a.id) \in Missing
      BY <1>2, <1>3, <1>5, <2>2, ShownIs, FilesAreFiles DEF BeforeInstructions, Missing
    <3>2. BeforeInstructions(b)'
      BY <1>4, <2>2, <3>1 DEF BeforeInstructions
    <3> QED BY <3>1, <3>2, <2>c DEF Reached, Stage
  <2>3. CASE BeforeSidecar(a)
    <3>1. /\ f = "sidecar" /\ disk'[a.id]["sidecar"] = Torn /\ Shown(a.id) \in Missing
          /\ disk'[a.id]["instructions"] = a.generation /\ a.generation \notin Missing
      BY <1>2, <1>3, <1>5, <2>3, ShownIs, FilesAreFiles DEF BeforeSidecar
    <3>2. BeforeSidecar(b)'
      BY <1>4, <2>3, <3>1 DEF BeforeSidecar, Missing
    <3> QED BY <3>1, <3>2, <2>c DEF Reached, Stage
  <2>4. CASE BeforeReport(a)
    <3>1. /\ f = "report" /\ disk'[a.id]["report"] = Torn /\ Shown(a.id) \in Missing
          /\ a.id \notin TraceIds
      BY <1>2, <1>3, <1>5, <2>4, ShownIs DEF BeforeReport
    <3>2. BeforeReport(b)'
      BY <1>4, <2>4, <3>1 DEF BeforeReport, Missing
    <3> QED BY <3>1, <3>2, <2>c DEF Reached, Stage
  <2>5. CASE PastShown(a)
    <3>1. f \in Small
      BY <1>1, <1>3, <2>5 DEF PastShown
    <3>2. \A g \in {"instructions", "sidecar", "report"} : disk'[a.id][g] = disk[a.id][g]
      BY <1>2, <1>5, <3>1, FilesAreFiles
    <3>3. Shown(a.id)' = Shown(a.id)
      BY <1>2, <3>2, ShownIs
    <3>4. PastShown(b)'
      BY <1>4, <2>5, <3>2, <3>3 DEF PastShown
    <3>5. a.id \in TraceIds => disk'[a.id]["sidecar"] = disk'[a.id]["instructions"]
                               /\ disk'[a.id]["instructions"] \notin Missing
      BY <1>2, <2>5, <3>2, <3>3, ShownIs, FilesAreFiles DEF PastShown
    <3> QED BY <3>3, <3>4, <3>5, <2>c DEF Reached, Stage
  <2> QED BY <2>1, <2>2, <2>3, <2>4, <2>5 DEF Reached
<1>8. UNCHANGED <<writes, begun, returned>>
  BY DEF OpenFile
<1>9. b.open => b.left # <<>>
  BY <1>4
<1>10. writing' = [writing EXCEPT ![w] = {b}] /\ b \in WriteRecords /\ b.id = a.id
       /\ disk' \in [Ids -> [Files -> Int]]
  BY <1>4, <1>5
<1> QED
  <2> HIDE DEF DiskInv, Kept
  <2> QED BY <1>6, <1>7, <1>8, <1>9, <1>10, WriteGoesOn, Zenon

LEMMA FillKeeps ==
  ASSUME DiskInv, NEW w \in Writers, FillFile(w)
  PROVE  DiskInv' /\ Kept
<1>1. PICK a \in writing[w] :
        /\ a.open
        /\ disk' = [disk EXCEPT ![a.id][Head(a.left)] = a.generation]
        /\ writing' = [writing EXCEPT ![w] = {Write(a.id, a.generation, Tail(a.left), FALSE)}]
  BY DEF FillFile
<1>2. /\ a \in WriteRecords /\ a.id \in Ids /\ a.generation \in Nat \ {0}
      /\ a.generation \in Int /\ a.left \in Seq(Files) /\ a.left # <<>>
  <2>1. a.left # <<>>
    BY <1>1 DEF DiskInv, WritesInOrder
  <2> QED BY <2>1 DEF DiskInv, SessionTypeOK, WriteRecords
<1>3. PICK f \in Files : f = Head(a.left)
  BY <1>2
<1>b. PICK b : b = Write(a.id, a.generation, Tail(a.left), FALSE)
  OBVIOUS
<1>4. /\ b \in WriteRecords /\ writing' = [writing EXCEPT ![w] = {b}] /\ ~b.open
      /\ b.id = a.id /\ b.generation = a.generation /\ b.left = Tail(a.left)
  <2>1. Tail(a.left) \in Seq(Files)
    BY <1>2, SeqEnds, Zenon
  <2>2. /\ b \in WriteRecords /\ b.open = FALSE
        /\ b.id = a.id /\ b.generation = a.generation /\ b.left = Tail(a.left)
    BY <1>2, <1>b, <2>1 DEF Write, WriteRecords
  <2> QED BY <1>1, <1>b, <2>2
<1>5. /\ disk' \in [Ids -> [Files -> Int]]
      /\ disk'[a.id][f] = a.generation
      /\ \A j \in Ids, g \in Files : (j # a.id \/ g # f) => disk'[j][g] = disk[j][g]
  BY <1>1, <1>2, <1>3, DiskUpdate DEF DiskInv, SessionTypeOK
<1>6. \A id \in Ids : id # a.id => disk'[id] = disk[id]
  BY <1>1, <1>2 DEF DiskInv, SessionTypeOK
<1>7. ASSUME begun[a.id] <= 1
      PROVE  /\ Stage(b)'
             /\ Shown(a.id) \notin Missing => Shown(a.id)' = Shown(a.id)
             /\ a.id \in TraceIds /\ disk'[a.id]["sidecar"] # Absent =>
                  /\ disk'[a.id]["instructions"] \notin Missing
                  /\ disk'[a.id]["sidecar"] \in {Torn, disk'[a.id]["instructions"]}
  <2>1. Reached(a) /\ RestToCome(a)
    BY <1>7 DEF DiskInv, WritesInOrder, Stage
  <2>c. RestToCome(b)'
    <3> SUFFICES ASSUME a.id \in TraceIds, NEW g \in StoreFiles
                 PROVE  ToCome(Tail(a.left), g) \/ disk'[a.id][g] \notin Missing
      BY <1>4 DEF RestToCome
    <3>1. ToCome(a.left, g) \/ disk[a.id][g] \notin Missing
      BY <2>1 DEF RestToCome
    <3>2. CASE g = f
      BY <1>2, <1>5, <3>2, FilesAreFiles
    <3>3. CASE g # f
      <4>1. ToCome(a.left, g) => ToCome(Tail(a.left), g)
        BY <1>2, <1>3, <3>3, RestIsToCome
      <4> QED BY <1>2, <1>5, <3>1, <3>3, <4>1, FilesAreFiles
    <3> QED BY <3>2, <3>3
  <2>2. CASE BeforeInstructions(a)
    <3>1. /\ f = "instructions" /\ disk'[a.id]["sidecar"] = Absent /\ Shown(a.id) \in Missing
          /\ disk'[a.id]["instructions"] = a.generation
      BY <1>2, <1>3, <1>5, <2>2, ShownIs, FilesAreFiles DEF BeforeInstructions, Missing
    <3>2. BeforeSidecar(b)'
      BY <1>4, <2>2, <3>1 DEF BeforeInstructions, BeforeSidecar, Missing
    <3> QED BY <3>1, <3>2, <2>c DEF Reached, Stage
  <2>3. CASE BeforeSidecar(a)
    <3>1. /\ f = "sidecar" /\ disk'[a.id]["sidecar"] = a.generation /\ Shown(a.id) \in Missing
          /\ Shown(a.id)' = a.generation
          /\ disk'[a.id]["instructions"] = a.generation /\ a.generation \notin Missing
      BY <1>2, <1>3, <1>5, <2>3, ShownIs, FilesAreFiles DEF BeforeSidecar
    <3>2. PastShown(b)'
      BY <1>4, <2>3, <3>1 DEF BeforeSidecar, PastShown
    <3> QED BY <3>1, <3>2, <2>c DEF Reached, Stage
  <2>4. CASE BeforeReport(a)
    <3>1. /\ f = "report" /\ Shown(a.id)' = a.generation /\ Shown(a.id) \in Missing
          /\ a.id \notin TraceIds
      BY <1>2, <1>3, <1>5, <2>4, ShownIs DEF BeforeReport
    <3>2. b.left \in Seq(Small)
      BY <1>4, <2>4, SeqEmpty, Zenon DEF BeforeReport
    <3>3. PastShown(b)'
      BY <1>4, <3>1, <3>2 DEF PastShown
    <3> QED BY <3>1, <3>3, <2>c DEF Reached, Stage
  <2>5. CASE PastShown(a)
    <3>1. f \in Small /\ b.left \in Seq(Small)
      <4>1. a.left \in Seq(Small)
        BY <2>5 DEF PastShown
      <4> QED BY <1>2, <1>3, <1>4, <4>1, SeqEnds, Zenon
    <3>2. \A g \in {"instructions", "sidecar", "report"} : disk'[a.id][g] = disk[a.id][g]
      BY <1>2, <1>5, <3>1, FilesAreFiles
    <3>3. Shown(a.id)' = Shown(a.id)
      BY <1>2, <3>2, ShownIs
    <3>4. PastShown(b)'
      BY <1>4, <2>5, <3>1, <3>2, <3>3 DEF PastShown
    <3>5. a.id \in TraceIds => disk'[a.id]["sidecar"] = disk'[a.id]["instructions"]
                               /\ disk'[a.id]["instructions"] \notin Missing
      BY <1>2, <2>5, <3>2, <3>3, ShownIs, FilesAreFiles DEF PastShown
    <3> QED BY <3>3, <3>4, <3>5, <2>c DEF Reached, Stage
  <2> QED BY <2>1, <2>2, <2>3, <2>4, <2>5 DEF Reached
<1>8. UNCHANGED <<writes, begun, returned>>
  BY DEF FillFile
<1>9. b.open => b.left # <<>>
  BY <1>4
<1>10. writing' = [writing EXCEPT ![w] = {b}] /\ b \in WriteRecords /\ b.id = a.id
       /\ disk' \in [Ids -> [Files -> Int]]
  BY <1>4, <1>5
<1> QED
  <2> HIDE DEF DiskInv, Kept
  <2> QED BY <1>6, <1>7, <1>8, <1>9, <1>10, WriteGoesOn, Zenon

\* A write begins: of an id that was not begun before, at its first stage.
LEMMA BeginKeeps ==
  ASSUME DiskInv, NEW w \in Writers, NEW id \in Ids, NEW order \in Seq(Files), NEW b,
         BeginWrite(w, id, order), b = Write(id, writes + 1, order, FALSE),
         begun[id] = 0 => Stage(b)'
  PROVE  DiskInv' /\ Kept
<1>1. /\ writing' = [writing EXCEPT ![w] = {b}]
      /\ begun' = [begun EXCEPT ![id] = begun[id] + 1]
      /\ UNCHANGED <<disk, viewer, returned>> /\ writes' = writes + 1
  BY DEF BeginWrite
<1>2. /\ writing \in [Writers -> SUBSET WriteRecords] /\ writes \in Nat
      /\ begun \in [Ids -> Nat]
  BY DEF DiskInv, SessionTypeOK
<1>3. b \in WriteRecords /\ b.id = id /\ b.open = FALSE
  BY <1>2 DEF Write, WriteRecords
<1>4. /\ begun' \in [Ids -> Nat] /\ begun'[id] = begun[id] + 1
      /\ \A i \in Ids : i # id => begun'[i] = begun[i]
      /\ writing' \in [Writers -> SUBSET WriteRecords]
      /\ writing'[w] = {b} /\ \A v \in Writers : v # w => writing'[v] = writing[v]
  <2>1. begun[id] + 1 \in Nat
    BY <1>2
  <2>2. /\ begun' \in [Ids -> Nat] /\ begun'[id] = begun[id] + 1
        /\ \A i \in Ids : i # id => begun'[i] = begun[i]
    BY <1>1, <1>2, <2>1
  <2>3. {b} \in SUBSET WriteRecords
    BY <1>3
  <2>4. /\ writing' \in [Writers -> SUBSET WriteRecords]
        /\ writing'[w] = {b} /\ \A v \in Writers : v # w => writing'[v] = writing[v]
    BY <1>1, <1>2, <2>3
  <2> QED BY <2>2, <2>4
<1>5. SessionTypeOK'
  <2>1. UNCHANGED <<disk, returned>> /\ writes' \in Nat
    BY <1>1, <1>2
  <2> QED BY <1>4, <2>1 DEF DiskInv, SessionTypeOK
<1>6. \A i \in Ids : begun[i] <= begun'[i] /\ (i # id => begun'[i] = begun[i])
                     /\ Shown(i)' = Shown(i)
  BY <1>1, <1>2, <1>4, ShownIs
<1>7. Kept
  BY <1>6 DEF Kept
<1>8. begun'[id] >= 1 /\ (begun'[id] <= 1 => begun[id] = 0)
  BY <1>2, <1>4
<1>9. ASSUME NEW v \in Writers, NEW c \in writing'[v], v # w
      PROVE  /\ c \in writing[v] /\ c.id \in Ids
             /\ c.open => c.left # <<>>
             /\ begun[c.id] >= 1 /\ (begun[c.id] <= 1 => Stage(c)')
  <2>1. c \in writing[v] /\ c \in WriteRecords /\ c.id \in Ids
    BY <1>2, <1>4, <1>9 DEF WriteRecords
  <2>2. /\ c.open => c.left # <<>>
        /\ begun[c.id] >= 1 /\ (begun[c.id] <= 1 => Stage(c))
    BY <2>1 DEF DiskInv, WritesInOrder
  <2>3. begun[c.id] <= 1 => Stage(c)'
    BY <1>1, <2>1, <2>2, StageOfOwnFiles
  <2> QED BY <2>1, <2>2, <2>3
<1>10. ASSUME NEW v \in Writers, NEW c \in writing'[v]
       PROVE  /\ c.open => c.left # <<>>
              /\ begun'[c.id] >= 1 /\ (begun'[c.id] <= 1 => Stage(c)')
  <2>1. CASE v = w
    BY <1>3, <1>4, <1>8, <2>1
  <2>2. CASE v # w
    <3>1. /\ c.id \in Ids /\ c.open => c.left # <<>>
          /\ begun[c.id] >= 1 /\ (begun[c.id] <= 1 => Stage(c)')
      BY <1>9, <2>2
    <3>2. begun'[c.id] >= begun[c.id] /\ begun[c.id] \in Nat /\ begun'[c.id] \in Nat
      BY <1>2, <1>4, <1>6, <3>1, <1>9, <2>2
    <3> QED BY <1>9, <2>2, <3>1, <3>2
  <2> QED BY <2>1, <2>2
<1>11. ASSUME NEW v \in Writers, NEW u \in Writers, NEW c \in writing'[v],
              NEW d \in writing'[u], c.id = d.id, begun'[c.id] <= 1
       PROVE  v = u /\ c = d
  <2>1. CASE v = w /\ u = w
    BY <1>4, <2>1
  <2>2. CASE v = w /\ u # w
    <3>1. c.id = id
      BY <1>3, <1>4, <2>2
    <3>2. d.id = id /\ begun[d.id] >= 1
      BY <1>9, <1>11, <2>2, <3>1
    <3> QED BY <1>2, <1>8, <1>11, <3>1, <3>2
  <2>3. CASE v # w /\ u = w
    <3>1. begun[id] >= 1 /\ c.id = id
      BY <1>3, <1>4, <1>9, <1>11, <2>3
    <3> QED BY <1>2, <1>8, <1>11, <3>1
  <2>4. CASE v # w /\ u # w
    <3>1. c \in writing[v] /\ d \in writing[u] /\ c.id \in Ids
      BY <1>9, <2>4
    <3>2. begun[c.id] <= 1
      BY <1>2, <1>4, <1>6, <1>11, <3>1
    <3> QED BY <1>11, <3>1, <3>2 DEF DiskInv, WritesInOrder
  <2> QED BY <2>1, <2>2, <2>3, <2>4
<1>12. \A i \in Ids : begun'[i] = 0 => \A f \in Files : disk'[i][f] = Absent
  BY <1>1, <1>4, <1>8 DEF DiskInv, WritesInOrder
<1>13. WritesInOrder'
  BY <1>10, <1>11, <1>12 DEF WritesInOrder
<1>14. \A i \in Ids : begun'[i] <= 1 => begun[i] <= 1
  BY <1>2, <1>4
<1>15. PayloadFirst'
  BY <1>1, <1>14 DEF DiskInv, PayloadFirst, Ids
<1>16. ReturnedShown'
  <2> SUFFICES ASSUME NEW i \in returned
               PROVE  begun'[i] >= 1 /\ (begun'[i] <= 1 => Shown(i)' \notin Missing)
    BY <1>1 DEF ReturnedShown
  <2>1. i \in Ids /\ begun[i] >= 1 /\ (begun[i] <= 1 => Shown(i) \notin Missing)
    BY DEF DiskInv, SessionTypeOK, ReturnedShown
  <2>2. begun'[i] >= begun[i] /\ begun[i] \in Nat /\ begun'[i] \in Nat
    BY <1>2, <1>4, <1>6, <2>1
  <2> QED BY <1>6, <1>14, <2>1, <2>2
<1>17. ReturnedWhole'
  <2> SUFFICES ASSUME NEW i \in returned, begun'[i] <= 1
               PROVE  /\ \A v \in Writers : \A c \in writing'[v] : c.id # i
                      /\ i \in TraceIds => \A f \in StoreFiles : disk[i][f] \notin Missing
    BY <1>1 DEF ReturnedWhole
  <2>1. i \in Ids /\ begun[i] >= 1 /\ begun[i] <= 1
    BY <1>2, <1>14 DEF DiskInv, SessionTypeOK, ReturnedShown
  <2>2. i # id
    BY <1>8, <2>1
  <2>3. /\ \A v \in Writers : \A c \in writing[v] : c.id # i
        /\ i \in TraceIds => \A f \in StoreFiles : disk[i][f] \notin Missing
    BY <2>1 DEF DiskInv, ReturnedWhole
  <2>4. ASSUME NEW v \in Writers, NEW c \in writing'[v] PROVE c.id # i
    <3>1. CASE v = w
      BY <1>3, <1>4, <2>2, <3>1
    <3>2. CASE v # w
      BY <1>4, <2>3, <3>2
    <3> QED BY <3>1, <3>2
  <2> QED BY <2>3, <2>4
<1> QED BY <1>5, <1>7, <1>13, <1>15, <1>16, <1>17 DEF DiskInv

\* At its first stage a write has everything to write.
LEMMA FirstStage ==
  ASSUME DiskInv, NEW id \in Ids, NEW order, NEW b, UNCHANGED disk, begun[id] = 0,
         b = Write(id, writes + 1, order, FALSE),
         \/ id \in TraceIds /\ \E snapshot \in BOOLEAN : order = SessionOrder(snapshot)
         \/ id \in ReportIds /\ order = ReportOrder
  PROVE  Stage(b)'
<1>1. b.id = id /\ b.left = order
  BY DEF Write
<1>2. /\ disk'[id]["sidecar"] = Absent /\ disk'[id]["report"] = Absent
      /\ Absent \in Missing
  BY DEF DiskInv, WritesInOrder, Files, Missing
<1>3. CASE id \in TraceIds /\ \E snapshot \in BOOLEAN : order = SessionOrder(snapshot)
  <2>1. /\ order # <<>> /\ Head(order) = "instructions"
        /\ Tail(order) # <<>> /\ Head(Tail(order)) = "sidecar"
        /\ Tail(Tail(order)) \in Seq(Small)
        /\ \A f \in StoreFiles : ToCome(order, f)
    BY <1>3, OrderShape
  <2>2. BeforeInstructions(b)'
    BY <1>1, <1>2, <1>3, <2>1 DEF BeforeInstructions
  <2>3. RestToCome(b)'
    BY <1>1, <2>1 DEF RestToCome
  <2> QED BY <2>2, <2>3 DEF Reached, Stage
<1>4. CASE id \in ReportIds /\ order = ReportOrder
  <2>1. BeforeReport(b)'
    BY <1>1, <1>2, <1>4, ReportShape DEF BeforeReport
  <2>2. RestToCome(b)'
    BY <1>1, <1>4, SessionsAssumption DEF RestToCome
  <2> QED BY <2>1, <2>2 DEF Reached, Stage
<1> QED BY <1>3, <1>4

\* A writer ends, having returned or not: its write has written everything.
LEMMA EndKeeps ==
  ASSUME DiskInv, NEW w \in Writers, WriteReturns(w) \/ Die(w)
  PROVE  DiskInv' /\ Kept
<1>1. UNCHANGED <<disk, writes, begun>> /\ writing' = [writing EXCEPT ![w] = {}]
  BY DEF WriteReturns, Die
<1>2. /\ writing \in [Writers -> SUBSET WriteRecords] /\ begun \in [Ids -> Nat]
      /\ returned \subseteq Ids
  BY DEF DiskInv, SessionTypeOK
<1>3. writing'[w] = {} /\ \A v \in Writers : v # w => writing'[v] = writing[v]
  BY <1>1, <1>2
<1>4. \A i : Shown(i)' = Shown(i)
  BY <1>1 DEF Shown
<1>5. \A v \in Writers : \A c \in writing'[v] :
        v # w /\ c \in writing[v] /\ c \in WriteRecords
  BY <1>2, <1>3
<1>6. \A i \in returned' :
        i \in Ids /\ begun[i] >= 1 /\ (begun[i] <= 1 => Shown(i) \notin Missing)
  <2>1. \A i \in returned :
          i \in Ids /\ begun[i] >= 1 /\ (begun[i] <= 1 => Shown(i) \notin Missing)
    BY DEF DiskInv, SessionTypeOK, ReturnedShown
  <2>2. CASE Die(w)
    BY <2>1, <2>2 DEF Die
  <2>3. CASE WriteReturns(w)
    <3>1. PICK a \in writing[w] : a.left = <<>> /\ returned' = returned \cup {a.id}
      BY <2>3 DEF WriteReturns
    <3>2. a \in WriteRecords /\ a.id \in Ids /\ a.generation \notin Missing
      BY <1>2, FilesAreFiles DEF WriteRecords
    <3>3. begun[a.id] >= 1 /\ (begun[a.id] <= 1 => Stage(a))
      BY DEF DiskInv, WritesInOrder
    <3>4. Stage(a) => Shown(a.id) = a.generation
      BY <3>1
         DEF Stage, Reached, BeforeInstructions, BeforeSidecar, BeforeReport, PastShown
    <3> QED BY <2>1, <3>1, <3>2, <3>3, <3>4
  <2> QED BY <2>2, <2>3
<1>7. SessionTypeOK'
  BY <1>1, <1>2, <1>6 DEF DiskInv, SessionTypeOK
<1>8. \A v \in Writers : \A c \in writing'[v] :
        /\ c.open => c.left # <<>>
        /\ begun'[c.id] >= 1 /\ (begun'[c.id] <= 1 => Stage(c)')
  <2> SUFFICES ASSUME NEW v \in Writers, NEW c \in writing'[v]
               PROVE  /\ c.open => c.left # <<>>
                      /\ begun'[c.id] >= 1 /\ (begun'[c.id] <= 1 => Stage(c)')
    OBVIOUS
  <2>1. c \in writing[v] /\ c \in WriteRecords
    BY <1>5
  <2>2. /\ c.open => c.left # <<>>
        /\ begun[c.id] >= 1 /\ (begun[c.id] <= 1 => Stage(c))
    BY <2>1 DEF DiskInv, WritesInOrder
  <2>3. Stage(c) => Stage(c)'
    BY <1>1, <2>1, StageOfOwnFiles
  <2> QED BY <1>1, <2>2, <2>3
<1>9. WritesInOrder'
  BY <1>1, <1>5, <1>8 DEF DiskInv, WritesInOrder
<1>10. PayloadFirst' /\ ReturnedShown'
  BY <1>1, <1>4, <1>6 DEF DiskInv, PayloadFirst, ReturnedShown
<1>11. Kept
  BY <1>1, <1>2, <1>4 DEF Kept
<1>12. ReturnedWhole'
  <2>1. \A i \in returned : begun[i] <= 1 =>
          /\ \A v \in Writers : \A c \in writing'[v] : c.id # i
          /\ i \in TraceIds => \A f \in StoreFiles : disk[i][f] \notin Missing
    BY <1>5 DEF DiskInv, ReturnedWhole
  <2>2. CASE Die(w)
    BY <1>1, <2>1, <2>2 DEF Die, ReturnedWhole
  <2>3. CASE WriteReturns(w)
    <3>1. PICK a \in writing[w] : a.left = <<>> /\ returned' = returned \cup {a.id}
      BY <2>3 DEF WriteReturns
    <3>2. begun[a.id] <= 1 => Stage(a)
      BY DEF DiskInv, WritesInOrder
    <3>3. begun[a.id] <= 1 /\ a.id \in TraceIds =>
            \A f \in StoreFiles : disk[a.id][f] \notin Missing
      BY <3>1, <3>2, NothingToCome DEF Stage, RestToCome
    <3>4. begun[a.id] <= 1 => \A v \in Writers : \A c \in writing'[v] : c.id # a.id
      BY <1>5 DEF DiskInv, WritesInOrder
    <3> QED BY <1>1, <2>1, <3>1, <3>3, <3>4 DEF ReturnedWhole
  <2> QED BY <2>2, <2>3
<1> QED BY <1>7, <1>9, <1>10, <1>11, <1>12 DEF DiskInv

\* What writers do leaves true what the viewer has seen.
LEMMA ViewerKept ==
  ASSUME DiskInv, DiskInv', Kept, ViewerInv, UNCHANGED viewer
  PROVE  ViewerInv'
<1>1. begun \in [Ids -> Nat] /\ begun' \in [Ids -> Nat]
  BY DEF DiskInv, SessionTypeOK
<1>2. \A id \in Ids : begun'[id] <= 1 =>
        /\ begun[id] <= 1
        /\ Shown(id) \notin Missing => Shown(id)' \notin Missing /\ Shown(id)' = Shown(id)
  BY <1>1 DEF Kept
<1>3. ListingHonest'
  BY <1>2 DEF ViewerInv, ListingHonest
<1>4. ASSUME viewer.at \in {"none", "raised", "reading", "read"}, begun'[viewer.id] <= 1,
             viewer.at = "reading"
      PROVE  viewer.sidecar \notin Missing /\ disk'[viewer.id]["sidecar"] = viewer.sidecar
  <2>1. viewer.id \in TraceIds /\ viewer.id \in Ids
    BY <1>4 DEF ViewerInv, ReadingHonest, Ids
  <2>2. begun[viewer.id] <= 1
    BY <1>2, <1>4, <2>1
  <2>3. viewer.sidecar \notin Missing /\ disk[viewer.id]["sidecar"] = viewer.sidecar
    BY <1>4, <2>2 DEF ViewerInv, ReadingHonest
  <2> QED BY <1>2, <1>4, <2>1, <2>3, ShownIs
<1>5. ReadingHonest'
  <2> SUFFICES ASSUME viewer.at \in {"none", "raised", "reading", "read"}
               PROVE  /\ viewer.id \in TraceIds
                      /\ begun'[viewer.id] <= 1 =>
                           /\ viewer.known => viewer.at \in {"reading", "read"}
                           /\ viewer.at = "reading" =>
                                /\ viewer.sidecar \notin Missing
                                /\ disk'[viewer.id]["sidecar"] = viewer.sidecar
                           /\ viewer.at = "read" => viewer.instructions = viewer.sidecar
                           /\ viewer.at = "raised" => viewer.sidecar = Torn
    BY DEF ReadingHonest
  <2>1. viewer.id \in TraceIds /\ viewer.id \in Ids
    BY DEF ViewerInv, ReadingHonest, Ids
  <2>2. begun'[viewer.id] <= 1 => begun[viewer.id] <= 1
    BY <1>2, <2>1
  <2> QED BY <1>4, <2>1, <2>2 DEF ViewerInv, ReadingHonest
<1> QED BY <1>3, <1>5 DEF ViewerInv, ViewerAt

------------------------------------------------------------------------------
(* The viewer                                                                *)

LEMMA ViewerLeavesDisk ==
  ASSUME DiskInv, UNCHANGED <<disk, writing, writes, begun, returned>>
  PROVE  DiskInv' /\ \A id : Shown(id)' = Shown(id)
  BY DEF DiskInv, SessionTypeOK, WritesInOrder, PayloadFirst, ReturnedShown,
         ReturnedWhole, Stage, Reached, BeforeInstructions, BeforeSidecar, BeforeReport,
         PastShown, RestToCome, Shown

LEMMA ListingKeeps ==
  ASSUME DiskInv, ViewerInv,
         \/ StartListing(TraceIds) \/ StartListing(ReportIds)
         \/ \E id \in Ids : ListEntry(id)
         \/ EndListing \/ Leave
  PROVE  DiskInv' /\ ViewerInv'
<1>1. UNCHANGED <<disk, writing, writes, begun, returned>>
  BY DEF StartListing, ListEntry, EndListing, Leave
<1>2. DiskInv' /\ \A id : Shown(id)' = Shown(id)
  BY <1>1, ViewerLeavesDisk
<1>3. ASSUME NEW kind, StartListing(kind), kind \subseteq Ids
      PROVE  ViewerInv'
  <2>1. /\ viewer'.at = "listing" /\ viewer'.visited = {} /\ viewer'.out = {}
        /\ viewer'.there = {id \in kind : begun[id] > 0}
        /\ viewer'.owed = returned \cap kind
    BY <1>3 DEF StartListing
  <2>2. \A id \in returned :
          begun[id] >= 1 /\ (begun[id] <= 1 => Shown(id) \notin Missing)
    BY DEF DiskInv, ReturnedShown
  <2>3. begun \in [Ids -> Nat]
    BY DEF DiskInv, SessionTypeOK
  <2>4. ListingHonest'
    BY <1>1, <1>2, <1>3, <2>1, <2>2, <2>3 DEF ListingHonest
  <2> QED BY <2>1, <2>4 DEF ViewerInv, ViewerAt, ReadingHonest
<1>4. ASSUME NEW id \in Ids, ListEntry(id)
      PROVE  ViewerInv'
  <2>1. /\ viewer.at = "listing" /\ viewer'.at = "listing"
        /\ viewer'.visited = viewer.visited \cup {id}
        /\ viewer'.out = IF Shown(id) \in Missing THEN viewer.out ELSE viewer.out \cup {id}
        /\ viewer'.there = viewer.there /\ viewer'.owed = viewer.owed
    BY <1>4 DEF ListEntry, Listing, Missing
  <2>2. ListingHonest'
    BY <1>1, <1>2, <1>4, <2>1 DEF ViewerInv, ListingHonest
  <2> QED BY <2>1, <2>2 DEF ViewerInv, ViewerAt, ReadingHonest
<1>5. CASE EndListing
  <2>1. /\ viewer.at = "listing" /\ viewer'.at = "listed"
        /\ viewer.there \subseteq viewer.visited
        /\ viewer'.visited = viewer.visited /\ viewer'.out = viewer.out
        /\ viewer'.there = viewer.there /\ viewer'.owed = viewer.owed
    BY <1>5 DEF EndListing, Listing
  <2>2. ListingHonest'
    BY <1>1, <1>2, <2>1 DEF ViewerInv, ListingHonest
  <2>3. ViewerAt'
    BY <2>1 DEF ViewerAt
  <2>4. ReadingHonest'
    BY <2>1 DEF ReadingHonest
  <2> QED BY <1>2, <2>2, <2>3, <2>4 DEF ViewerInv
<1>6. CASE Leave
  <2>1. viewer'.at = "idle" /\ viewer'.out = {} /\ viewer'.owed = {}
    BY <1>6 DEF Leave, IdleViewer
  <2>2. ViewerAt'
    BY <2>1 DEF ViewerAt
  <2>3. ReadingHonest'
    BY <2>1 DEF ReadingHonest
  <2>4. ListingHonest'
    BY <2>1 DEF ListingHonest
  <2> QED BY <1>2, <2>2, <2>3, <2>4 DEF ViewerInv
<1> QED BY <1>2, <1>3, <1>4, <1>5, <1>6 DEF Ids

LEMMA ReadKeeps ==
  ASSUME DiskInv, ViewerInv, (\E id \in Ids : ReadSidecar(id)) \/ ReadPayload
  PROVE  DiskInv' /\ ViewerInv'
<1>1. UNCHANGED <<disk, writing, writes, begun, returned>>
  BY DEF ReadSidecar, ReadPayload
<1>2. DiskInv' /\ \A id : Shown(id)' = Shown(id)
  BY <1>1, ViewerLeavesDisk
<1>3. ASSUME NEW id \in Ids, ReadSidecar(id)
      PROVE  ViewerInv'
  <2>1. id \in TraceIds /\ Shown(id) = disk[id]["sidecar"]
    BY <1>3, ShownIs DEF ReadSidecar
  <2>2. /\ viewer.at \in {"idle", "listed"}
        /\ viewer'.id = id /\ viewer'.sidecar = Shown(id)
        /\ viewer'.known = (viewer.at = "listed" /\ id \in viewer.out)
        /\ viewer'.at = IF Shown(id) = Absent THEN "none"
                        ELSE IF Shown(id) = Torn THEN "raised" ELSE "reading"
    BY <1>3 DEF ReadSidecar, Absent, Torn
  <2>3. viewer'.known /\ begun[id] <= 1 => Shown(id) \notin Missing
    BY <2>2 DEF ViewerInv, ListingHonest
  <2>4. ReadingHonest'
    BY <1>1, <2>1, <2>2, <2>3 DEF ReadingHonest, Missing
  <2> QED BY <2>2, <2>4 DEF ViewerInv, ViewerAt, ListingHonest
<1>4. CASE ReadPayload
  <2>1. /\ viewer.at = "reading" /\ viewer'.id = viewer.id
        /\ viewer'.known = viewer.known /\ viewer'.sidecar = viewer.sidecar
        /\ viewer'.instructions = disk[viewer.id]["instructions"]
        /\ viewer'.at = IF disk[viewer.id]["instructions"] = Torn THEN "raised" ELSE "read"
    BY <1>4 DEF ReadPayload
  <2>2. /\ viewer.id \in TraceIds
        /\ begun[viewer.id] <= 1 =>
             viewer.sidecar \notin Missing /\ disk[viewer.id]["sidecar"] = viewer.sidecar
    BY <2>1 DEF ViewerInv, ReadingHonest
  <2>3. begun[viewer.id] <= 1 =>
          /\ disk[viewer.id]["instructions"] \notin Missing
          /\ viewer.sidecar = disk[viewer.id]["instructions"]
    BY <2>2 DEF DiskInv, PayloadFirst, Missing
  <2>4. ReadingHonest'
    BY <1>1, <2>1, <2>2, <2>3 DEF ReadingHonest, Missing
  <2>5. ViewerAt'
    BY <2>1 DEF ViewerAt
  <2>6. ListingHonest'
    BY <2>1 DEF ListingHonest
  <2> QED BY <1>2, <2>4, <2>5, <2>6 DEF ViewerInv
<1> QED BY <1>2, <1>3, <1>4

------------------------------------------------------------------------------
(* Theorems                                                                  *)

\* The files stay in order and the viewer's view stays true, for any number of
\* sessions, reports, writers and writes (artifacts.py:381-520).
THEOREM SessionSafety == SessionSpec => [](DiskInv /\ ViewerInv)
<1>1. ASSUME DiskInv, ViewerInv, [SessionNext]_sessionVars
      PROVE  DiskInv' /\ ViewerInv'
  <2>1. CASE UNCHANGED sessionVars
    <3>1. DiskInv' /\ \A id : Shown(id)' = Shown(id)
      BY <1>1, <2>1, ViewerLeavesDisk DEF sessionVars
    <3>2. ViewerInv'
      BY <1>1, <2>1, <3>1
         DEF sessionVars, ViewerInv, ViewerAt, ListingHonest, ReadingHonest
    <3> QED BY <3>1, <3>2
  <2>2. ASSUME NEW w \in Writers, NEW id \in Ids, NEW order,
               BeginWrite(w, id, order),
               \/ id \in TraceIds /\ \E snapshot \in BOOLEAN : order = SessionOrder(snapshot)
               \/ id \in ReportIds /\ order = ReportOrder
        PROVE  DiskInv' /\ ViewerInv'
    <3>1. PICK b : b = Write(id, writes + 1, order, FALSE)
      OBVIOUS
    <3>2. UNCHANGED disk /\ UNCHANGED viewer
      BY <2>2 DEF BeginWrite
    <3>3. begun[id] = 0 => Stage(b)'
      BY <1>1, <2>2, <3>1, <3>2, FirstStage
    <3>4. order \in Seq(Files)
      BY <2>2, OrderShape, ReportShape
    <3>5. DiskInv' /\ Kept
      BY <1>1, <2>2, <3>1, <3>3, <3>4, BeginKeeps
    <3> QED BY <1>1, <3>2, <3>5, ViewerKept
  <2>3. ASSUME NEW w \in Writers, OpenFile(w) \/ FillFile(w) \/ WriteReturns(w) \/ Die(w)
        PROVE  DiskInv' /\ ViewerInv'
    <3>1. UNCHANGED viewer
      BY <2>3 DEF OpenFile, FillFile, WriteReturns, Die
    <3>2. DiskInv' /\ Kept
      BY <1>1, <2>3, OpenKeeps, FillKeeps, EndKeeps
    <3> QED BY <1>1, <3>1, <3>2, ViewerKept
  <2>4. CASE \/ StartListing(TraceIds) \/ StartListing(ReportIds)
             \/ \E id \in Ids : ListEntry(id)
             \/ EndListing \/ Leave
    BY <1>1, <2>4, ListingKeeps
  <2>5. CASE (\E id \in Ids : ReadSidecar(id)) \/ ReadPayload
    BY <1>1, <2>5, ReadKeeps
  <2> QED
    BY <1>1, <2>1, <2>2, <2>3, <2>4, <2>5
       DEF SessionNext, Begin, BeginReport, ListSession, ListReport, Ids
<1> QED BY <1>1, SessionInitial, PTL DEF SessionSpec

\* Of a listed session, under an id that is written once, read_trace_session gets
\* sidecar and instructions, whole and of one write, wherever its writer died; if
\* its writing had returned, the files the store's readers stat are there too.
\* Of one whose writer died behind the sidecar they are not, and nothing is said
\* of those readers (artifacts.py:402-405, 429-450, 461-488).
THEOREM ListedSessionsReadWhole == SessionSpec => []ListedReadsWhole
<1>1. DiskInv /\ ViewerInv => ListedReadsWhole
  BY DEF DiskInv, ReturnedWhole, ViewerInv, ReadingHonest, ListedReadsWhole, Missing
<1> QED BY <1>1, SessionSafety, PTL

\* What was written before a listing began, under an id that is written once, is
\* on it (artifacts.py:453-470, 551-571).
THEOREM ListsAreComplete == SessionSpec => []ListComplete
<1>1. DiskInv /\ ViewerInv => ListComplete
  BY DEF DiskInv, SessionTypeOK, ViewerInv, ListingHonest, ListComplete
<1> QED BY <1>1, SessionSafety, PTL

==============================================================================
