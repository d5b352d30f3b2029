SPECIFICATION SessionSpec
CONSTANTS
  TraceIds = {s1, s2}
  ReportIds = {r1, r2}
  Writers = {w1, w2}
  MaxWrites = 2
INVARIANTS
  ListedReadsWhole
  ListComplete
