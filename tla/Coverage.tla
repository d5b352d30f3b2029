-------------------------------- MODULE Coverage --------------------------------
(***************************************************************************)
(* build_coverage_rows of jtrace/coverage.py: the execution counts of the  *)
(* halfwords of each section become rows per function and per source line. *)
(* It asks the symbolizer the others use, whatever its caches hold.        *)
(***************************************************************************)
EXTENDS Symbolizer

CONSTANT Listings   \* the lists of sections and counts

\* wide: whether a halfword has the prefix of a 32-bit instruction; counts may
\* have fewer elements than the code has halfwords.
Section == [base : Nat, wide : Seq(BOOLEAN), counts : Seq(Nat)]

\* Each section is Thumb code below ADDRESS_MAX, 2^64, with at most one count
\* for each halfword; those of one image linked without overlays lie apart.
ASSUME CoverageAssumption ==
  /\ Listings \subseteq Seq(Section)
  /\ \A listing \in Listings : \A s \in DOMAIN listing :
       /\ listing[s].base % 2 = 0
       /\ listing[s].base + 2 * Len(listing[s].wide) <= MaxAddress
       /\ Len(listing[s].counts) <= Len(listing[s].wide)
       /\ \A t \in DOMAIN listing \ {s} :
            \/ listing[s].base + 2 * Len(listing[s].wide) <= listing[t].base
            \/ listing[t].base + 2 * Len(listing[t].wide) <= listing[s].base

VARIABLES
  at,           \* "idle", "walk" or "built"
  sections,
  walked,       \* the sections walked, and the halfwords of the next one
  functions,    \* the accumulators, by the function's entry
  lines         \* the accumulators, by file and line

coverageVars == <<symbolVars, at, sections, walked, functions, lines>>

HALFWORD_BYTES == 2

CoverageInit ==
  /\ SymbolInit
  /\ at = "idle"
  /\ sections \in Listings
  /\ walked = [section |-> 0, halfword |-> 0]
  /\ functions = <<>>
  /\ lines = <<>>

-------------------------------------------------------------------------------
\* instruction_starts: halfword h of a section, counted from 0, begins an
\* instruction unless the one before it opens a 32-bit one.
Begins(section) ==
  LET begins[h \in 0 .. (Len(section.wide) - 1)] ==
        h = 0 \/ ~(begins[h - 1] /\ section.wide[h])
  IN  begins

Count(section, h) == IF h < Len(section.counts) THEN section.counts[h + 1] ELSE 0

\* resolve_source(entry) or source; no line is file 0, line 0.
Position(entrySource, source) ==
  IF entrySource # <<>> THEN entrySource
  ELSE IF source # <<>> THEN source ELSE <<0, 0>>

NewFunction(symbol, position) ==
  [name |-> symbol, position |-> position, instructions |-> 0, covered |-> 0,
   executed |-> 0, runCount |-> 0, lines |-> <<>>]

NewLine == [instructions |-> 0, covered |-> 0, runCount |-> 0]

One(b) == IF b THEN 1 ELSE 0

\* table[key] = value
Updated(table, key, value) ==
  [k \in DOMAIN table \cup {key} |-> IF k = key THEN value ELSE table[k]]

\* Mutant: the lines of a function are told apart by their number.
FunctionCountedByNumber(f, isEntry, count, source) ==
  [f EXCEPT !.instructions = @ + 1,
            !.executed = @ + count,
            !.covered = @ + One(count > 0),
            !.runCount = IF isEntry THEN count ELSE @,
            !.lines = IF source = <<>> THEN @
                      ELSE LET key == <<0, source[2]>>
                           IN  Updated(@, key, count > 0 \/ (key \in DOMAIN @ /\ @[key]))]

\* What one instruction adds to its function
FunctionCounted(f, isEntry, count, source) ==
  [f EXCEPT !.instructions = @ + 1,
            !.executed = @ + count,
            !.covered = @ + One(count > 0),
            !.runCount = IF isEntry THEN count ELSE @,
            !.lines = IF source = <<>> THEN @
                      ELSE Updated(@, source, count > 0 \/ (source \in DOMAIN @ /\ @[source]))]

\* and to its line.
LineCounted(l, count) ==
  [l EXCEPT !.instructions = @ + 1,
            !.covered = @ + One(count > 0),
            !.runCount = Max({@, count})]

Accumulator(table, key, new) == IF key \in DOMAIN table THEN table[key] ELSE new

\* One pass of the inner loop, for halfword h of the section.
CountInstruction(section, h) ==
  LET address == section.base + h * HALFWORD_BYTES
      symbol == FunctionEntry(fnCache, address).is
      entry == Entry(symbol)
      count == Count(section, h)
      source == SourceEntry(srcCache, address).is
      asking == AskedSource(srcCache, address)
      new == entry \notin DOMAIN functions
      position == Position(SourceEntry(asking, entry).is, source)
      f == Accumulator(functions, entry, NewFunction(symbol, position))
  IN  /\ fnCache' = AskedFunction(fnCache, address)
      /\ \/ symbol = NoFunction /\ UNCHANGED <<srcCache, functions, lines>>
         \/ /\ symbol # NoFunction
            /\ srcCache' = IF new THEN AskedSource(asking, entry) ELSE asking
            /\ functions' =
                 Updated(functions, entry, FunctionCounted(f, address = entry, count, source))
            /\ lines' = IF source = <<>> THEN lines
                 ELSE Updated(lines, source,
                              LineCounted(Accumulator(lines, source, NewLine), count))

-------------------------------------------------------------------------------
\* The call is one step for everybody else: nothing is asked during the walk.
Walk ==
  /\ at \in {"idle", "walk"}
  /\ walked.section < Len(sections)
  /\ at' = "walk"
  /\ LET section == sections[walked.section + 1]
         h == walked.halfword
     IN  IF h = Len(section.wide)
         THEN /\ walked' = [section |-> walked.section + 1, halfword |-> 0]
              /\ UNCHANGED <<fnCache, srcCache, functions, lines>>
         ELSE /\ walked' = [walked EXCEPT !.halfword = @ + 1]
              /\ IF Begins(section)[h] THEN CountInstruction(section, h)
                 ELSE UNCHANGED <<fnCache, srcCache, functions, lines>>
  /\ UNCHANGED <<image, streamVars, asked, sections>>

Build ==
  /\ at \in {"idle", "walk"}
  /\ walked.section = Len(sections)
  /\ at' = "built"
  /\ UNCHANGED <<symbolVars, sections, walked, functions, lines>>

\* What is asked after a report is as if there had been none.
Symbolize == at = "idle" /\ SymbolNext /\ UNCHANGED <<at, sections, walked, functions, lines>>

Reported == at = "built" /\ UNCHANGED coverageVars

CoverageNext == Symbolize \/ Walk \/ Build \/ Reported

CoverageSpec == CoverageInit /\ [][CoverageNext]_coverageVars

-------------------------------------------------------------------------------
(***************************************************************************)
(* The rows, and what is derived from them                                 *)
(***************************************************************************)

SrcLines(f) == Cardinality(DOMAIN f.lines)
SrcLinesCovered(f) == Cardinality({key \in DOMAIN f.lines : f.lines[key]})

\* compute_totals
Totals ==
  LET total(field(_)) == MapThenSumSet(LAMBDA e : field(functions[e]), DOMAIN functions)
  IN  [functions |-> Cardinality(DOMAIN functions),
       functionsCovered |-> Cardinality({e \in DOMAIN functions : functions[e].covered > 0}),
       srcLines |-> total(SrcLines),
       srcLinesCovered |-> total(SrcLinesCovered),
       instructions |-> total(LAMBDA f : f.instructions),
       covered |-> total(LAMBDA f : f.covered),
       runCount |-> total(LAMBDA f : f.runCount)]

\* run_count_lookup: the first section that has a count for the address;
\* nothing is -1.
Lookup(address) ==
  LET fits == {s \in DOMAIN sections :
        /\ address >= sections[s].base
        /\ (address - sections[s].base) \div HALFWORD_BYTES < Len(sections[s].counts)}
      section == sections[Min(fits)]
  IN  IF fits = {} THEN -1
      ELSE section.counts[(address - section.base) \div HALFWORD_BYTES + 1]

-------------------------------------------------------------------------------
(***************************************************************************)
(* Properties                                                              *)
(***************************************************************************)

\* The instructions of the image that belong to a function.
Instructions ==
  {i \in UNION {{[address |-> sections[s].base + 2 * h, count |-> Count(sections[s], h)] :
                  h \in {g \in DOMAIN Begins(sections[s]) : Begins(sections[s])[g]}} :
                s \in DOMAIN sections} :
     Containing(i.address) # NoFunction}

Of(entry) == {i \in Instructions : Entry(Containing(i.address)) = entry}
On(source) == {i \in Instructions : SourceSpan(i.address).is = source}
Covered(is) == {i \in is : i.count > 0}
LinesOf(is) == {SourceSpan(i.address).is : i \in is} \ {<<>>}

\* The rows are what a count over the whole image gives, in whatever order the
\* walk meets functions and lines and whatever the caches held before it: each
\* instruction counted once, in one function and on one line, no second half of
\* a 32-bit instruction among them, two files with the same line number apart; the
\* run count of a function is what run_count_lookup says of its entry.
RowsMatchImage ==
  at = "built" =>
    /\ DOMAIN functions = {Entry(Containing(i.address)) : i \in Instructions}
    /\ DOMAIN lines = LinesOf(Instructions)
    /\ \A e \in DOMAIN functions :
         LET f == functions[e]
         IN  /\ f.instructions = Cardinality(Of(e))
             /\ f.covered = Cardinality(Covered(Of(e)))
             /\ f.executed = MapThenSumSet(LAMBDA i : i.count, Of(e))
             /\ SrcLines(f) = Cardinality(LinesOf(Of(e)))
             /\ SrcLinesCovered(f) = Cardinality(LinesOf(Covered(Of(e))))
             /\ f.runCount = IF \E i \in Of(e) : i.address = e THEN Max({Lookup(e), 0}) ELSE 0
    /\ \A source \in DOMAIN lines :
         /\ lines[source].instructions = Cardinality(On(source))
         /\ lines[source].covered = Cardinality(Covered(On(source)))
         /\ \A i \in On(source) : i.count <= lines[source].runCount
         /\ \E i \in On(source) : i.count = lines[source].runCount
    /\ Totals.instructions = Cardinality(Instructions)
    /\ Totals.covered = Cardinality(Covered(Instructions))

===============================================================================
