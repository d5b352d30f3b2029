------------------------------- MODULE Symbolizer -------------------------------
(***************************************************************************)
(* jtrace/symbols.py over the symbols of elf.py, and the lazy rows of      *)
(* rows.py: which function and which source line an address belongs to,    *)
(* answered through two direct-mapped caches of spans, and a stream of     *)
(* program counters grouped into runs by those spans.                      *)
(*                                                                         *)
(* runs() is a generator: between two of its items anyone who holds the    *)
(* same symbolizer (frames, coverage, a row taken by its index) may ask it *)
(* for other addresses and replace what it cached.  Addresses are bytes; a *)
(* program counter is even, an address somebody asks for may be odd.       *)
(***************************************************************************)
EXTENDS Integers, Sequences, FiniteSetsExt

CONSTANTS
  Images,       \* the ELF files
  Slots,        \* SPAN_CACHE_SLOTS
  Block,        \* 2^_SPAN_SHIFT, the bytes that share a slot
  MaxAddress,   \* bound: ADDRESS_MAX
  MaxStream,    \* bound: program counters in the stream
  MaxAsked      \* bound: addresses asked for beside it

Addresses == 0 .. (MaxAddress - 1)
ProgramCounters == {a \in Addresses : a % 2 = 0}
NoFunction == 0

\* symbols in the order of the table, rows as LineTable sorts them; a row
\* whose file is 0 ends a sequence.
Image == [symbols : Seq([value : Nat, size : Nat, function : BOOLEAN]),
          rows    : Seq([address : Nat, file : Nat, line : Nat])]

ASSUME SymbolizerAssumption ==
  /\ Images \subseteq Image
  /\ {Slots, Block} \subseteq Nat \ {0}
  /\ {MaxAddress, MaxStream, MaxAsked} \subseteq Nat

VARIABLES
  image,        \* elf and line_table, which do not change
  fnCache,      \* _fn_cache
  srcCache,     \* _src_cache
  stream,       \* the program counters runs() has taken so far
  span,         \* its span, a singleton, or {} before the first
  runStart,     \* its run_start
  runs,         \* the runs it has yielded
  asked         \* questions asked beside it

streamVars == <<stream, span, runStart, runs>>
symbolVars == <<image, fnCache, srcCache, streamVars, asked>>

Empty == [start |-> 0, end |-> 0]   \* a slot of the cache without a span

-------------------------------------------------------------------------------
(***************************************************************************)
(* The function index of elf.py                                            *)
(***************************************************************************)

Masked(address) == address - (address % 2)

Functions ==
  {i \in DOMAIN image.symbols : image.symbols[i].function /\ image.symbols[i].value # 0}

Entry(i) == Masked(image.symbols[i].value)
Entries == {Entry(i) : i \in Functions}

\* Of the symbols at one entry the largest, and of those the first.
SymbolAt(entry) ==
  CHOOSE i \in Functions :
    /\ Entry(i) = entry
    /\ \A j \in Functions \ {i} : Entry(j) = entry =>
         \/ image.symbols[j].size < image.symbols[i].size
         \/ image.symbols[j].size = image.symbols[i].size /\ i < j

EntriesUpTo(a) == {e \in Entries : e <= a}
NextEntry(a) == Min({e \in Entries : e > a} \cup {MaxAddress})

\* ElfFile.resolve_function
Containing(address) ==
  LET target == Masked(address)
      entry == Max(EntriesUpTo(target))
      symbol == SymbolAt(entry)
      size == image.symbols[symbol].size
  IN  IF EntriesUpTo(target) # {} /\ (size = 0 \/ target < entry + size)
      THEN symbol ELSE NoFunction

\* Mutant: a function reaches as far as its size says.
FunctionSpanUncapped(address) ==
  LET target == Masked(address)
      next == NextEntry(target)
      entry == Max(EntriesUpTo(target))
      symbol == SymbolAt(entry)
      size == image.symbols[symbol].size
      end == IF size = 0 THEN next ELSE entry + size
  IN  IF EntriesUpTo(target) = {} THEN [start |-> 0, end |-> next, is |-> NoFunction]
      ELSE IF target < end THEN [start |-> entry, end |-> end, is |-> symbol]
      ELSE [start |-> end, end |-> next, is |-> NoFunction]

\* ElfFile.function_span
FunctionSpan(address) ==
  LET target == Masked(address)
      next == NextEntry(target)
      entry == Max(EntriesUpTo(target))
      symbol == SymbolAt(entry)
      size == image.symbols[symbol].size
      end == IF size = 0 THEN next ELSE Min({entry + size, next})
  IN  IF EntriesUpTo(target) = {} THEN [start |-> 0, end |-> next, is |-> NoFunction]
      ELSE IF target < end THEN [start |-> entry, end |-> end, is |-> symbol]
      ELSE [start |-> end, end |-> next, is |-> NoFunction]

-------------------------------------------------------------------------------
(***************************************************************************)
(* The caches                                                              *)
(***************************************************************************)

Within(s, address) == s.start <= address /\ address < s.end
Slot(address) == (address \div Block) % Slots

\* The bounds of a function are masked, the address may not be.
Narrowed(s, address) ==
  IF Within(s, address) THEN s
  ELSE [start |-> address, end |-> address + 1, is |-> s.is]

\* _function_span
FunctionEntry(cache, address) ==
  LET cached == cache[Slot(address)]
  IN  IF Within(cached, address) THEN cached
      ELSE Narrowed(FunctionSpan(address), address)

\* LineTable.span; no row is "is" 0.
SourceSpan(address) ==
  LET upTo == {i \in DOMAIN image.rows : image.rows[i].address <= address}
      row == Max(upTo)
      next == Min({image.rows[i].address : i \in DOMAIN image.rows \ upTo} \cup {MaxAddress})
  IN  IF upTo = {} THEN [start |-> 0, end |-> next, is |-> <<>>]
      ELSE [start |-> image.rows[row].address, end |-> next,
            is |-> IF image.rows[row].file = 0 THEN <<>>
                   ELSE <<image.rows[row].file, image.rows[row].line>>]

\* _source_span
SourceEntry(cache, address) ==
  LET cached == cache[Slot(address)]
  IN  IF Within(cached, address) THEN cached ELSE SourceSpan(address)

AskedFunction(cache, address) ==
  [cache EXCEPT ![Slot(address)] = FunctionEntry(cache, address)]
AskedSource(cache, address) ==
  [cache EXCEPT ![Slot(address)] = SourceEntry(cache, address)]

-------------------------------------------------------------------------------
SymbolInit ==
  /\ image \in Images
  /\ fnCache = [s \in 0 .. (Slots - 1) |-> Empty]
  /\ srcCache = [s \in 0 .. (Slots - 1) |-> Empty]
  /\ stream = <<>>
  /\ span = {}
  /\ runStart = 0
  /\ runs = <<>>
  /\ asked = 0

\* Somebody else asks for a function,
AskFunction(address) ==
  /\ asked < MaxAsked
  /\ asked' = asked + 1
  /\ fnCache' = AskedFunction(fnCache, address)
  /\ UNCHANGED <<image, srcCache, streamVars>>

\* for a source line,
AskSource(address) ==
  /\ asked < MaxAsked
  /\ asked' = asked + 1
  /\ srcCache' = AskedSource(srcCache, address)
  /\ UNCHANGED <<image, fnCache, streamVars>>

\* or takes the row of an address by its index (_row).
AskRow(address) ==
  /\ asked < MaxAsked
  /\ asked' = asked + 1
  /\ fnCache' = AskedFunction(fnCache, address)
  /\ srcCache' = AskedSource(srcCache, address)
  /\ UNCHANGED <<image, streamVars>>

\* Mutant: the runs are those of the functions alone.
ResolvedFunctionOnly(address) ==
  [start  |-> FunctionEntry(fnCache, address).start,
   end    |-> FunctionEntry(fnCache, address).end,
   function |-> FunctionEntry(fnCache, address).is,
   source |-> SourceEntry(srcCache, address).is]

\* resolve_span
Resolved(address) ==
  LET f == FunctionEntry(fnCache, address)
      s == SourceEntry(srcCache, address)
  IN  [start |-> Max({f.start, s.start}), end |-> Min({f.end, s.end}),
       function |-> f.is, source |-> s.is]

Yielded(end) ==
  runs \o [i \in 1 .. Cardinality(span) |->
    [start |-> runStart, end |-> end, span |-> CHOOSE s \in span : TRUE]]

\* runs() takes the next program counter.  What is asked between the yield of a
\* run and the resolution of the next address is here asked before the yield.
Take(address) ==
  /\ Len(stream) < MaxStream
  /\ stream' = Append(stream, address)
  /\ \/ /\ \E s \in span : Within(s, address)
        /\ UNCHANGED <<fnCache, srcCache, span, runStart, runs>>
     \/ /\ \A s \in span : ~Within(s, address)
        /\ runs' = Yielded(Len(stream))
        /\ span' = {Resolved(address)}
        /\ fnCache' = AskedFunction(fnCache, address)
        /\ srcCache' = AskedSource(srcCache, address)
        /\ runStart' = Len(stream)
  /\ UNCHANGED <<image, asked>>

\* The rows of iteration, built from the runs, and the row of an index.
IterRow(run, i) ==
  [index |-> i, address |-> stream[i + 1],
   function |-> run.span.function, source |-> run.span.source]
RowAt(i) ==
  [index |-> i, address |-> stream[i + 1],
   function |-> FunctionEntry(fnCache, stream[i + 1]).is,
   source |-> SourceEntry(srcCache, stream[i + 1]).is]

SymbolNext ==
  \/ \E address \in Addresses : AskFunction(address) \/ AskSource(address)
  \/ \E address \in ProgramCounters : AskRow(address) \/ Take(address)

-------------------------------------------------------------------------------
(***************************************************************************)
(* Properties                                                              *)
(***************************************************************************)

\* The odd address on the end of a function of odd size is masked into the
\* function, and lies in the span of whatever follows it.
OddEnd(a) == a % 2 = 1 /\ FunctionSpan(a).end = a

\* Whatever was asked before and in whatever order, what a slot holds is what
\* the tables say of every address of its span: no stale or too wide span is
\* ever cached, functions that overlap, have no size or share an entry
\* included (symbols.py:181-209, elf.py:316-358).
CachesHonest ==
  \A s \in 0 .. (Slots - 1) :
    /\ \A a \in fnCache[s].start .. (fnCache[s].end - 1) :
         ~OddEnd(a) => fnCache[s].is = Containing(a)
    /\ \A a \in srcCache[s].start .. (srcCache[s].end - 1) :
         srcCache[s].is = SourceSpan(a).is

\* The runs divide the stream without a gap or an overlap, whatever else is
\* asked between two of them, and the row built from a run is the row an index
\* gives: "The rows produced are identical either way" (rows.py:90-91).
RunsExact ==
  LET all == Yielded(Len(stream))
  IN  /\ stream # <<>> => all[1].start = 0 /\ all[Len(all)].end = Len(stream)
      /\ \A r \in 1 .. (Len(all) - 1) : all[r].end = all[r + 1].start
      /\ \A r \in DOMAIN all :
           /\ all[r].start < all[r].end
           /\ \A i \in all[r].start .. (all[r].end - 1) :
                IterRow(all[r], i) = RowAt(i)
===============================================================================
