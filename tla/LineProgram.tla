------------------------------ MODULE LineProgram ------------------------------
(***************************************************************************)
(* The line table of jtrace/dwarf.py: parse_line_table runs the line       *)
(* number program of every unit in .debug_line and merges the rows, and    *)
(* LineTable finds the row that covers an address.                         *)
(*                                                                         *)
(* The section is not fixed beforehand: each step reads one more opcode,   *)
(* of any kind, so a behaviour is a run of the parser on the section it    *)
(* has read so far and an invariant speaks of every section of that        *)
(* length, malformed ones included.  Opcodes that change no register a     *)
(* lookup depends on (column, is_stmt, basic block, prologue, isa, unknown *)
(* ones) are one step that only takes their operands.                      *)
(***************************************************************************)
EXTENDS Integers, Sequences

CONSTANTS
  Headers,      \* the unit headers that occur
  Operands,     \* bound: operands of special opcodes, advances and set_file
  LineSteps,    \* bound: operands of advance_line
  Addresses,    \* bound: operands of set_address
  MaxAddress,   \* bound: ADDRESS_MAX, no register goes beyond
  MaxUnits,     \* bound: units in the section
  MaxOpcodes    \* bound: opcodes in the section

\* What of a unit header matters; line_range and opcode_base are bytes of the
\* file, and the first may be 0.
Header == [minInst : Nat, maxOps : Nat, lineBase : Int, lineRange : Nat,
           opcodeBase : 0 .. 255, firstFile : {0, 1}, files : Nat]

ASSUME LineAssumption ==
  /\ Headers \subseteq Header
  /\ Operands \subseteq Nat
  /\ LineSteps \subseteq Int
  /\ Addresses \subseteq Nat
  /\ {MaxAddress, MaxUnits, MaxOpcodes} \subseteq Nat

VARIABLES
  at,           \* "units", "program", "table" (returned) or "raised"
  units,        \* units begun
  header,       \* of the unit whose program runs
  reg,          \* _State
  rows,         \* in the order of emit()
  opcodes,      \* opcodes read
  \* history
  sequence,     \* number of the sequence being emitted
  base,         \* where reg.address was last set outright
  walked        \* operations advanced since

programVars == <<header, reg, rows, sequence, base, walked>>
lineVars == <<at, units, opcodes, programVars>>

\* A row; seq is history.
Row == [address : Nat, line : Int, file : Nat, end : BOOLEAN, seq : Nat]

\* "<file n>", a file the table does not have.
NoFile == 0

\* file_at: the position in the unit's file table, counted from 1.
FileAt(index) ==
  LET position == index - header.firstFile
  IN  IF position \in 0 .. (header.files - 1) THEN position + 1 ELSE NoFile

StartState == [address |-> 0, op |-> 0, line |-> 1, file |-> 1]

LineInit ==
  /\ at = "units"
  /\ units = 0
  /\ header \in Headers
  /\ reg = StartState
  /\ rows = <<>>
  /\ opcodes = 0
  /\ sequence = 0
  /\ base = 0
  /\ walked = 0

-------------------------------------------------------------------------------
(***************************************************************************)
(* The units of the section                                                *)
(***************************************************************************)

\* The header of the next unit; the registers are those of a new _State.
StartUnit ==
  /\ at = "units"
  /\ units < MaxUnits
  /\ units' = units + 1
  /\ header' \in Headers
  /\ reg' = StartState
  /\ sequence' = sequence + 1
  /\ base' = 0
  /\ walked' = 0
  /\ at' = "program"
  /\ UNCHANGED <<rows, opcodes>>

\* The header cannot be read: the unit is stepped over.
MalformedHeader ==
  /\ at = "units"
  /\ units < MaxUnits
  /\ units' = units + 1
  /\ UNCHANGED <<at, opcodes, programVars>>

\* The end, a unit of length 0, or one that does not fit: whatever follows is
\* not looked at.
EndSection ==
  /\ at = "units"
  /\ at' = "table"
  /\ UNCHANGED <<units, opcodes, programVars>>

\* The program has used up the bytes of its unit; or an operand reaches past the
\* section (IndexError) or is not what it should be (ValueError), and the rows
\* emitted so far stay.
EndUnit ==
  /\ at = "program"
  /\ at' = "units"
  /\ UNCHANGED <<units, opcodes, programVars>>

-------------------------------------------------------------------------------
(***************************************************************************)
(* One opcode                                                              *)
(***************************************************************************)

ReadOpcode ==
  /\ at = "program"
  /\ opcodes < MaxOpcodes
  /\ opcodes' = opcodes + 1

OpsPerInst == IF header.maxOps <= 1 THEN 1 ELSE header.maxOps

\* Mutant: the operations left over from the last advance are dropped.
AdvancedDropping(r, n) ==
  [r EXCEPT !.address = @ + header.minInst * (n \div OpsPerInst)]

\* advance()
Advanced(r, n) ==
  LET total == r.op + n
  IN  [r EXCEPT !.address = @ + header.minInst * (total \div OpsPerInst),
                !.op = total % OpsPerInst]

\* emit()
Emitted(r, end) ==
  Append(rows, [address |-> r.address, line |-> r.line, file |-> FileAt(r.file),
                end |-> end, seq |-> sequence])

\* The registers change and nothing else does.
Becomes(r, setOutright, steps) ==
  /\ r.address < MaxAddress
  /\ reg' = r
  /\ base' = IF setOutright THEN r.address ELSE base
  /\ walked' = IF setOutright THEN 0 ELSE walked + steps
  /\ UNCHANGED <<at, units, header>>

Special(adjusted) ==
  /\ ReadOpcode
  /\ header.lineRange > 0
  /\ LET steps == adjusted \div header.lineRange
         moved == Advanced(reg, steps)
         r == [moved EXCEPT !.line = @ + header.lineBase + (adjusted % header.lineRange)]
     IN  Becomes(r, FALSE, steps) /\ rows' = Emitted(r, FALSE)
  /\ UNCHANGED sequence

Copy ==
  /\ ReadOpcode
  /\ rows' = Emitted(reg, FALSE)
  /\ UNCHANGED <<at, units, header, reg, sequence, base, walked>>

AdvancePc(n) ==
  /\ ReadOpcode
  /\ Becomes(Advanced(reg, n), FALSE, n)
  /\ UNCHANGED <<rows, sequence>>

ConstAddPc ==
  /\ ReadOpcode
  /\ header.lineRange > 0
  /\ LET n == (255 - header.opcodeBase) \div header.lineRange
     IN  Becomes(Advanced(reg, n), FALSE, n)
  /\ UNCHANGED <<rows, sequence>>

\* A special opcode or const_add_pc of a unit whose line_range is 0: the
\* division raises an error parse_line_table does not catch.
DivideByZero ==
  /\ ReadOpcode
  /\ header.lineRange = 0
  /\ at' = "raised"
  /\ UNCHANGED <<units, programVars>>

FixedAdvancePc(n) ==
  /\ ReadOpcode
  /\ Becomes([reg EXCEPT !.address = @ + n, !.op = 0], TRUE, 0)
  /\ UNCHANGED <<rows, sequence>>

SetAddress(a) ==
  /\ ReadOpcode
  /\ Becomes([reg EXCEPT !.address = a, !.op = 0], TRUE, 0)
  /\ UNCHANGED <<rows, sequence>>

AdvanceLine(n) ==
  /\ ReadOpcode
  /\ Becomes([reg EXCEPT !.line = @ + n], FALSE, 0)
  /\ UNCHANGED <<rows, sequence>>

SetFile(n) ==
  /\ ReadOpcode
  /\ Becomes([reg EXCEPT !.file = n], FALSE, 0)
  /\ UNCHANGED <<rows, sequence>>

EndSequence ==
  /\ ReadOpcode
  /\ rows' = Emitted(reg, TRUE)
  /\ reg' = StartState
  /\ sequence' = sequence + 1
  /\ base' = 0
  /\ walked' = 0
  /\ UNCHANGED <<at, units, header>>

Skipped ==
  /\ ReadOpcode
  /\ UNCHANGED <<at, units, programVars>>

Opcode ==
  \/ \E n \in Operands : Special(n) \/ AdvancePc(n) \/ FixedAdvancePc(n) \/ SetFile(n)
  \/ Copy \/ ConstAddPc \/ DivideByZero \/ EndSequence \/ Skipped
  \/ \E a \in Addresses : SetAddress(a)
  \/ \E n \in LineSteps : AdvanceLine(n)

Parsed ==
  /\ at \in {"table", "raised"}
  /\ UNCHANGED lineVars

LineNext ==
  \/ StartUnit \/ MalformedHeader \/ EndSection
  \/ EndUnit
  \/ Opcode
  \/ Parsed

LineSpec == LineInit /\ [][LineNext]_lineVars

-------------------------------------------------------------------------------
(***************************************************************************)
(* LineTable                                                               *)
(***************************************************************************)

\* Mutant: the rows are sorted by address alone.
SortsBeforeByAddress(i, j) ==
  \/ rows[i].address < rows[j].address
  \/ rows[i].address = rows[j].address /\ i < j

\* The order of LineTable.__init__, a stable sort: at the same address the end
\* of one sequence comes before the first row of another.
SortsBefore(i, j) ==
  \/ rows[i].address < rows[j].address
  \/ /\ rows[i].address = rows[j].address
     /\ \/ rows[i].end /\ ~rows[j].end
        \/ rows[i].end = rows[j].end /\ i < j

UpTo(a) == {i \in DOMAIN rows : rows[i].address <= a}

\* bisect_right - 1: the last of the sorted rows that is not beyond a.
Position(a) == CHOOSE i \in UpTo(a) : \A j \in UpTo(a) \ {i} : SortsBefore(j, i)

Nowhere == [file |-> -1, line |-> 0]   \* None

\* Mutant: the end of a sequence is a line like any other.
SourceOfEnd(row) == [file |-> row.file, line |-> row.line]

Source(row) == IF row.end THEN Nowhere ELSE [file |-> row.file, line |-> row.line]

\* resolve
Resolve(a) == IF UpTo(a) = {} THEN Nowhere ELSE Source(rows[Position(a)])

Least(S) == CHOOSE x \in S : \A y \in S : x <= y

\* Mutant: the span ends with the next row that is emitted.
NextAddressEmitted(a) ==
  IF UpTo(a) # {} /\ Position(a) < Len(rows) THEN rows[Position(a) + 1].address
  ELSE MaxAddress

\* The address of the sorted row after Position(a), or ADDRESS_MAX.
NextAddress(a) ==
  Least({rows[i].address : i \in DOMAIN rows \ UpTo(a)} \cup {MaxAddress})

\* span
Span(a) ==
  [source |-> Resolve(a),
   start  |-> IF UpTo(a) = {} THEN 0 ELSE rows[Position(a)].address,
   end    |-> NextAddress(a)]

-------------------------------------------------------------------------------
(***************************************************************************)
(* Properties                                                              *)
(***************************************************************************)

\* Advancing loses nothing on a machine with several operations in one
\* instruction (dwarf.py:349-355): however the advances are split, the address
\* is the one after all of them together, and op_index is the remainder.
AddressExact ==
  at = "program" =>
    /\ reg.address = base + header.minInst * (walked \div OpsPerInst)
    /\ reg.op = walked % OpsPerInst

\* What the line number program says: row i covers a, from its own address up
\* to that of the row after it in its sequence.
Covers(i, a) ==
  /\ i + 1 \in DOMAIN rows
  /\ rows[i + 1].seq = rows[i].seq
  /\ rows[i].address <= a
  /\ a < rows[i + 1].address

\* A row of another sequence comes between row i and a.
Intrudes(j, i, a) ==
  /\ rows[j].seq # rows[i].seq
  /\ rows[j].address <= a
  /\ \/ rows[j].address > rows[i].address
     \/ rows[j].address = rows[i].address /\ ~rows[j].end

Ascending ==
  \A i \in 1 .. (Len(rows) - 1) :
    rows[i].seq = rows[i + 1].seq => rows[i].address <= rows[i + 1].address

\* The merged table says of each address what the program that covers it says,
\* whichever units are malformed, wherever their rows are and whatever sequence
\* ends at that very address (dwarf.py:175-180, 286-289).
LookupsMatchProgram ==
  at = "table" /\ Ascending =>
    \A a \in 0 .. (MaxAddress - 1) : \A i \in DOMAIN rows :
      Covers(i, a) /\ (\A j \in DOMAIN rows : ~Intrudes(j, i, a)) =>
        Resolve(a) = Source(rows[i])

\* Every sequence begun is ended, behind its last row.
Closed ==
  \A i \in DOMAIN rows :
    ~rows[i].end =>
      /\ i + 1 \in DOMAIN rows
      /\ rows[i + 1].seq = rows[i].seq
      /\ rows[i + 1].end => rows[i].address < rows[i + 1].address

\* An address no sequence covers is nowhere: the last line of one unit does not
\* extend into the gap after it (LineTable docstring, dwarf.py:169-172), if each
\* sequence is ended behind its last row.
GapsAreNowhere ==
  at = "table" /\ Ascending /\ Closed =>
    \A a \in 0 .. (MaxAddress - 1) :
      (\A i \in DOMAIN rows : ~Covers(i, a)) => Resolve(a) = Nowhere

\* The range span returns contains the address, and lookups are constant on it
\* (dwarf.py:203-216): what the caches of Symbolizer rest on.
SpansConstant ==
  at = "table" =>
    \A a \in 0 .. (MaxAddress - 1) :
      LET s == Span(a)
      IN  /\ s.start <= a /\ a < s.end
          /\ \A b \in s.start .. (s.end - 1) : Resolve(b) = s.source
===============================================================================
