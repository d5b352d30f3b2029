---------------------------- MODULE LineProgramProofs ----------------------------
(***************************************************************************)
(* Theorems about the line table on every section, of any length, any      *)
(* units and any operands.                                                 *)
(***************************************************************************)
EXTENDS LineProgram, SequenceTheorems, WellFoundedInduction, TLAPS

LEMMA LeastNatural ==
  ASSUME NEW T, T \subseteq Nat, T # {}
  PROVE  \E x \in T : \A y \in T : x <= y
<1>1. PICK x \in T : \A y \in T : ~(<<y, x>> \in OpToRel(<, Nat))
  BY NatLessThanWellFounded, WFMin
<1>2. ASSUME NEW y \in T
      PROVE  x <= y
  <2>1. x \in Nat /\ y \in Nat /\ <<y, x>> \in Nat \X Nat
    OBVIOUS
  <2>2. ~(y < x)
    BY <1>1, <2>1 DEF OpToRel
  <2> QED BY <2>1, <2>2
<1> QED BY <1>1, <1>2

(***************************************************************************)
(* Operations advanced one after the other.                                *)
(***************************************************************************)
LEMMA QuotientIs ==
  ASSUME NEW o \in Nat \ {0}, NEW a \in Nat
  PROVE  /\ a \div o \in Nat /\ a % o \in Nat /\ a % o < o
         /\ a = o * (a \div o) + (a % o)
  OBVIOUS

LEMMA QuotientUnique ==
  ASSUME NEW o \in Nat \ {0}, NEW q \in Nat, NEW r \in Nat, NEW p \in Nat, NEW s \in Nat,
         r < o, s < o, o * q + r = o * p + s
  PROVE  q = p /\ r = s
<1>1. ASSUME NEW x \in Nat, NEW y \in Nat, NEW u \in Nat, NEW v \in Nat, u < o, v < o,
             o * x + u = o * y + v, x < y
      PROVE  FALSE
  <2>1. PICK d \in Nat : y = x + d /\ d >= 1
    <3>1. y - x \in Nat /\ y - x >= 1 /\ y = x + (y - x)
      BY <1>1
    <3> QED BY <3>1
  <2>2. o * y = o * x + o * d
    BY <2>1
  <2>3. o * d >= o
    <3>1. PICK c \in Nat : d = c + 1
      <4>1. d - 1 \in Nat /\ d = (d - 1) + 1
        BY <2>1
      <4> QED BY <4>1
    <3>2. o * d = o * c + o /\ o * c \in Nat
      BY <3>1
    <3> QED BY <3>2
  <2>4. o * x \in Nat /\ o * y \in Nat /\ o * d \in Nat
    OBVIOUS
  <2> QED BY <1>1, <2>2, <2>3, <2>4
<1>2. ~(q < p) /\ ~(p < q)
  BY <1>1
<1>3. q = p
  BY <1>2
<1> QED BY <1>3

\* The remainder of one advance goes into the next.
LEMMA AdvancesAdd ==
  ASSUME NEW o \in Nat \ {0}, NEW w \in Nat, NEW n \in Nat
  PROVE  /\ (w \div o) + (((w % o) + n) \div o) = (w + n) \div o
         /\ ((w % o) + n) % o = (w + n) % o
<1>1. PICK q \in Nat, r \in Nat : q = w \div o /\ r = w % o /\ w = o * q + r
  BY QuotientIs
<1>2. PICK q2 \in Nat, r2 \in Nat :
        q2 = (r + n) \div o /\ r2 = (r + n) % o /\ r + n = o * q2 + r2 /\ r2 < o
  <2>1. r + n \in Nat
    OBVIOUS
  <2> QED BY <2>1, QuotientIs
<1>3. PICK q3 \in Nat, r3 \in Nat :
        q3 = (w + n) \div o /\ r3 = (w + n) % o /\ w + n = o * q3 + r3 /\ r3 < o
  <2>1. w + n \in Nat
    OBVIOUS
  <2> QED BY <2>1, QuotientIs
<1>4. o * (q + q2) = o * q + o * q2
  OBVIOUS
<1>5. o * (q + q2) + r2 = o * q3 + r3
  <2>1. o * q \in Nat /\ o * q2 \in Nat /\ o * q3 \in Nat
    OBVIOUS
  <2> QED BY <1>1, <1>2, <1>3, <1>4, <2>1
<1>6. PICK p \in Nat : p = q + q2
  OBVIOUS
<1>7. p = q3 /\ r2 = r3
  <2>1. o * p + r2 = o * q3 + r3
    BY <1>5, <1>6
  <2> QED BY <1>2, <1>3, <2>1, QuotientUnique
<1> QED BY <1>1, <1>2, <1>3, <1>6, <1>7

(***************************************************************************)
(* The parser.                                                             *)
(***************************************************************************)
Registers == [address : Nat, op : Nat, line : Int, file : Nat]

ProgramInv ==
  /\ header \in Headers
  /\ reg \in Registers
  /\ base \in Nat /\ walked \in Nat /\ sequence \in Nat
  /\ reg.address = base + header.minInst * (walked \div OpsPerInst)
  /\ reg.op = walked % OpsPerInst

\* The rows of a sequence follow each other, and its end is its last row.
RowsInv ==
  /\ sequence \in Nat
  /\ rows \in Seq(Row)
  /\ \A i \in 1 .. Len(rows) :
       /\ rows[i].seq <= sequence
       /\ rows[i].end => rows[i].seq < sequence
  /\ \A i, j \in 1 .. Len(rows) : i < j =>
       /\ rows[i].seq <= rows[j].seq
       /\ rows[i].end => rows[i].seq < rows[j].seq

LEMMA HeaderTyped ==
  ASSUME header \in Headers
  PROVE  /\ header.minInst \in Nat /\ header.lineBase \in Int /\ header.lineRange \in Nat
         /\ header.opcodeBase \in 0 .. 255 /\ header.firstFile \in Nat /\ header.files \in Nat
         /\ OpsPerInst \in Nat \ {0}
<1>1. header \in Header
  BY LineAssumption
<1> QED BY <1>1 DEF Header, OpsPerInst

LEMMA AdvancedIs ==
  ASSUME header \in Headers, NEW r \in Registers, NEW n \in Nat
  PROVE  /\ Advanced(r, n) \in Registers
         /\ Advanced(r, n).address = r.address + header.minInst * ((r.op + n) \div OpsPerInst)
         /\ Advanced(r, n).op = (r.op + n) % OpsPerInst
         /\ Advanced(r, n).line = r.line /\ Advanced(r, n).file = r.file
<1>1. PICK o \in Nat \ {0} : o = OpsPerInst
  BY HeaderTyped
<1>2. PICK m \in Nat : m = header.minInst
  BY HeaderTyped
<1>3. /\ r.address \in Nat /\ r.op \in Nat /\ r.line \in Int /\ r.file \in Nat
      /\ r = [address |-> r.address, op |-> r.op, line |-> r.line, file |-> r.file]
  BY DEF Registers
<1>4. PICK total \in Nat : total = r.op + n
  BY <1>3
<1>5. PICK q \in Nat, rest \in Nat : q = total \div o /\ rest = total % o
  BY QuotientIs
<1>6. PICK a \in Nat : a = r.address + m * q
  <2>1. m * q \in Nat
    OBVIOUS
  <2> QED BY <1>3, <2>1
<1>7. Advanced(r, n) = [r EXCEPT !.address = a, !.op = rest]
  BY <1>1, <1>2, <1>4, <1>5, <1>6 DEF Advanced
<1>8. Advanced(r, n) = [address |-> a, op |-> rest, line |-> r.line, file |-> r.file]
  BY <1>3, <1>7
<1> QED BY <1>1, <1>2, <1>3, <1>4, <1>5, <1>6, <1>8 DEF Registers

\* Advancing keeps the address that of all advances together.
LEMMA AdvanceExact ==
  ASSUME ProgramInv, NEW n \in Nat
  PROVE  /\ Advanced(reg, n) \in Registers
         /\ Advanced(reg, n).address = base + header.minInst * ((walked + n) \div OpsPerInst)
         /\ Advanced(reg, n).op = (walked + n) % OpsPerInst
<1>1. PICK o \in Nat \ {0} : o = OpsPerInst
  BY HeaderTyped DEF ProgramInv
<1>2. PICK m \in Nat : m = header.minInst
  BY HeaderTyped DEF ProgramInv
<1>3. PICK w \in Nat : w = walked
  BY DEF ProgramInv
<1>4. PICK q \in Nat, d \in Nat : q = w \div o /\ d = ((w % o) + n) \div o
  <2>1. (w % o) + n \in Nat
    BY QuotientIs
  <2> QED BY <2>1, QuotientIs
<1>5. (w + n) \div o = q + d /\ ((w % o) + n) % o = (w + n) % o
  BY <1>4, AdvancesAdd
<1>6. reg.address = base + m * q /\ base \in Nat /\ reg.op = w % o
  BY <1>1, <1>2, <1>3, <1>4 DEF ProgramInv
<1>7. /\ Advanced(reg, n) \in Registers
      /\ Advanced(reg, n).address = reg.address + m * d
      /\ Advanced(reg, n).op = (w + n) % o
  <2>1. header \in Headers /\ reg \in Registers
    BY DEF ProgramInv
  <2>2. /\ Advanced(reg, n) \in Registers
        /\ Advanced(reg, n).address = reg.address + m * ((reg.op + n) \div o)
        /\ Advanced(reg, n).op = (reg.op + n) % o
    BY <1>1, <1>2, <2>1, AdvancedIs
  <2>3. (reg.op + n) \div o = d /\ (reg.op + n) % o = (w + n) % o
    BY <1>4, <1>5, <1>6
  <2> QED BY <2>2, <2>3
<1>8. m * (q + d) = m * q + m * d /\ m * q \in Nat /\ m * d \in Nat
  OBVIOUS
<1>9. Advanced(reg, n).address = base + m * (q + d)
  BY <1>6, <1>7, <1>8
<1> QED BY <1>1, <1>2, <1>3, <1>5, <1>7, <1>9

LEMMA NothingWalked ==
  ASSUME header \in Headers
  PROVE  header.minInst * (0 \div OpsPerInst) = 0 /\ 0 % OpsPerInst = 0
<1>1. PICK o \in Nat \ {0} : o = OpsPerInst
  BY HeaderTyped
<1>2. 0 \div o = 0 /\ 0 % o = 0
  OBVIOUS
<1>3. PICK m \in Nat : m = header.minInst
  BY HeaderTyped
<1>4. m * 0 = 0
  OBVIOUS
<1> QED BY <1>1, <1>2, <1>3, <1>4

LEMMA AdvancesOn ==
  ASSUME ProgramInv, NEW n \in Nat, header' = header, reg' \in Registers,
         reg'.address = Advanced(reg, n).address, reg'.op = Advanced(reg, n).op,
         base' = base, walked' = walked + n, sequence' \in Nat
  PROVE  ProgramInv'
<1>1. OpsPerInst' = OpsPerInst /\ header' \in Headers /\ header'.minInst = header.minInst
  BY DEF ProgramInv, OpsPerInst
<1>2. walked' \in Nat /\ base' \in Nat
  BY DEF ProgramInv
<1>3. /\ reg'.address = base' + header'.minInst * (walked' \div OpsPerInst')
      /\ reg'.op = walked' % OpsPerInst'
  BY <1>1, AdvanceExact
<1> QED BY <1>1, <1>2, <1>3 DEF ProgramInv, Registers

LEMMA StaysPut ==
  ASSUME ProgramInv, header' = header, reg' \in Registers,
         reg'.address = reg.address, reg'.op = reg.op,
         base' = base, walked' = walked, sequence' \in Nat
  PROVE  ProgramInv'
<1>1. OpsPerInst' = OpsPerInst /\ header'.minInst = header.minInst
  BY DEF OpsPerInst
<1> QED BY <1>1 DEF ProgramInv, Registers

LEMMA SetOutright ==
  ASSUME header' \in Headers, reg' \in Registers, reg'.op = 0,
         base' = reg'.address, walked' = 0, sequence' \in Nat
  PROVE  ProgramInv'
<1>1. header'.minInst * (0 \div OpsPerInst') = 0 /\ 0 % OpsPerInst' = 0
  <2>1. (header \in Headers => header.minInst * (0 \div OpsPerInst) = 0 /\ 0 % OpsPerInst = 0)'
    BY NothingWalked, PTL
  <2> QED BY <2>1
<1>2. base' \in Nat /\ reg'.address = base' + 0
  BY DEF Registers
<1> QED BY <1>1, <1>2 DEF ProgramInv, Registers

LEMMA RowEmitted ==
  ASSUME RowsInv, header \in Headers, NEW r \in Registers, NEW end \in BOOLEAN,
         rows' = Emitted(r, end), sequence' = IF end THEN sequence + 1 ELSE sequence
  PROVE  RowsInv'
<1>1. PICK row \in Row : row = [address |-> r.address, line |-> r.line, file |-> FileAt(r.file),
                               end |-> end, seq |-> sequence]
  <2>1. r.file \in Nat /\ r.address \in Nat /\ r.line \in Int
    BY DEF Registers
  <2>2. FileAt(r.file) \in Nat
    BY <2>1, HeaderTyped DEF FileAt, NoFile
  <2>3. [address |-> r.address, line |-> r.line, file |-> FileAt(r.file),
         end |-> end, seq |-> sequence] \in Row
    BY <2>1, <2>2 DEF Row, RowsInv
  <2> QED BY <2>3, Zenon
<1>2. rows' = Append(rows, row)
  BY <1>1 DEF Emitted
<1>3. row.seq = sequence /\ row.end = end
  BY <1>1
<1>4. rows \in Seq(Row) /\ Len(rows) \in Nat /\ sequence \in Nat
  BY DEF RowsInv
<1>5. PICK new : new = rows'
  OBVIOUS
<1>6. /\ new \in Seq(Row) /\ Len(new) = Len(rows) + 1
      /\ \A i \in 1 .. Len(rows) : new[i] = rows[i]
      /\ new[Len(rows) + 1] = row
  BY <1>2, <1>4, <1>5, AppendProperties
<1>7. sequence' \in Nat /\ sequence <= sequence' /\ (end => sequence < sequence')
  BY <1>4
<1>8. ASSUME NEW i \in 1 .. Len(rows)
      PROVE  rows[i].seq \in Nat /\ rows[i].seq <= sequence /\ (rows[i].end => rows[i].seq < sequence)
  <2>1. rows[i] \in Row
    BY <1>4
  <2> QED BY <2>1 DEF RowsInv, Row
<1>9. ASSUME NEW i \in 1 .. Len(new)
      PROVE  new[i].seq <= sequence' /\ (new[i].end => new[i].seq < sequence')
  <2>1. CASE i \in 1 .. Len(rows)
    BY <1>4, <1>6, <1>7, <1>8, <2>1
  <2>2. CASE i = Len(rows) + 1
    BY <1>3, <1>4, <1>6, <1>7, <2>2
  <2> QED BY <1>4, <1>6, <2>1, <2>2
<1>10. ASSUME NEW i \in 1 .. Len(new), NEW j \in 1 .. Len(new), i < j
       PROVE  new[i].seq <= new[j].seq /\ (new[i].end => new[i].seq < new[j].seq)
  <2>1. i \in 1 .. Len(rows)
    BY <1>4, <1>6, <1>10
  <2>2. CASE j \in 1 .. Len(rows)
    BY <1>6, <1>10, <2>1, <2>2 DEF RowsInv
  <2>3. CASE j = Len(rows) + 1
    BY <1>3, <1>6, <1>8, <2>1, <2>3
  <2> QED BY <1>4, <1>6, <2>2, <2>3
<1> QED BY <1>5, <1>6, <1>7, <1>9, <1>10 DEF RowsInv, Row

LEMMA RowsKept ==
  ASSUME RowsInv, rows' = rows, sequence' \in {sequence, sequence + 1}
  PROVE  RowsInv'
<1>1. sequence \in Nat /\ sequence' \in Nat /\ sequence <= sequence'
  BY DEF RowsInv
<1>2. ASSUME NEW i \in 1 .. Len(rows)
      PROVE  rows[i].seq <= sequence' /\ (rows[i].end => rows[i].seq < sequence')
  <2>1. rows[i] \in Row
    BY DEF RowsInv
  <2>2. rows[i].seq \in Nat /\ rows[i].seq <= sequence /\ (rows[i].end => rows[i].seq < sequence)
    BY <2>1 DEF RowsInv, Row
  <2> QED BY <1>1, <2>2
<1> QED BY <1>1, <1>2 DEF RowsInv, Row

LEMMA OperandsTyped ==
  /\ \A n \in Operands : n \in Nat
  /\ \A n \in LineSteps : n \in Int
  /\ \A a \in Addresses : a \in Nat
BY LineAssumption

LEMMA SpecialKeeps ==
  ASSUME ProgramInv, RowsInv, NEW n \in Nat, Special(n)
  PROVE  ProgramInv' /\ RowsInv'
<1>1. PICK range \in Nat \ {0} : range = header.lineRange
  BY HeaderTyped DEF ProgramInv, Special
<1>2. PICK steps \in Nat, rest \in Nat : steps = n \div range /\ rest = n % range
  BY QuotientIs
<1>3. PICK m \in Registers : m = Advanced(reg, steps)
  BY AdvanceExact
<1>4. m.line \in Int /\ header.lineBase \in Int /\ header \in Headers
  BY HeaderTyped DEF ProgramInv, Registers
<1>5. PICK l \in Int : l = m.line + header.lineBase + rest
  BY <1>4
<1>6. PICK r : r = [m EXCEPT !.line = l]
  OBVIOUS
<1>7. r \in Registers /\ r.address = m.address /\ r.op = m.op
  BY <1>6 DEF Registers
<1>8. [m EXCEPT !.line = @ + header.lineBase + (n % header.lineRange)] = r
  BY <1>1, <1>2, <1>5, <1>6
<1>9. Becomes(r, FALSE, steps) /\ rows' = Emitted(r, FALSE) /\ sequence' = sequence
  BY <1>1, <1>2, <1>3, <1>8 DEF Special
<1>10. /\ reg' = r /\ base' = base /\ walked' = walked + steps /\ header' = header
  BY <1>9 DEF Becomes
<1>11. ProgramInv'
  BY <1>3, <1>7, <1>9, <1>10, AdvancesOn DEF ProgramInv
<1>12. RowsInv'
  BY <1>4, <1>7, <1>9, RowEmitted
<1> QED BY <1>11, <1>12

LEMMA OpcodeKeeps ==
  ASSUME ProgramInv, RowsInv, Opcode
  PROVE  ProgramInv' /\ RowsInv'
<1> USE OperandsTyped
<1>1. header \in Headers /\ reg \in Registers /\ sequence \in Nat
  BY DEF ProgramInv
<1>2. ASSUME NEW n \in Operands, Special(n)
      PROVE  ProgramInv' /\ RowsInv'
  BY <1>2, SpecialKeeps
<1>3. ASSUME NEW n \in Nat, Becomes(Advanced(reg, n), FALSE, n), UNCHANGED <<rows, sequence>>
      PROVE  ProgramInv' /\ RowsInv'
  <2>1. /\ reg' = Advanced(reg, n) /\ base' = base /\ walked' = walked + n /\ header' = header
    BY <1>3 DEF Becomes
  <2>2. ProgramInv'
    BY <1>1, <1>3, <2>1, AdvanceExact, AdvancesOn
  <2> QED BY <1>3, <2>2, RowsKept
<1>4. ASSUME NEW n \in Operands, AdvancePc(n)
      PROVE  ProgramInv' /\ RowsInv'
  BY <1>3, <1>4 DEF AdvancePc
<1>5. ASSUME ConstAddPc
      PROVE  ProgramInv' /\ RowsInv'
  <2>1. PICK range \in Nat \ {0} : range = header.lineRange
    BY <1>1, <1>5, HeaderTyped DEF ConstAddPc
  <2>2. PICK x \in Nat : x = 255 - header.opcodeBase
    BY <1>1, HeaderTyped
  <2>3. PICK n \in Nat : n = x \div range
    BY QuotientIs
  <2>4. Becomes(Advanced(reg, n), FALSE, n) /\ UNCHANGED <<rows, sequence>>
    BY <1>5, <2>1, <2>2, <2>3 DEF ConstAddPc
  <2> QED BY <1>3, <2>4
<1>6. ASSUME NEW r \in Registers, r.op = 0, Becomes(r, TRUE, 0), UNCHANGED <<rows, sequence>>
      PROVE  ProgramInv' /\ RowsInv'
  <2>1. reg' = r /\ base' = r.address /\ walked' = 0 /\ header' = header
    BY <1>6 DEF Becomes
  <2> QED BY <1>1, <1>6, <2>1, SetOutright, RowsKept
<1>7. ASSUME NEW n \in Operands, FixedAdvancePc(n)
      PROVE  ProgramInv' /\ RowsInv'
  <2>1. PICK r : r = [reg EXCEPT !.address = @ + n, !.op = 0]
    OBVIOUS
  <2>2. r \in Registers /\ r.op = 0
    <3>1. r = [address |-> reg.address + n, op |-> 0, line |-> reg.line, file |-> reg.file]
      BY <1>1, <2>1 DEF Registers
    <3> QED BY <1>1, <3>1 DEF Registers
  <2> QED BY <1>6, <1>7, <2>1, <2>2 DEF FixedAdvancePc
<1>8. ASSUME NEW a \in Addresses, SetAddress(a)
      PROVE  ProgramInv' /\ RowsInv'
  <2>1. PICK r : r = [reg EXCEPT !.address = a, !.op = 0]
    OBVIOUS
  <2>2. r \in Registers /\ r.op = 0
    <3>1. r = [address |-> a, op |-> 0, line |-> reg.line, file |-> reg.file]
      BY <1>1, <2>1 DEF Registers
    <3> QED BY <1>1, <3>1 DEF Registers
  <2> QED BY <1>6, <1>8, <2>1, <2>2 DEF SetAddress
<1>9. ASSUME NEW r \in Registers, r.address = reg.address, r.op = reg.op,
             Becomes(r, FALSE, 0), UNCHANGED <<rows, sequence>>
      PROVE  ProgramInv' /\ RowsInv'
  <2>1. reg' = r /\ base' = base /\ walked' = walked /\ header' = header
    BY <1>9 DEF Becomes, ProgramInv
  <2> QED BY <1>1, <1>9, <2>1, StaysPut, RowsKept
<1>10. ASSUME NEW n \in LineSteps, AdvanceLine(n)
       PROVE  ProgramInv' /\ RowsInv'
  <2>1. PICK r : r = [reg EXCEPT !.line = @ + n]
    OBVIOUS
  <2>2. r \in Registers /\ r.address = reg.address /\ r.op = reg.op
    BY <1>1, <2>1 DEF Registers
  <2> QED BY <1>9, <1>10, <2>1, <2>2 DEF AdvanceLine
<1>11. ASSUME NEW n \in Operands, SetFile(n)
       PROVE  ProgramInv' /\ RowsInv'
  <2>1. PICK r : r = [reg EXCEPT !.file = n]
    OBVIOUS
  <2>2. r \in Registers /\ r.address = reg.address /\ r.op = reg.op
    BY <1>1, <2>1 DEF Registers
  <2> QED BY <1>9, <1>11, <2>1, <2>2 DEF SetFile
<1>12. ASSUME Copy
       PROVE  ProgramInv' /\ RowsInv'
  BY <1>1, <1>12, StaysPut, RowEmitted DEF Copy
<1>13. ASSUME EndSequence
       PROVE  ProgramInv' /\ RowsInv'
  <2>1. /\ rows' = Emitted(reg, TRUE) /\ sequence' = sequence + 1 /\ header' = header
        /\ reg' = StartState /\ base' = 0 /\ walked' = 0
    BY <1>13 DEF EndSequence
  <2>2. StartState \in Registers /\ StartState.op = 0 /\ StartState.address = 0
    BY DEF StartState, Registers
  <2>3. sequence' \in Nat /\ sequence' = IF TRUE THEN sequence + 1 ELSE sequence
    BY <1>1, <2>1
  <2>4. ProgramInv'
    BY <1>1, <2>1, <2>2, <2>3, SetOutright
  <2>5. RowsInv'
    BY <1>1, <2>1, <2>3, RowEmitted
  <2> QED BY <2>4, <2>5
<1>14. ASSUME UNCHANGED programVars
       PROVE  ProgramInv' /\ RowsInv'
  BY <1>1, <1>14, StaysPut, RowsKept DEF programVars
<1> QED BY <1>2, <1>4, <1>5, <1>7, <1>8, <1>10, <1>11, <1>12, <1>13, <1>14
        DEF Opcode, DivideByZero, Skipped

LineInv == ProgramInv /\ RowsInv

LEMMA LineInvInit == LineInit => LineInv
<1> SUFFICES ASSUME LineInit
             PROVE  LineInv
  OBVIOUS
<1>1. header.minInst * (0 \div OpsPerInst) = 0 /\ 0 % OpsPerInst = 0
  BY NothingWalked DEF LineInit
<1>2. reg \in Registers /\ reg.address = 0 /\ reg.op = 0
  BY DEF LineInit, StartState, Registers
<1>3. ProgramInv
  BY <1>1, <1>2 DEF LineInit, ProgramInv
<1>4. RowsInv
  BY DEF LineInit, RowsInv
<1> QED BY <1>3, <1>4 DEF LineInv

LEMMA LineInvNext == LineInv /\ [LineNext]_lineVars => LineInv'
<1> SUFFICES ASSUME ProgramInv, RowsInv, [LineNext]_lineVars
             PROVE  ProgramInv' /\ RowsInv'
  BY DEF LineInv
<1>1. CASE StartUnit
  <2>1. /\ header' \in Headers /\ reg' = StartState /\ base' = 0 /\ walked' = 0
        /\ sequence' = sequence + 1 /\ rows' = rows
    BY <1>1 DEF StartUnit
  <2>2. StartState \in Registers /\ StartState.op = 0 /\ StartState.address = 0
    BY DEF StartState, Registers
  <2>3. sequence' \in Nat
    BY <2>1 DEF ProgramInv
  <2> QED BY <2>1, <2>2, <2>3, SetOutright, RowsKept
<1>2. CASE Opcode
  BY <1>2, OpcodeKeeps
<1>3. CASE UNCHANGED programVars
  BY <1>3, StaysPut, RowsKept DEF programVars, ProgramInv
<1> QED BY <1>1, <1>2, <1>3
        DEF LineNext, MalformedHeader, EndSection, EndUnit, Parsed, lineVars

(***************************************************************************)
(* The table.                                                              *)
(***************************************************************************)

\* Of finitely many things that are totally ordered one is the last.
LEMMA LastExists ==
  ASSUME NEW n \in Nat, NEW S \in SUBSET (1 .. n), S # {}, NEW R,
         \A i, j \in S : i = j \/ <<i, j>> \in R \/ <<j, i>> \in R,
         \A i, j, k \in S : <<i, j>> \in R /\ <<j, k>> \in R => <<i, k>> \in R
  PROVE  \E i \in S : \A j \in S \ {i} : <<j, i>> \in R
<1> DEFINE Last(i, k) == \A j \in (S \cap (1 .. k)) \ {i} : <<j, i>> \in R
           Some(k) == \E i \in S \cap (1 .. k) : Last(i, k)
           T == {k \in 0 .. n : S \cap (1 .. k) # {} /\ ~Some(k)}
<1>1. ASSUME T # {}
      PROVE  FALSE
  <2>1. PICK k \in T : \A y \in T : k <= y
    <3>1. T \subseteq Nat
      OBVIOUS
    <3> QED BY <1>1, <3>1, LeastNatural
  <2>2. k \in 0 .. n /\ S \cap (1 .. k) # {} /\ ~Some(k)
    BY <2>1
  <2>3. k # 0 /\ k - 1 \in 0 .. n /\ k - 1 \notin T
    <3>1. k # 0
      BY <2>2
    <3>2. k \in Nat /\ k - 1 \in 0 .. n /\ ~(k <= k - 1)
      BY <2>2, <3>1
    <3> HIDE DEF T
    <3> QED BY <2>1, <3>1, <3>2
  <2>4. \A j \in S \cap (1 .. k) : j = k \/ j \in S \cap (1 .. (k - 1))
    BY <2>2
  <2>5. \A j \in S \cap (1 .. (k - 1)) : j \in S \cap (1 .. k) /\ j # k
    BY <2>2, <2>3
  <2>6. CASE S \cap (1 .. (k - 1)) = {}
    <3>1. \A j \in S \cap (1 .. k) : j = k
      BY <2>4, <2>6
    <3>2. k \in S \cap (1 .. k) /\ Last(k, k)
      BY <2>2, <3>1
    <3> QED BY <2>2, <3>2
  <2>7. CASE Some(k - 1)
    <3>1. PICK b \in S \cap (1 .. (k - 1)) : Last(b, k - 1)
      BY <2>7
    <3>2. b \in S \cap (1 .. k) /\ b # k
      BY <2>5, <3>1
    <3>3. CASE k \in S /\ <<b, k>> \in R
      <4>1. k \in S \cap (1 .. k)
        BY <2>2, <2>3, <3>3
      <4>2. ASSUME NEW j \in (S \cap (1 .. k)) \ {k}
            PROVE  <<j, k>> \in R
        <5>1. j \in S \cap (1 .. (k - 1))
          BY <2>4
        <5>2. j = b \/ <<j, b>> \in R
          BY <3>1, <5>1
        <5> QED BY <3>2, <3>3, <5>2
      <4> QED BY <2>2, <4>1, <4>2
    <3>4. CASE ~(k \in S /\ <<b, k>> \in R)
      <4>1. ASSUME NEW j \in (S \cap (1 .. k)) \ {b}
            PROVE  <<j, b>> \in R
        <5>1. CASE j = k
          BY <3>2, <3>4, <5>1
        <5>2. CASE j # k
          BY <2>4, <3>1, <5>2
        <5> QED BY <5>1, <5>2
      <4> QED BY <2>2, <3>2, <4>1
    <3> QED BY <3>3, <3>4
  <2> QED BY <2>3, <2>6, <2>7
<1>2. n \notin T /\ S \cap (1 .. n) = S
  BY <1>1
<1>3. Some(n)
  BY <1>2
<1> QED BY <1>2, <1>3

LEMMA RowTyped ==
  ASSUME RowsInv
  PROVE  /\ Len(rows) \in Nat /\ DOMAIN rows = 1 .. Len(rows)
         /\ \A i \in 1 .. Len(rows) :
              /\ rows[i].address \in Nat /\ rows[i].end \in BOOLEAN /\ rows[i].seq \in Nat
              /\ rows[i].line \in Int /\ rows[i].file \in Nat
<1>1. rows \in Seq(Row)
  BY DEF RowsInv
<1>2. Len(rows) \in Nat /\ DOMAIN rows = 1 .. Len(rows) /\ \A i \in 1 .. Len(rows) : rows[i] \in Row
  BY <1>1
<1> QED BY <1>2 DEF Row

\* The order of the table is total, and the bisection finds the last row that
\* is not beyond the address.
LEMMA SortsTotally ==
  ASSUME RowsInv, NEW i \in 1 .. Len(rows), NEW j \in 1 .. Len(rows)
  PROVE  /\ i = j \/ SortsBefore(i, j) \/ SortsBefore(j, i)
         /\ ~(SortsBefore(i, j) /\ SortsBefore(j, i))
<1>1. PICK a \in Nat, b \in Nat : a = rows[i].address /\ b = rows[j].address
  BY RowTyped
<1>2. PICK e \in BOOLEAN, f \in BOOLEAN : e = rows[i].end /\ f = rows[j].end
  BY RowTyped
<1> QED BY <1>1, <1>2 DEF SortsBefore

LEMMA SortsTransitively ==
  ASSUME RowsInv, NEW i \in 1 .. Len(rows), NEW j \in 1 .. Len(rows), NEW k \in 1 .. Len(rows),
         SortsBefore(i, j), SortsBefore(j, k)
  PROVE  SortsBefore(i, k)
<1>1. PICK a \in Nat, b \in Nat, c \in Nat :
         a = rows[i].address /\ b = rows[j].address /\ c = rows[k].address
  BY RowTyped
<1>2. PICK e \in BOOLEAN, f \in BOOLEAN, g \in BOOLEAN :
         e = rows[i].end /\ f = rows[j].end /\ g = rows[k].end
  BY RowTyped
<1> QED BY <1>1, <1>2 DEF SortsBefore

LEMMA PositionIs ==
  ASSUME RowsInv, NEW a, UpTo(a) # {}
  PROVE  /\ Position(a) \in UpTo(a) /\ Position(a) \in 1 .. Len(rows)
         /\ rows[Position(a)].address <= a
         /\ \A j \in UpTo(a) \ {Position(a)} : SortsBefore(j, Position(a))
<1>1. PICK n \in Nat : n = Len(rows)
  BY RowTyped
<1>2. PICK S \in SUBSET (1 .. n) : S = UpTo(a)
  <2>1. UpTo(a) \subseteq 1 .. n
    BY <1>1, RowTyped DEF UpTo
  <2> QED BY <2>1
<1>3. PICK R : R = {p \in S \X S : SortsBefore(p[1], p[2])}
  OBVIOUS
<1>4. \A i, j \in S : <<i, j>> \in R <=> SortsBefore(i, j)
  BY <1>3
<1>5. \A i, j \in S : i = j \/ <<i, j>> \in R \/ <<j, i>> \in R
  BY <1>1, <1>4, SortsTotally
<1>6. \A i, j, k \in S : <<i, j>> \in R /\ <<j, k>> \in R => <<i, k>> \in R
  BY <1>1, <1>4, SortsTransitively
<1>7. \E i \in S : \A j \in S \ {i} : <<j, i>> \in R
  <2>1. n \in Nat /\ S \in SUBSET (1 .. n) /\ S # {}
    BY <1>2
  <2> QED BY <2>1, <1>5, <1>6, LastExists, Zenon
<1>8. \E i \in UpTo(a) : \A j \in UpTo(a) \ {i} : SortsBefore(j, i)
  BY <1>2, <1>4, <1>7
<1>9. /\ Position(a) \in UpTo(a)
      /\ \A j \in UpTo(a) \ {Position(a)} : SortsBefore(j, Position(a))
  BY <1>8 DEF Position
<1> QED BY <1>1, <1>2, <1>9 DEF UpTo

\* There is no other such row.
LEMMA PositionUnique ==
  ASSUME RowsInv, NEW a, NEW i \in UpTo(a), \A j \in UpTo(a) \ {i} : SortsBefore(j, i)
  PROVE  Position(a) = i
<1>1. /\ Position(a) \in UpTo(a)
      /\ \A j \in UpTo(a) \ {Position(a)} : SortsBefore(j, Position(a))
  BY PositionIs
<1>2. i \in 1 .. Len(rows) /\ Position(a) \in 1 .. Len(rows)
  BY <1>1, RowTyped DEF UpTo
<1> QED BY <1>1, <1>2, SortsTotally

LEMMA NextAddressIs ==
  ASSUME RowsInv, NEW a \in 0 .. (MaxAddress - 1)
  PROVE  /\ NextAddress(a) \in Nat /\ a < NextAddress(a)
         /\ \A i \in 1 .. Len(rows) : rows[i].address < NextAddress(a) => i \in UpTo(a)
<1> DEFINE Later == {rows[i].address : i \in DOMAIN rows \ UpTo(a)} \cup {MaxAddress}
<1>1. MaxAddress \in Nat /\ a \in Nat /\ a < MaxAddress
  BY LineAssumption
<1>2. Later \subseteq Nat /\ Later # {}
  BY <1>1, RowTyped
<1>3. PICK x \in Later : \A y \in Later : x <= y
  BY <1>2, LeastNatural
<1>4. NextAddress(a) \in Later /\ \A y \in Later : NextAddress(a) <= y
  BY <1>3 DEF NextAddress, Least
<1>5. \A y \in Later : a < y
  <2>1. \A i \in DOMAIN rows \ UpTo(a) : a < rows[i].address
    BY <1>1, RowTyped DEF UpTo
  <2> QED BY <1>1, <2>1
<1>6. ASSUME NEW i \in 1 .. Len(rows), rows[i].address < NextAddress(a)
      PROVE  i \in UpTo(a)
  <2>1. i \notin UpTo(a) => NextAddress(a) <= rows[i].address
    BY <1>4, RowTyped
  <2>2. rows[i].address \in Nat /\ NextAddress(a) \in Nat
    BY <1>2, <1>4, RowTyped
  <2> QED BY <1>6, <2>1, <2>2
<1> QED BY <1>2, <1>4, <1>5, <1>6

\* The row that covers an address covers every address of the span.
LEMMA SpanIsConstant ==
  ASSUME RowsInv, NEW a \in 0 .. (MaxAddress - 1)
  PROVE  /\ Span(a).start <= a /\ a < Span(a).end
         /\ \A b \in Span(a).start .. (Span(a).end - 1) : Resolve(b) = Span(a).source
<1>1. a \in Nat
  BY LineAssumption
<1>2. PICK n \in Nat : n = NextAddress(a) /\ a < n
  BY NextAddressIs
<1>3. \A i \in 1 .. Len(rows) : rows[i].address < n => i \in UpTo(a)
  BY <1>2, NextAddressIs
<1>4. CASE UpTo(a) = {}
  <2>1. Span(a) = [source |-> Nowhere, start |-> 0, end |-> n]
    BY <1>2, <1>4 DEF Span, Resolve
  <2>2. ASSUME NEW b \in 0 .. (n - 1)
        PROVE  Resolve(b) = Nowhere
    <3>1. ASSUME NEW i \in UpTo(b)
          PROVE  FALSE
      <4>1. i \in 1 .. Len(rows) /\ rows[i].address <= b /\ rows[i].address \in Nat
        BY RowTyped DEF UpTo
      <4>2. rows[i].address < n
        BY <4>1
      <4> QED BY <1>3, <1>4, <4>1, <4>2
    <3> QED BY <3>1 DEF Resolve
  <2> QED BY <1>1, <1>2, <2>1, <2>2
<1>5. CASE UpTo(a) # {}
  <2>1. PICK p \in 1 .. Len(rows) :
          /\ p = Position(a) /\ p \in UpTo(a) /\ rows[p].address <= a
          /\ \A j \in UpTo(a) \ {p} : SortsBefore(j, p)
    BY <1>5, PositionIs
  <2>2. PICK s \in Nat : s = rows[p].address
    BY RowTyped
  <2>3. Span(a) = [source |-> Source(rows[p]), start |-> s, end |-> n]
    BY <1>2, <1>5, <2>1, <2>2 DEF Span, Resolve
  <2>4. ASSUME NEW b \in s .. (n - 1)
        PROVE  Resolve(b) = Source(rows[p])
    <3>1. p \in UpTo(b)
      BY <2>2, RowTyped DEF UpTo
    <3>2. ASSUME NEW j \in UpTo(b) \ {p}
          PROVE  SortsBefore(j, p)
      <4>1. j \in 1 .. Len(rows) /\ rows[j].address <= b /\ rows[j].address \in Nat
        BY RowTyped DEF UpTo
      <4>2. rows[j].address < n
        BY <4>1
      <4> QED BY <1>3, <2>1, <4>1, <4>2
    <3>3. Position(b) = p
      BY <3>1, <3>2, PositionUnique
    <3> QED BY <3>1, <3>3 DEF Resolve
  <2> QED BY <1>2, <2>1, <2>2, <2>3, <2>4
<1> QED BY <1>4, <1>5

\* The rows of a sequence lie together, so that what holds of neighbours holds
\* of any two of them.
LEMMA SequenceAscends ==
  ASSUME RowsInv, Ascending, NEW i \in 1 .. Len(rows), NEW j \in 1 .. Len(rows), i <= j,
         rows[i].seq = rows[j].seq
  PROVE  rows[i].address <= rows[j].address
<1> DEFINE T == {k \in 1 .. Len(rows) : /\ i <= k /\ rows[k].seq = rows[i].seq
                                        /\ ~(rows[i].address <= rows[k].address)}
<1>1. ASSUME T # {}
      PROVE  FALSE
  <2>1. PICK k \in T : \A y \in T : k <= y
    <3>1. T \subseteq Nat
      OBVIOUS
    <3> QED BY <1>1, <3>1, LeastNatural
  <2>2. /\ k \in 1 .. Len(rows) /\ i <= k /\ rows[k].seq = rows[i].seq
        /\ ~(rows[i].address <= rows[k].address)
    BY <2>1
  <2>3. rows[i].address \in Nat /\ rows[k].address \in Nat /\ Len(rows) \in Nat
    BY RowTyped
  <2>4. i < k
    BY <2>2, <2>3
  <2>5. PICK m \in 1 .. (Len(rows) - 1) : m = k - 1 /\ i <= m /\ m \in 1 .. Len(rows)
    BY <2>2, <2>3, <2>4
  <2>6. rows[m].seq = rows[i].seq
    <3>1. rows[m].seq \in Nat /\ rows[i].seq \in Nat /\ rows[k].seq \in Nat
      BY <2>5, RowTyped
    <3>2. rows[m].seq <= rows[k].seq
      BY <2>2, <2>5 DEF RowsInv
    <3>3. rows[i].seq <= rows[m].seq
      <4>1. CASE i = m
        BY <3>1, <4>1
      <4>2. CASE i # m
        BY <2>5, <4>2 DEF RowsInv
      <4> QED BY <4>1, <4>2
    <3> QED BY <2>2, <3>1, <3>2, <3>3
  <2>7. m \notin T
    <3>1. ~(k <= m)
      BY <2>2, <2>5
    <3> HIDE DEF T
    <3> QED BY <2>1, <3>1
  <2>8. rows[i].address <= rows[m].address
    BY <2>5, <2>6, <2>7
  <2>9. rows[m].address <= rows[k].address
    <3>1. m + 1 = k
      BY <2>2, <2>5
    <3> QED BY <2>2, <2>5, <2>6, <3>1 DEF Ascending
  <2>10. rows[m].address \in Nat
    BY <2>5, RowTyped
  <2> QED BY <2>2, <2>3, <2>8, <2>9, <2>10
<1>2. j \notin T
  BY <1>1
<1> QED BY <1>2

LEMMA LookupsMatch == RowsInv => LookupsMatchProgram
<1> SUFFICES ASSUME RowsInv, Ascending, NEW a \in 0 .. (MaxAddress - 1), NEW i \in DOMAIN rows,
                    Covers(i, a), \A j \in DOMAIN rows : ~Intrudes(j, i, a)
             PROVE  Resolve(a) = Source(rows[i])
  BY DEF LookupsMatchProgram
<1>1. i \in 1 .. Len(rows) /\ i + 1 \in 1 .. Len(rows) /\ Len(rows) \in Nat
  BY RowTyped DEF Covers
<1>2. i \in UpTo(a)
  BY DEF Covers, UpTo
<1>3. ~rows[i].end
  <2>1. rows[i].end => rows[i].seq < rows[i + 1].seq
    BY <1>1 DEF RowsInv
  <2>2. rows[i].seq \in Nat /\ rows[i + 1].seq \in Nat /\ rows[i + 1].seq = rows[i].seq
    BY <1>1, RowTyped DEF Covers
  <2> QED BY <2>1, <2>2
<1>4. ASSUME NEW j \in UpTo(a) \ {i}
      PROVE  SortsBefore(j, i)
  <2>1. j \in 1 .. Len(rows) /\ rows[j].address <= a
    BY RowTyped DEF UpTo
  <2>2. PICK x \in Nat, y \in Nat : x = rows[j].address /\ y = rows[i].address
    BY <1>1, <2>1, RowTyped
  <2>3. CASE rows[j].seq # rows[i].seq
    <3>1. ~(x > y) /\ (x = y => rows[j].end)
      BY <1>1, <2>1, <2>2, <2>3, RowTyped DEF Intrudes
    <3> QED BY <1>3, <2>2, <3>1 DEF SortsBefore
  <2>4. CASE rows[j].seq = rows[i].seq /\ j < i
    <3>1. x <= y
      BY <1>1, <2>1, <2>2, <2>4, SequenceAscends
    <3>2. ~rows[j].end
      <4>1. rows[j].end => rows[j].seq < rows[i].seq
        BY <1>1, <2>1, <2>4 DEF RowsInv
      <4>2. rows[j].seq \in Nat
        BY <2>1, RowTyped
      <4> QED BY <2>4, <4>1, <4>2
    <3>3. CASE x < y
      BY <2>2, <3>3 DEF SortsBefore
    <3>4. CASE x = y
      <4>1. rows[j].address = rows[i].address
        BY <2>2, <3>4
      <4>2. rows[j].end = FALSE /\ rows[i].end = FALSE
        BY <1>1, <1>3, <2>1, <3>2, RowTyped
      <4>3. rows[j].end = rows[i].end
        BY <4>2, Zenon
      <4> QED BY <2>4, <4>1, <4>3, Zenon DEF SortsBefore
    <3> QED BY <3>1, <3>3, <3>4
  <2>5. CASE rows[j].seq = rows[i].seq /\ j > i
    <3>1. i + 1 <= j /\ rows[i + 1].seq = rows[j].seq
      BY <1>1, <2>1, <2>5 DEF Covers
    <3>2. rows[i + 1].address <= rows[j].address
      BY <1>1, <2>1, <3>1, SequenceAscends
    <3>3. a < rows[i + 1].address /\ rows[i + 1].address \in Nat
      BY <1>1, RowTyped DEF Covers
    <3> QED BY <2>1, <2>2, <3>2, <3>3
  <2>6. j < i \/ j > i
    BY <1>1, <2>1
  <2> QED BY <2>3, <2>4, <2>5, <2>6
<1>5. Position(a) = i
  BY <1>2, <1>4, PositionUnique
<1> QED BY <1>2, <1>5 DEF Resolve

LEMMA GapsNowhere == RowsInv => GapsAreNowhere
<1> SUFFICES ASSUME RowsInv, Ascending, Closed, NEW a \in 0 .. (MaxAddress - 1),
                    \A i \in DOMAIN rows : ~Covers(i, a)
             PROVE  Resolve(a) = Nowhere
  BY DEF GapsAreNowhere
<1>1. CASE UpTo(a) = {}
  BY <1>1 DEF Resolve
<1>2. CASE UpTo(a) # {}
  <2>1. PICK p \in 1 .. Len(rows) :
          /\ p = Position(a) /\ p \in UpTo(a) /\ rows[p].address <= a
          /\ \A j \in UpTo(a) \ {p} : SortsBefore(j, p)
    BY <1>2, PositionIs
  <2>2. ASSUME ~rows[p].end
        PROVE  FALSE
    <3>1. /\ p + 1 \in 1 .. Len(rows) /\ rows[p + 1].seq = rows[p].seq
          /\ rows[p + 1].end => rows[p].address < rows[p + 1].address
      BY <2>1, <2>2, RowTyped DEF Closed
    <3>2. PICK x \in Nat, y \in Nat : x = rows[p].address /\ y = rows[p + 1].address
      BY <2>1, <3>1, RowTyped
    <3>3. x <= y
      BY <2>1, <3>1, <3>2, SequenceAscends
    <3>4. ~(a < y)
      BY <2>1, <3>1, <3>2, RowTyped DEF Covers
    <3>5. p + 1 \in UpTo(a) \ {p}
      <4>1. y <= a
        BY <3>2, <3>4
      <4> QED BY <2>1, <3>1, <3>2, <4>1, RowTyped DEF UpTo
    <3>6. SortsBefore(p + 1, p)
      BY <2>1, <3>5
    <3>7. y < x \/ (y = x /\ ~rows[p + 1].end /\ p + 1 < p)
      BY <2>2, <3>1, <3>2, <3>3, <3>6 DEF SortsBefore
    <3> QED BY <3>2, <3>3, <3>7
  <2> QED BY <1>2, <2>1, <2>2 DEF Resolve, Source
<1> QED BY <1>1, <1>2

-------------------------------------------------------------------------------
\* Whatever header, and however the advances are split among the opcodes: the
\* address is the one after all of them together (dwarf.py:349-355).
THEOREM AddressesAreExact == LineSpec => []AddressExact
<1>1. LineInv => AddressExact
  BY DEF LineInv, ProgramInv, AddressExact
<1> QED BY <1>1, LineInvInit, LineInvNext, PTL DEF LineSpec

\* For every section of any length, well-formed or not, the merged and sorted
\* table says of an address what the program that covers it says
\* (dwarf.py:175-180, 286-289).
THEOREM TableMatchesPrograms == LineSpec => []LookupsMatchProgram
<1>1. LineInv => LookupsMatchProgram
  BY LookupsMatch DEF LineInv
<1> QED BY <1>1, LineInvInit, LineInvNext, PTL DEF LineSpec

\* and of an address no program covers that it is nowhere (dwarf.py:169-172).
THEOREM TableKeepsGaps == LineSpec => []GapsAreNowhere
<1>1. LineInv => GapsAreNowhere
  BY GapsNowhere DEF LineInv
<1> QED BY <1>1, LineInvInit, LineInvNext, PTL DEF LineSpec

\* The span of an address contains it, and every lookup in it gives the same
\* answer, whatever rows share an address (dwarf.py:203-216).
THEOREM SpansAreConstant == LineSpec => []SpansConstant
<1>1. LineInv => SpansConstant
  BY SpanIsConstant DEF LineInv, SpansConstant
<1> QED BY <1>1, LineInvInit, LineInvNext, PTL DEF LineSpec
===============================================================================
