----------------------------- MODULE CoverageProofs -----------------------------
(***************************************************************************)
(* Theorems about the symbolizer's caches and runs, for every set of       *)
(* tables, every number of slots and every stream, beside whoever asks the *)
(* same symbolizer and a coverage report that walks through it; and about  *)
(* the rows of that report, for every list of sections and counts.         *)
(*                                                                         *)
(* What a slot holds depends on no other slot and on no earlier question:  *)
(* every span the tables give is honest, and a slot holds nothing else.    *)
(* So the proof is about the tables first: what the bisections find, that  *)
(* it is the same for all addresses of a span, then one step per question. *)
(*                                                                         *)
(* The rows are those of the instructions met so far, and each halfword    *)
(* that begins one adds it, with an address no other has. Their sums are   *)
(* folds, whose order does not matter: any function of the subsets from    *)
(* which each element takes its part is the fold.                          *)
(***************************************************************************)
EXTENDS Coverage, FiniteSetTheorems, SequenceTheorems, WellFoundedInduction, TLAPS

LEMMA LeastNatural ==
  ASSUME NEW T, T \subseteq Nat, T # {}
  PROVE  \E x \in T : \A y \in T : x <= y
<1>1. PICK x \in T : \A y \in T : ~(<<y, x>> \in OpToRel(<, Nat))
  BY NatLessThanWellFounded, WFMin
<1>2. ASSUME NEW y \in T
      PROVE  x <= y
  <2>1. x \in Nat /\ y \in Nat /\ <<y, x>> \in Nat \X Nat
    OBVIOUS
  <2>2. ~(y < x)
    BY <1>1, <2>1 DEF OpToRel
  <2> QED BY <2>1, <2>2
<1> QED BY <1>1, <1>2

LEMMA LeastIs ==
  ASSUME NEW T, T \subseteq Nat, T # {}
  PROVE  Min(T) \in T /\ \A y \in T : Min(T) <= y
  BY LeastNatural DEF Min

LEMMA GreatestIs ==
  ASSUME NEW n \in Nat, NEW T, T \subseteq 0 .. n, T # {}
  PROVE  Max(T) \in T /\ \A y \in T : y <= Max(T)
<1> DEFINE U == {n - y : y \in T}
<1>1. U \subseteq Nat /\ U # {}
  <2>1. \A y \in T : n - y \in Nat
    OBVIOUS
  <2> QED BY <2>1
<1> HIDE DEF U
<1>2. PICK x \in U : \A z \in U : x <= z
  BY <1>1, LeastNatural
<1>3. PICK g \in T : x = n - g
  BY <1>2 DEF U
<1>4. ASSUME NEW y \in T
      PROVE  y <= g
  <2>1. n - y \in U
    BY DEF U
  <2> QED BY <1>2, <1>3, <2>1
<1>5. \A y \in T : g >= y
  BY <1>4
<1> QED BY <1>3, <1>5 DEF Max

\* Of finitely many sizes one is the largest, and of the largest one the first.
LEMMA LargestFirst ==
  ASSUME NEW n \in Nat, NEW S \in SUBSET (1 .. n), S # {}, NEW size \in [1 .. n -> Nat]
  PROVE  \E i \in S : \A j \in S \ {i} :
           size[j] < size[i] \/ (size[j] = size[i] /\ i < j)
<1> DEFINE Best(i, k) == \A j \in (S \cap (1 .. k)) \ {i} :
                           size[j] < size[i] \/ (size[j] = size[i] /\ i < j)
           Some(k) == \E i \in S \cap (1 .. k) : Best(i, k)
           T == {k \in 0 .. n : S \cap (1 .. k) # {} /\ ~Some(k)}
<1>1. ASSUME T # {}
      PROVE  FALSE
  <2>1. PICK k \in T : \A y \in T : k <= y
    <3>1. T \subseteq Nat
      OBVIOUS
    <3> QED BY <1>1, <3>1, LeastNatural
  <2>2. k \in 0 .. n /\ S \cap (1 .. k) # {} /\ ~Some(k)
    BY <2>1
  <2>3. k # 0 /\ k - 1 \in 0 .. n /\ k - 1 \notin T
    <3>1. k # 0
      BY <2>2
    <3>2. k \in Nat /\ k - 1 \in 0 .. n /\ ~(k <= k - 1)
      BY <2>2, <3>1
    <3> HIDE DEF T
    <3> QED BY <2>1, <3>1, <3>2
  <2>4. CASE S \cap (1 .. (k - 1)) = {}
    <3>1. \A j \in S \cap (1 .. k) : j = k
      <4>1. \A j \in 1 .. k : j = k \/ j \in 1 .. (k - 1)
        BY <2>2
      <4> QED BY <2>4, <4>1
    <3>2. k \in S \cap (1 .. k) /\ Best(k, k)
      BY <2>2, <3>1
    <3> QED BY <2>2, <3>2
  <2>5. CASE Some(k - 1)
    <3>1. PICK b \in S \cap (1 .. (k - 1)) : Best(b, k - 1)
      BY <2>5
    <3>2. \A j \in S \cap (1 .. k) : j = k \/ j \in S \cap (1 .. (k - 1))
      BY <2>2
    <3>3. b \in S \cap (1 .. k) /\ b < k /\ size[b] \in Nat
      BY <2>2, <3>1
    <3>4. CASE k \in S /\ size[k] > size[b]
      <4>1. k \in S \cap (1 .. k) /\ size[k] \in Nat
        BY <2>2, <2>3, <3>4
      <4>2. ASSUME NEW j \in (S \cap (1 .. k)) \ {k}
            PROVE  size[j] < size[k]
        <5>1. j = b \/ (j \in (S \cap (1 .. (k - 1))) \ {b})
          BY <3>2
        <5>2. PICK x \in Nat : x = size[j]
          OBVIOUS
        <5>3. PICK y \in Nat : y = size[k]
          BY <4>1
        <5>4. PICK z \in Nat : z = size[b]
          BY <3>3
        <5>5. z < y
          BY <3>4, <5>3, <5>4
        <5>6. j = b => x = z
          BY <5>2, <5>4
        <5>7. j # b => (size[j] < size[b] \/ size[j] = size[b])
          BY <3>1, <5>1
        <5>8. x <= z
          <6>1. CASE j = b
            BY <5>6, <6>1
          <6>2. CASE j # b
            <7>1. x < z \/ x = z
              BY ONLY <5>2, <5>4, <5>7, <6>2
            <7> QED BY <7>1
          <6> QED BY <6>1, <6>2
        <5> QED BY <5>2, <5>3, <5>5, <5>8
      <4>3. Best(k, k)
        BY <4>2
      <4> QED BY <2>2, <4>1, <4>3
    <3>5. CASE ~(k \in S /\ size[k] > size[b])
      <4>1. ASSUME NEW j \in (S \cap (1 .. k)) \ {b}
            PROVE  size[j] < size[b] \/ (size[j] = size[b] /\ b < j)
        <5>1. CASE j = k
          BY <3>3, <3>5, <5>1
        <5>2. CASE j # k
          BY <3>1, <3>2, <5>2
        <5> QED BY <5>1, <5>2
      <4>2. Best(b, k)
        BY <4>1
      <4> QED BY <2>2, <3>3, <4>2
    <3> QED BY <3>4, <3>5
  <2> QED BY <2>3, <2>4, <2>5
<1>2. n \notin T /\ S \cap (1 .. n) = S
  BY <1>1
<1>3. Some(n)
  BY <1>2
<1> QED BY <1>2, <1>3

(***************************************************************************)
(* The tables: what the bisections find.                                   *)
(***************************************************************************)
EntryOf(t) == Max(EntriesUpTo(t))
SizeOf(t) == image.symbols[SymbolAt(EntryOf(t))].size

LEMMA MaskedIs ==
  ASSUME NEW a \in Nat
  PROVE  /\ Masked(a) \in Nat /\ Masked(a) <= a
         /\ a % 2 = 0 => Masked(a) = a
         /\ a % 2 # 0 => a % 2 = 1 /\ Masked(a) = a - 1
         /\ Masked(a) % 2 = 0
         /\ \A e \in Nat : e % 2 = 0 /\ e <= a => e <= Masked(a)
  BY DEF Masked

LEMMA SymbolsTyped ==
  ASSUME image \in Images
  PROVE  /\ Len(image.symbols) \in Nat
         /\ Functions \subseteq 1 .. Len(image.symbols)
         /\ \A i \in 1 .. Len(image.symbols) : image.symbols[i].size \in Nat
         /\ \A i \in Functions : Entry(i) \in Nat /\ Entry(i) % 2 = 0
         /\ Entries \subseteq Nat
<1>1. image.symbols \in Seq([value : Nat, size : Nat, function : BOOLEAN])
  BY SymbolizerAssumption DEF Image
<1>a. PICK R : R = [value : Nat, size : Nat, function : BOOLEAN]
  OBVIOUS
<1>2. Len(image.symbols) \in Nat /\ DOMAIN image.symbols = 1 .. Len(image.symbols)
  BY <1>1
<1>3. \A i \in 1 .. Len(image.symbols) :
        image.symbols[i].size \in Nat /\ image.symbols[i].value \in Nat
  <2>1. image.symbols \in Seq(R)
    BY <1>1, <1>a
  <2>2. \A i \in 1 .. Len(image.symbols) : image.symbols[i] \in R
    BY <2>1
  <2> QED BY <1>a, <2>2
<1>4. Functions \subseteq 1 .. Len(image.symbols)
  BY <1>2 DEF Functions
<1>5. ASSUME NEW i \in Functions
      PROVE  Entry(i) \in Nat /\ Entry(i) % 2 = 0
  <2>1. image.symbols[i].value \in Nat
    BY <1>3, <1>4
  <2> QED BY <2>1, MaskedIs DEF Entry
<1> QED BY <1>2, <1>3, <1>4, <1>5 DEF Entries

LEMMA SymbolAtEntry ==
  ASSUME image \in Images, NEW e \in Entries
  PROVE  SymbolAt(e) \in Functions /\ SymbolAt(e) # NoFunction /\ Entry(SymbolAt(e)) = e
<1>1. PICK n \in Nat : n = Len(image.symbols)
  BY SymbolsTyped
<1>2. PICK size \in [1 .. n -> Nat] : size = [i \in 1 .. n |-> image.symbols[i].size]
  <2>1. [i \in 1 .. n |-> image.symbols[i].size] \in [1 .. n -> Nat]
    BY <1>1, SymbolsTyped
  <2> QED BY <2>1, Zenon
<1>3. PICK S \in SUBSET (1 .. n) : S = {i \in Functions : Entry(i) = e}
  BY <1>1, SymbolsTyped
<1>4. S # {}
  BY <1>3 DEF Entries
<1>5. PICK i \in S : \A j \in S \ {i} : size[j] < size[i] \/ (size[j] = size[i] /\ i < j)
  BY <1>4, LargestFirst
<1>6. \A j \in S : size[j] = image.symbols[j].size
  BY <1>2
<1>7. i \in Functions /\ Entry(i) = e
  BY <1>3
<1>8. \A j \in Functions \ {i} : Entry(j) = e =>
        \/ image.symbols[j].size < image.symbols[i].size
        \/ image.symbols[j].size = image.symbols[i].size /\ i < j
  <2> SUFFICES ASSUME NEW j \in Functions \ {i}, Entry(j) = e
               PROVE  \/ image.symbols[j].size < image.symbols[i].size
                      \/ image.symbols[j].size = image.symbols[i].size /\ i < j
    OBVIOUS
  <2>1. j \in S \ {i}
    BY <1>3
  <2> QED BY <1>5, <1>6, <2>1
<1>9. SymbolAt(e) \in Functions /\ Entry(SymbolAt(e)) = e
  BY <1>7, <1>8 DEF SymbolAt
<1> QED BY <1>1, <1>9, SymbolsTyped DEF NoFunction

\* The entries next to an address, and the symbol at the one before it.
LEMMA Neighbours ==
  ASSUME image \in Images, NEW t \in Nat
  PROVE  /\ NextEntry(t) \in Nat /\ NextEntry(t) <= MaxAddress
         /\ t < MaxAddress => t < NextEntry(t)
         /\ \A e \in Entries : e > t => NextEntry(t) <= e
         /\ EntriesUpTo(t) # {} =>
              /\ EntryOf(t) \in Nat /\ EntryOf(t) <= t /\ EntryOf(t) % 2 = 0
              /\ \A e \in Entries : e <= t => e <= EntryOf(t)
              /\ SymbolAt(EntryOf(t)) \in Functions
              /\ SymbolAt(EntryOf(t)) # NoFunction
              /\ SizeOf(t) \in Nat
<1>1. Entries \subseteq Nat /\ MaxAddress \in Nat
  BY SymbolsTyped, SymbolizerAssumption
<1> DEFINE Later == {e \in Entries : e > t} \cup {MaxAddress}
<1>2. Later \subseteq Nat /\ Later # {}
  BY <1>1
<1>3. Min(Later) \in Later /\ \A y \in Later : Min(Later) <= y
  BY <1>2, LeastIs
<1>4. NextEntry(t) = Min(Later)
  BY DEF NextEntry
<1>5. /\ NextEntry(t) \in Nat /\ NextEntry(t) <= MaxAddress
      /\ t < MaxAddress => t < NextEntry(t)
      /\ \A e \in Entries : e > t => NextEntry(t) <= e
  BY <1>1, <1>2, <1>3, <1>4
<1>6. ASSUME EntriesUpTo(t) # {}
      PROVE  /\ EntryOf(t) \in Nat /\ EntryOf(t) <= t /\ EntryOf(t) % 2 = 0
             /\ \A e \in Entries : e <= t => e <= EntryOf(t)
             /\ SymbolAt(EntryOf(t)) \in Functions
             /\ SymbolAt(EntryOf(t)) # NoFunction
             /\ SizeOf(t) \in Nat
  <2>1. EntriesUpTo(t) \subseteq 0 .. t
    <3>1. \A e \in EntriesUpTo(t) : e \in Nat /\ e <= t
      BY <1>1 DEF EntriesUpTo
    <3> QED BY <3>1
  <2>2. EntryOf(t) \in EntriesUpTo(t) /\ \A y \in EntriesUpTo(t) : y <= EntryOf(t)
    BY <1>6, <2>1, GreatestIs DEF EntryOf
  <2>3. EntryOf(t) \in Entries /\ EntryOf(t) \in 0 .. t
    BY <2>1, <2>2 DEF EntriesUpTo
  <2>4. \A e \in Entries : e <= t => e <= EntryOf(t)
    BY <2>2 DEF EntriesUpTo
  <2>5. PICK s : s = SymbolAt(EntryOf(t))
    OBVIOUS
  <2>6. s \in Functions /\ s # NoFunction /\ Entry(s) = EntryOf(t)
    BY <2>3, <2>5, SymbolAtEntry
  <2>7. image.symbols[s].size \in Nat /\ EntryOf(t) % 2 = 0
    BY <2>6, SymbolsTyped
  <2>8. SizeOf(t) \in Nat
    BY <2>5, <2>7 DEF SizeOf
  <2> QED BY <2>3, <2>4, <2>5, <2>6, <2>7, <2>8
<1> QED BY <1>5, <1>6

LEMMA SameNeighbours ==
  ASSUME NEW t, NEW u, \A e \in Entries : e <= t <=> e <= u
  PROVE  EntriesUpTo(t) = EntriesUpTo(u) /\ EntryOf(t) = EntryOf(u) /\ SizeOf(t) = SizeOf(u)
<1>1. EntriesUpTo(t) = EntriesUpTo(u)
  BY DEF EntriesUpTo
<1>2. EntryOf(t) = EntryOf(u)
  BY <1>1 DEF EntryOf
<1> QED BY <1>1, <1>2 DEF SizeOf

\* Both functions of elf.py, by the three ways an address can lie.
ReachOf(t) ==
  IF SizeOf(t) = 0 THEN NextEntry(t)
  ELSE Min({EntryOf(t) + SizeOf(t), NextEntry(t)})

LEMMA ReachIs ==
  ASSUME image \in Images, NEW t \in Nat, EntriesUpTo(t) # {}
  PROVE  /\ ReachOf(t) \in Nat /\ ReachOf(t) <= NextEntry(t)
         /\ SizeOf(t) = 0 => ReachOf(t) = NextEntry(t)
         /\ SizeOf(t) # 0 => ReachOf(t) <= EntryOf(t) + SizeOf(t)
         /\ ReachOf(t) < NextEntry(t) => ReachOf(t) = EntryOf(t) + SizeOf(t)
<1>1. EntryOf(t) \in Nat /\ SizeOf(t) \in Nat /\ NextEntry(t) \in Nat
  BY Neighbours
<1>2. CASE SizeOf(t) = 0
  BY <1>1, <1>2 DEF ReachOf
<1>3. CASE SizeOf(t) # 0
  <2>1. PICK x \in Nat : x = EntryOf(t) + SizeOf(t)
    BY <1>1
  <2>2. PICK y \in Nat : y = NextEntry(t)
    BY <1>1
  <2>3. {x, y} \subseteq Nat /\ {x, y} # {}
    OBVIOUS
  <2>4. Min({x, y}) \in {x, y} /\ Min({x, y}) <= x /\ Min({x, y}) <= y
    BY <2>3, LeastIs
  <2>5. ReachOf(t) = Min({x, y})
    BY <1>3, <2>1, <2>2 DEF ReachOf
  <2> QED BY <1>1, <1>3, <2>1, <2>2, <2>4, <2>5
<1> QED BY <1>2, <1>3

LEMMA FunctionSpanIs ==
  ASSUME image \in Images, NEW a \in Nat, NEW t \in Nat, t = Masked(a)
  PROVE  FunctionSpan(a) =
           IF EntriesUpTo(t) = {}
           THEN [start |-> 0, end |-> NextEntry(t), is |-> NoFunction]
           ELSE IF t < ReachOf(t)
           THEN [start |-> EntryOf(t), end |-> ReachOf(t), is |-> SymbolAt(EntryOf(t))]
           ELSE [start |-> ReachOf(t), end |-> NextEntry(t), is |-> NoFunction]
  BY Zenon DEF FunctionSpan, EntryOf, SizeOf, ReachOf

LEMMA ContainingIs ==
  ASSUME NEW a \in Nat, NEW t \in Nat, t = Masked(a)
  PROVE  Containing(a) =
           IF EntriesUpTo(t) # {} /\ (SizeOf(t) = 0 \/ t < EntryOf(t) + SizeOf(t))
           THEN SymbolAt(EntryOf(t)) ELSE NoFunction
  BY Zenon DEF Containing, EntryOf, SizeOf

(***************************************************************************)
(* A span is honest when every address in it, the odd end excepted, has    *)
(* the answer the span gives.                                              *)
(***************************************************************************)
Lines == {<<>>} \cup (Nat \X Nat)
FnSpan == [start : Nat, end : Nat, is : Nat]
SrcSpan == [start : Nat, end : Nat, is : Lines]

FnHonest(s) ==
  /\ s = Empty \/ s.is \in Functions \cup {NoFunction}
  /\ \A a \in s.start .. (s.end - 1) : ~OddEnd(a) => s.is = Containing(a)
SrcHonest(s) == \A a \in s.start .. (s.end - 1) : s.is = SourceSpan(a).is

\* The bounds of a span are the bounds of what the bisection of any address in
\* it finds.
LEMMA FunctionSpanTyped ==
  ASSUME image \in Images, NEW a \in Nat
  PROVE  FunctionSpan(a) \in FnSpan
<1>1. PICK t \in Nat : t = Masked(a)
  BY MaskedIs
<1>2. NextEntry(t) \in Nat /\ NoFunction \in Nat
  BY Neighbours DEF NoFunction
<1>3. CASE EntriesUpTo(t) = {}
  BY <1>1, <1>2, <1>3, FunctionSpanIs DEF FnSpan
<1>4. CASE EntriesUpTo(t) # {}
  <2>1. EntryOf(t) \in Nat /\ ReachOf(t) \in Nat /\ SymbolAt(EntryOf(t)) \in Nat
    <3>1. SymbolAt(EntryOf(t)) \in Functions
      BY <1>4, Neighbours
    <3>2. \A i \in Functions : i \in Nat
      BY SymbolsTyped
    <3> QED BY <1>4, <3>1, <3>2, Neighbours, ReachIs
  <2>2. CASE t < ReachOf(t)
    BY <1>1, <1>4, <2>1, <2>2, FunctionSpanIs DEF FnSpan
  <2>3. CASE ~(t < ReachOf(t))
    BY <1>1, <1>2, <1>4, <2>1, <2>3, FunctionSpanIs DEF FnSpan
  <2> QED BY <2>2, <2>3
<1> QED BY <1>3, <1>4

LEMMA FunctionSpanHonest ==
  ASSUME image \in Images, NEW a \in Nat
  PROVE  /\ FunctionSpan(a).is \in Functions \cup {NoFunction}
         /\ FnHonest(FunctionSpan(a))
<1>1. PICK t \in Nat : t = Masked(a)
  BY MaskedIs
<1>2. PICK n \in Nat : n = NextEntry(t)
  BY Neighbours
<1>3. \A e \in Entries : e \in Nat /\ e % 2 = 0 /\ (e > t => n <= e)
  <2>1. \A e \in Entries : e \in Nat /\ e % 2 = 0
    BY SymbolsTyped DEF Entries
  <2> QED BY <1>2, <2>1, Neighbours
<1>4. CASE EntriesUpTo(t) = {}
  <2>1. FunctionSpan(a) = [start |-> 0, end |-> n, is |-> NoFunction]
    BY <1>1, <1>2, <1>4, FunctionSpanIs
  <2>2. ASSUME NEW b \in 0 .. (n - 1)
        PROVE  Containing(b) = NoFunction
    <3>1. PICK u \in Nat : u = Masked(b) /\ u <= b
      BY MaskedIs
    <3>2. \A e \in Entries : e <= t <=> e <= u
      <4>1. \A e \in Entries : ~(e <= t)
        BY <1>4 DEF EntriesUpTo
      <4> QED BY <1>3, <3>1, <4>1
    <3>3. EntriesUpTo(u) = {}
      BY <1>4, <3>2, SameNeighbours
    <3> QED BY <3>1, <3>3, ContainingIs
  <2> QED BY <2>1, <2>2 DEF FnHonest
<1>5. CASE EntriesUpTo(t) # {}
  <2>1. PICK e0 \in Nat : e0 = EntryOf(t) /\ e0 <= t /\ e0 % 2 = 0
    BY <1>5, Neighbours
  <2>2. PICK z \in Nat : z = SizeOf(t)
    BY <1>5, Neighbours
  <2>3. PICK r \in Nat : /\ r = ReachOf(t) /\ r <= n
                         /\ z = 0 => r = n
                         /\ z # 0 => r <= e0 + z
                         /\ r < n => r = e0 + z
    BY <1>2, <1>5, <2>1, <2>2, ReachIs
  <2>4. \A e \in Entries : e <= t => e <= e0
    BY <1>5, <2>1, Neighbours
  <2>5. ASSUME NEW u \in Nat, e0 <= u, u < n
        PROVE  EntriesUpTo(u) # {} /\ EntryOf(u) = e0 /\ SizeOf(u) = z /\ NextEntry(u) = n
               /\ ReachOf(u) = r
    <3>1. \A e \in Entries : e <= t <=> e <= u
      BY <1>3, <2>1, <2>4, <2>5
    <3>2. EntriesUpTo(u) # {} /\ EntryOf(u) = e0 /\ SizeOf(u) = z
      BY <1>5, <2>1, <2>2, <3>1, SameNeighbours
    <3>3. {e \in Entries : e > u} = {e \in Entries : e > t}
      BY <1>3, <3>1
    <3>4. NextEntry(u) = n
      BY <1>2, <3>3 DEF NextEntry
    <3> QED BY <1>2, <2>1, <2>2, <2>3, <3>2, <3>4 DEF ReachOf
  <2>6. CASE t < r
    <3>1. FunctionSpan(a) = [start |-> e0, end |-> r, is |-> SymbolAt(e0)]
      BY <1>1, <1>5, <2>1, <2>3, <2>6, FunctionSpanIs
    <3>2. ASSUME NEW b \in e0 .. (r - 1)
          PROVE  Containing(b) = SymbolAt(e0)
      <4>1. PICK u \in Nat : u = Masked(b) /\ u <= b /\ e0 <= u
        BY <2>1, MaskedIs
      <4>2. EntriesUpTo(u) # {} /\ EntryOf(u) = e0 /\ SizeOf(u) = z
        BY <2>3, <2>5, <4>1
      <4>3. z = 0 \/ u < e0 + z
        BY <2>3, <4>1
      <4> QED BY <4>1, <4>2, <4>3, ContainingIs
    <3>3. SymbolAt(e0) \in Functions
      BY <1>5, <2>1, Neighbours
    <3> QED BY <3>1, <3>2, <3>3 DEF FnHonest
  <2>7. CASE ~(t < r)
    <3>1. FunctionSpan(a) = [start |-> r, end |-> n, is |-> NoFunction]
      BY <1>1, <1>2, <1>5, <2>3, <2>7, FunctionSpanIs
    <3>2. ASSUME NEW b \in r .. (n - 1), ~OddEnd(b)
          PROVE  Containing(b) = NoFunction
      <4>1. z # 0 /\ r = e0 + z /\ r < n
        BY <2>3, <3>2
      <4>a. b \in Nat
        BY <2>3
      <4>2. PICK u \in Nat : u = Masked(b)
        BY <4>a, MaskedIs
      <4>3. b % 2 = 0 => u = b
        BY <4>a, <4>2, MaskedIs
      <4>4. b % 2 # 0 => b % 2 = 1 /\ u = b - 1
        BY <4>a, <4>2, MaskedIs
      <4>5. e0 <= u /\ u < n
        BY <4>1, <4>3, <4>4
      <4>6. EntriesUpTo(u) # {} /\ EntryOf(u) = e0 /\ SizeOf(u) = z /\ ReachOf(u) = r
        BY <2>5, <4>5
      <4>7. ASSUME u < r
            PROVE  FALSE
        <5>1. b = r /\ b % 2 = 1
          BY <4>3, <4>4, <4>7
        <5>2. FunctionSpan(b).end = r
          BY <4>2, <4>6, <4>7, FunctionSpanIs
        <5> QED BY <3>2, <5>1, <5>2 DEF OddEnd
      <4>8. ~(z = 0 \/ u < e0 + z)
        BY <4>1, <4>7
      <4> QED BY <4>2, <4>6, <4>8, ContainingIs
    <3> QED BY <3>1, <3>2 DEF FnHonest
  <2> QED BY <2>6, <2>7
<1> QED BY <1>4, <1>5

\* The span an address is asked for answers for that address, inside it or not.
LEMMA FunctionSpanOfIts ==
  ASSUME image \in Images, NEW a \in Addresses
  PROVE  FunctionSpan(a).is = Containing(a)
<1>1. PICK t \in Nat : t = Masked(a) /\ t <= a
  BY MaskedIs DEF Addresses
<1>2. t < NextEntry(t) /\ NextEntry(t) \in Nat
  <2>1. t < MaxAddress
    BY <1>1, SymbolizerAssumption DEF Addresses
  <2> QED BY <2>1, Neighbours
<1>3. CASE EntriesUpTo(t) = {}
  BY <1>1, <1>3, FunctionSpanIs, ContainingIs DEF Addresses
<1>4. CASE EntriesUpTo(t) # {}
  <2>1. t < ReachOf(t) <=> SizeOf(t) = 0 \/ t < EntryOf(t) + SizeOf(t)
    <3>1. EntryOf(t) \in Nat /\ SizeOf(t) \in Nat /\ ReachOf(t) \in Nat
      BY <1>4, Neighbours, ReachIs
    <3> QED BY <1>2, <1>4, <3>1, ReachIs
  <2>2. a \in Nat
    BY DEF Addresses
  <2>3. CASE t < ReachOf(t)
    BY <1>1, <1>4, <2>1, <2>2, <2>3, FunctionSpanIs, ContainingIs
  <2>4. CASE ~(t < ReachOf(t))
    BY <1>1, <1>4, <2>1, <2>2, <2>4, FunctionSpanIs, ContainingIs
  <2> QED BY <2>3, <2>4
<1> QED BY <1>3, <1>4

\* The rows, in the order of the table: the last at or before an address, and
\* where the next begins.
RowsTo(a) == {i \in DOMAIN image.rows : image.rows[i].address <= a}
NextRow(a) ==
  Min({image.rows[i].address : i \in DOMAIN image.rows \ RowsTo(a)} \cup {MaxAddress})
LineOf(i) ==
  IF image.rows[i].file = 0 THEN <<>> ELSE <<image.rows[i].file, image.rows[i].line>>

LEMMA SourceSpanIs ==
  ASSUME NEW a
  PROVE  SourceSpan(a) =
           IF RowsTo(a) = {} THEN [start |-> 0, end |-> NextRow(a), is |-> <<>>]
           ELSE [start |-> image.rows[Max(RowsTo(a))].address, end |-> NextRow(a),
                 is |-> LineOf(Max(RowsTo(a)))]
  BY Zenon DEF SourceSpan, RowsTo, NextRow, LineOf

LEMMA RowsTyped ==
  ASSUME image \in Images
  PROVE  /\ Len(image.rows) \in Nat /\ DOMAIN image.rows = 1 .. Len(image.rows)
         /\ \A i \in 1 .. Len(image.rows) :
              image.rows[i].address \in Nat /\ LineOf(i) \in Lines
<1>1. image.rows \in Seq([address : Nat, file : Nat, line : Nat])
  BY SymbolizerAssumption DEF Image
<1>2. PICK R : R = [address : Nat, file : Nat, line : Nat]
  OBVIOUS
<1>3. image.rows \in Seq(R)
  BY <1>1, <1>2
<1>4. /\ Len(image.rows) \in Nat /\ DOMAIN image.rows = 1 .. Len(image.rows)
      /\ \A i \in 1 .. Len(image.rows) : image.rows[i] \in R
  BY <1>3
<1>5. ASSUME NEW i \in 1 .. Len(image.rows)
      PROVE  image.rows[i].address \in Nat /\ LineOf(i) \in Lines
  <2>1. /\ image.rows[i].address \in Nat /\ image.rows[i].file \in Nat
        /\ image.rows[i].line \in Nat
    BY <1>2, <1>4
  <2> QED BY <2>1 DEF LineOf, Lines
<1> QED BY <1>4, <1>5

LEMMA RowIs ==
  ASSUME image \in Images, NEW a \in Nat
  PROVE  /\ NextRow(a) \in Nat
         /\ \A i \in DOMAIN image.rows : image.rows[i].address < NextRow(a) => i \in RowsTo(a)
         /\ RowsTo(a) # {} =>
              /\ Max(RowsTo(a)) \in RowsTo(a)
              /\ Max(RowsTo(a)) \in 1 .. Len(image.rows)
              /\ \A i \in RowsTo(a) : i <= Max(RowsTo(a))
         /\ a < MaxAddress => a < NextRow(a)
<1> DEFINE Later == {image.rows[i].address : i \in DOMAIN image.rows \ RowsTo(a)} \cup {MaxAddress}
<1>1. Later \subseteq Nat /\ Later # {} /\ MaxAddress \in Nat
  BY RowsTyped, SymbolizerAssumption
<1>2. NextRow(a) \in Later /\ \A y \in Later : NextRow(a) <= y
  BY <1>1, LeastIs DEF NextRow
<1>3. ASSUME NEW i \in DOMAIN image.rows, image.rows[i].address < NextRow(a)
      PROVE  i \in RowsTo(a)
  <2>1. i \notin RowsTo(a) => NextRow(a) <= image.rows[i].address
    BY <1>2
  <2>2. image.rows[i].address \in Nat /\ NextRow(a) \in Nat
    BY <1>1, <1>2, RowsTyped
  <2> QED BY <1>3, <2>1, <2>2
<1>4. ASSUME RowsTo(a) # {}
      PROVE  /\ Max(RowsTo(a)) \in RowsTo(a)
             /\ Max(RowsTo(a)) \in 1 .. Len(image.rows)
             /\ \A i \in RowsTo(a) : i <= Max(RowsTo(a))
  <2>1. \A i \in RowsTo(a) : i \in 1 .. Len(image.rows)
    BY RowsTyped DEF RowsTo
  <2>2. RowsTo(a) \subseteq 0 .. Len(image.rows) /\ Len(image.rows) \in Nat
    BY <2>1, RowsTyped
  <2>3. Max(RowsTo(a)) \in RowsTo(a) /\ \A i \in RowsTo(a) : i <= Max(RowsTo(a))
    BY <1>4, <2>2, GreatestIs
  <2> QED BY <2>1, <2>3
<1>5. ASSUME a < MaxAddress
      PROVE  a < NextRow(a)
  <2>1. \A y \in Later : a < y
    <3>1. \A i \in DOMAIN image.rows \ RowsTo(a) : a < image.rows[i].address
      BY RowsTyped DEF RowsTo
    <3> QED BY <1>5, <3>1
  <2> QED BY <1>2, <2>1
<1> QED BY <1>1, <1>2, <1>3, <1>4, <1>5

LEMMA SourceSpanHonest ==
  ASSUME image \in Images, NEW a \in Nat
  PROVE  /\ SourceSpan(a) \in SrcSpan /\ SrcHonest(SourceSpan(a))
         /\ a < MaxAddress => Within(SourceSpan(a), a)
<1>1. PICK n \in Nat : n = NextRow(a)
  BY RowIs
<1>2. CASE RowsTo(a) = {}
  <2>1. SourceSpan(a) = [start |-> 0, end |-> n, is |-> <<>>]
    BY <1>1, <1>2, SourceSpanIs
  <2>2. ASSUME NEW b \in 0 .. (n - 1)
        PROVE  SourceSpan(b).is = <<>>
    <3>1. RowsTo(b) = {}
      <4>1. ASSUME NEW i \in RowsTo(b)
            PROVE  FALSE
        <5>1. i \in DOMAIN image.rows /\ image.rows[i].address <= b /\ image.rows[i].address \in Nat
          BY RowsTyped DEF RowsTo
        <5>2. image.rows[i].address < n
          BY <5>1
        <5> QED BY <1>1, <1>2, <5>1, <5>2, RowIs
      <4> QED BY <4>1
    <3> QED BY <3>1, SourceSpanIs
  <2>3. SourceSpan(a) \in SrcSpan
    BY <2>1 DEF SrcSpan, Lines
  <2>4. a < MaxAddress => Within(SourceSpan(a), a)
    BY <1>1, <2>1, RowIs DEF Within
  <2> QED BY <2>1, <2>2, <2>3, <2>4 DEF SrcHonest
<1>3. CASE RowsTo(a) # {}
  <2>1. PICK r \in 1 .. Len(image.rows) :
          r = Max(RowsTo(a)) /\ r \in RowsTo(a) /\ \A i \in RowsTo(a) : i <= r
    BY <1>3, RowIs
  <2>2. PICK s \in Nat : s = image.rows[r].address
    BY RowsTyped
  <2>3. SourceSpan(a) = [start |-> s, end |-> n, is |-> LineOf(r)]
    BY <1>1, <1>3, <2>1, <2>2, SourceSpanIs
  <2>4. ASSUME NEW b \in s .. (n - 1)
        PROVE  SourceSpan(b).is = LineOf(r)
    <3>1. r \in RowsTo(b)
      BY <2>2, RowsTyped DEF RowsTo
    <3>2. ASSUME NEW i \in RowsTo(b)
          PROVE  i <= r
      <4>1. i \in DOMAIN image.rows /\ image.rows[i].address <= b /\ image.rows[i].address \in Nat
        BY RowsTyped DEF RowsTo
      <4>2. image.rows[i].address < n
        BY <4>1
      <4>3. i \in RowsTo(a)
        BY <1>1, <4>1, <4>2, RowIs
      <4> QED BY <2>1, <4>3
    <3>3. b \in Nat
      BY <2>2
    <3>4. /\ Max(RowsTo(b)) \in RowsTo(b) /\ Max(RowsTo(b)) \in Nat
          /\ \A i \in RowsTo(b) : i <= Max(RowsTo(b))
      BY <3>1, <3>3, RowIs
    <3>5. Max(RowsTo(b)) = r
      BY <3>1, <3>2, <3>4
    <3> QED BY <3>1, <3>5, SourceSpanIs
  <2>5. SourceSpan(a) \in SrcSpan
    BY <2>2, <2>3, RowsTyped DEF SrcSpan
  <2>6. s <= a
    BY <2>1, <2>2 DEF RowsTo
  <2>7. a < MaxAddress => Within(SourceSpan(a), a)
    BY <1>1, <2>3, <2>6, RowIs DEF Within
  <2> QED BY <2>3, <2>4, <2>5, <2>7 DEF SrcHonest
<1> QED BY <1>2, <1>3

(***************************************************************************)
(* The caches.                                                             *)
(***************************************************************************)
FnCaches == [0 .. (Slots - 1) -> FnSpan \cup {Empty}]
SrcCaches == [0 .. (Slots - 1) -> SrcSpan \cup {Empty}]
FnAll(c) == \A s \in 0 .. (Slots - 1) : FnHonest(c[s])
SrcAll(c) == \A s \in 0 .. (Slots - 1) : SrcHonest(c[s])

CacheInv ==
  /\ image \in Images
  /\ fnCache \in FnCaches /\ FnAll(fnCache)
  /\ srcCache \in SrcCaches /\ SrcAll(srcCache)

LEMMA TablesStay ==
  ASSUME image' = image
  PROVE  /\ Functions' = Functions
         /\ \A a : Containing(a)' = Containing(a)
         /\ \A a : OddEnd(a)' = OddEnd(a)
         /\ \A a : SourceSpan(a)' = SourceSpan(a)
<1>a. Functions' = Functions
  BY image' = image, Zenon DEF Functions
<1>b. ASSUME NEW CONSTANT i
      PROVE  Entry(i)' = Entry(i)
  BY image' = image, Zenon DEF Entry
<1>c. Entries' = Entries
  BY <1>a, <1>b DEF Entries
<1>d. ASSUME NEW CONSTANT e
      PROVE  SymbolAt(e)' = SymbolAt(e)
  BY image' = image, <1>a, <1>b DEF SymbolAt
<1>e. ASSUME NEW CONSTANT a
      PROVE  EntriesUpTo(a)' = EntriesUpTo(a) /\ NextEntry(a)' = NextEntry(a)
  BY <1>c DEF EntriesUpTo, NextEntry
<1>1. ASSUME NEW CONSTANT a
      PROVE  Containing(a)' = Containing(a)
  BY image' = image, <1>d, <1>e, Zenon DEF Containing
<1>2. ASSUME NEW CONSTANT a
      PROVE  OddEnd(a)' = OddEnd(a)
  <2>1. PICK t : t = Masked(a)
    OBVIOUS
  <2>2. EntriesUpTo(t)' = EntriesUpTo(t) /\ NextEntry(t)' = NextEntry(t)
    BY <1>e
  <2>3. PICK e : e = Max(EntriesUpTo(t))
    OBVIOUS
  <2>4. SymbolAt(e)' = SymbolAt(e)
    BY <1>d
  <2>5. FunctionSpan(a)' = FunctionSpan(a)
    BY image' = image, <2>1, <2>2, <2>3, <2>4, Zenon DEF FunctionSpan
  <2> QED BY <2>5, Zenon DEF OddEnd
<1>3. ASSUME NEW CONSTANT a
      PROVE  SourceSpan(a)' = SourceSpan(a)
  BY image' = image, Zenon DEF SourceSpan
<1> QED BY <1>a, <1>1, <1>2, <1>3

LEMMA CachesMove ==
  ASSUME image \in Images, image' = image,
         fnCache' \in FnCaches, FnAll(fnCache'), srcCache' \in SrcCaches, SrcAll(srcCache')
  PROVE  CacheInv'
<1>1. \A s \in 0 .. (Slots - 1) : \A a \in fnCache'[s].start .. (fnCache'[s].end - 1) :
        ~OddEnd(a)' => fnCache'[s].is = Containing(a)'
  BY TablesStay DEF FnAll, FnHonest
<1>a. \A s \in 0 .. (Slots - 1) :
        fnCache'[s] = Empty \/ fnCache'[s].is \in Functions' \cup {NoFunction}
  BY TablesStay DEF FnAll, FnHonest
<1>2. \A s \in 0 .. (Slots - 1) : \A a \in srcCache'[s].start .. (srcCache'[s].end - 1) :
        srcCache'[s].is = SourceSpan(a).is'
  BY TablesStay DEF SrcAll, SrcHonest
<1> QED BY <1>1, <1>a, <1>2
        DEF CacheInv, FnAll, FnHonest, SrcAll, SrcHonest, FnCaches, SrcCaches, FnSpan, SrcSpan,
            Lines, Empty, NoFunction

LEMMA SlotIn ==
  ASSUME NEW t \in Nat
  PROVE  Slot(t) \in 0 .. (Slots - 1)
  BY SymbolizerAssumption DEF Slot

\* What is asked is answered by an honest span that contains it, whatever the
\* caches hold, and leaves an honest span in its slot.
LEMMA FunctionAnswer ==
  ASSUME image \in Images, NEW c \in FnCaches, FnAll(c), NEW t \in Addresses
  PROVE  /\ FunctionEntry(c, t) \in FnSpan /\ FnHonest(FunctionEntry(c, t))
         /\ Within(FunctionEntry(c, t), t)
         /\ AskedFunction(c, t) \in FnCaches /\ FnAll(AskedFunction(c, t))
<1>1. t \in Nat /\ t < MaxAddress /\ Slot(t) \in 0 .. (Slots - 1)
  BY SlotIn, SymbolizerAssumption DEF Addresses
<1>2. PICK s \in 0 .. (Slots - 1) : s = Slot(t)
  BY <1>1
<1>3. PICK e : e = FunctionEntry(c, t)
  OBVIOUS
<1>4. e \in FnSpan /\ FnHonest(e) /\ Within(e, t)
  <2>1. CASE Within(c[s], t)
    <3>1. e = c[s]
      BY <1>2, <1>3, <2>1 DEF FunctionEntry
    <3>2. c[s] # Empty
      BY <1>1, <2>1 DEF Within, Empty
    <3> QED BY <2>1, <3>1, <3>2 DEF FnCaches, FnAll
  <2>2. CASE ~Within(c[s], t)
    <3>1. PICK f : f = FunctionSpan(t)
      OBVIOUS
    <3>2. /\ f \in FnSpan /\ FnHonest(f) /\ f.is = Containing(t)
          /\ f.is \in Functions \cup {NoFunction}
      BY <1>1, <3>1, FunctionSpanTyped, FunctionSpanHonest, FunctionSpanOfIts
    <3>3. e = Narrowed(f, t)
      BY <1>2, <1>3, <2>2, <3>1 DEF FunctionEntry
    <3>4. CASE Within(f, t)
      BY <3>2, <3>3, <3>4 DEF Narrowed
    <3>5. CASE ~Within(f, t)
      <4>1. e = [start |-> t, end |-> t + 1, is |-> f.is]
        BY <3>3, <3>5 DEF Narrowed
      <4>2. e \in FnSpan /\ Within(e, t)
        BY <1>1, <3>2, <4>1 DEF FnSpan, Within
      <4>3. \A a \in t .. ((t + 1) - 1) : a = t
        BY <1>1
      <4>4. FnHonest(e)
        BY <3>2, <4>1, <4>3 DEF FnHonest
      <4> QED BY <4>2, <4>4
    <3> QED BY <3>4, <3>5
  <2> QED BY <2>1, <2>2
<1>5. AskedFunction(c, t) = [c EXCEPT ![s] = e]
  BY <1>2, <1>3 DEF AskedFunction
<1>6. AskedFunction(c, t) \in FnCaches
  BY <1>4, <1>5 DEF FnCaches
<1>7. ASSUME NEW r \in 0 .. (Slots - 1)
      PROVE  FnHonest(AskedFunction(c, t)[r])
  <2>1. AskedFunction(c, t)[r] = IF r = s THEN e ELSE c[r]
    BY <1>5 DEF FnCaches
  <2> QED BY <1>4, <2>1 DEF FnAll
<1> QED BY <1>3, <1>4, <1>6, <1>7 DEF FnAll

LEMMA SourceAnswer ==
  ASSUME image \in Images, NEW c \in SrcCaches, SrcAll(c), NEW t \in Nat
  PROVE  /\ SourceEntry(c, t) \in SrcSpan /\ SrcHonest(SourceEntry(c, t))
         /\ t < MaxAddress => Within(SourceEntry(c, t), t)
         /\ AskedSource(c, t) \in SrcCaches /\ SrcAll(AskedSource(c, t))
<1>1. Slot(t) \in 0 .. (Slots - 1)
  BY SlotIn
<1>2. PICK s \in 0 .. (Slots - 1) : s = Slot(t)
  BY <1>1
<1>3. PICK e : e = SourceEntry(c, t)
  OBVIOUS
<1>4. e \in SrcSpan /\ SrcHonest(e) /\ (t < MaxAddress => Within(e, t))
  <2>1. CASE Within(c[s], t)
    <3>1. e = c[s]
      BY <1>2, <1>3, <2>1 DEF SourceEntry
    <3>2. c[s] # Empty
      BY <2>1 DEF Within, Empty
    <3> QED BY <2>1, <3>1, <3>2 DEF SrcCaches, SrcAll
  <2>2. CASE ~Within(c[s], t)
    <3>1. e = SourceSpan(t)
      BY <1>2, <1>3, <2>2 DEF SourceEntry
    <3> QED BY <3>1, SourceSpanHonest
  <2> QED BY <2>1, <2>2
<1>5. AskedSource(c, t) = [c EXCEPT ![s] = e]
  BY <1>2, <1>3 DEF AskedSource
<1>6. AskedSource(c, t) \in SrcCaches
  BY <1>4, <1>5 DEF SrcCaches
<1>7. ASSUME NEW r \in 0 .. (Slots - 1)
      PROVE  SrcHonest(AskedSource(c, t)[r])
  <2>1. AskedSource(c, t)[r] = IF r = s THEN e ELSE c[r]
    BY <1>5 DEF SrcCaches
  <2> QED BY <1>4, <2>1 DEF SrcAll
<1> QED BY <1>3, <1>4, <1>6, <1>7 DEF SrcAll

(***************************************************************************)
(* The runs.                                                               *)
(***************************************************************************)
SpanRec == [start : Nat, end : Nat, function : Nat, source : Lines]
RunRec == [start : Nat, end : Nat, span : SpanRec]

SpanHonest(s) ==
  \A a \in s.start .. (s.end - 1) :
    (~OddEnd(a) => s.function = Containing(a)) /\ s.source = SourceSpan(a).is

\* The runs rs divide the stream str up to position e.
RunsDivide(rs, str, e) ==
  /\ rs \in Seq(RunRec)
  /\ rs = <<>> => e = 0
  /\ rs # <<>> => rs[1].start = 0 /\ rs[Len(rs)].end = e
  /\ \A r \in 1 .. (Len(rs) - 1) : rs[r].end = rs[r + 1].start
  /\ \A r \in 1 .. Len(rs) :
       /\ rs[r].start < rs[r].end /\ rs[r].end <= e
       /\ \A i \in rs[r].start .. (rs[r].end - 1) : Within(rs[r].span, str[i + 1])

RunsInv ==
  /\ stream \in Seq(ProgramCounters)
  /\ runStart \in Nat
  /\ RunsDivide(runs, stream, runStart)
  /\ \A r \in 1 .. Len(runs) : SpanHonest(runs[r].span)
  /\ stream = <<>> => span = {} /\ runs = <<>>
  /\ stream # <<>> =>
       /\ runStart < Len(stream)
       /\ \E s \in SpanRec :
            /\ span = {s} /\ SpanHonest(s)
            /\ \A i \in runStart .. (Len(stream) - 1) : Within(s, stream[i + 1])

LEMMA RunAdded ==
  ASSUME NEW rs, NEW str, NEW e \in Nat, RunsDivide(rs, str, e),
         NEW run \in RunRec, run.start = e, e < run.end,
         \A i \in e .. (run.end - 1) : Within(run.span, str[i + 1])
  PROVE  /\ RunsDivide(Append(rs, run), str, run.end)
         /\ Len(Append(rs, run)) = Len(rs) + 1 /\ Len(rs) \in Nat
         /\ \A r \in 1 .. Len(rs) : Append(rs, run)[r] = rs[r]
         /\ Append(rs, run)[Len(rs) + 1] = run
<1> DEFINE new == Append(rs, run)
           n == run.end
<1>1. rs \in Seq(RunRec) /\ Len(rs) \in Nat /\ n \in Nat
  BY DEF RunsDivide, RunRec
<1>3. /\ new \in Seq(RunRec) /\ Len(new) = Len(rs) + 1
      /\ \A r \in 1 .. Len(rs) : new[r] = rs[r]
      /\ new[Len(rs) + 1] = run
  BY <1>1, AppendProperties
<1> HIDE DEF new
<1>4. run.start = e /\ run.end = n
  OBVIOUS
<1>5. new # <<>>
  BY <1>1, <1>3
<1>6. new[1].start = 0 /\ new[Len(new)].end = n
  <2>1. CASE rs = <<>>
    <3>1. Len(rs) = 0 /\ e = 0
      BY <2>1 DEF RunsDivide
    <3> QED BY <1>3, <1>4, <3>1
  <2>2. CASE rs # <<>>
    <3>1. rs[1].start = 0 /\ 1 \in 1 .. Len(rs)
      BY <1>1, <2>2 DEF RunsDivide
    <3> QED BY <1>3, <1>4, <3>1
  <2> QED BY <2>1, <2>2
<1>7. ASSUME NEW r \in 1 .. (Len(new) - 1)
      PROVE  new[r].end = new[r + 1].start
  <2>1. r \in 1 .. Len(rs) /\ new[r] = rs[r]
    BY <1>1, <1>3
  <2>2. CASE r = Len(rs)
    <3>1. rs # <<>> /\ rs[Len(rs)].end = e
      BY <1>1, <2>1, <2>2 DEF RunsDivide
    <3> QED BY <1>3, <1>4, <2>1, <2>2, <3>1
  <2>3. CASE r # Len(rs)
    <3>1. r \in 1 .. (Len(rs) - 1) /\ r + 1 \in 1 .. Len(rs)
      BY <1>1, <2>1, <2>3
    <3>2. rs[r].end = rs[r + 1].start
      BY <3>1 DEF RunsDivide
    <3> QED BY <1>3, <2>1, <3>1, <3>2
  <2> QED BY <2>2, <2>3
<1>8. ASSUME NEW r \in 1 .. Len(new)
      PROVE  /\ new[r].start < new[r].end /\ new[r].end <= n
             /\ \A i \in new[r].start .. (new[r].end - 1) : Within(new[r].span, str[i + 1])
  <2>1. CASE r \in 1 .. Len(rs)
    <3>1. PICK old \in RunRec : old = rs[r]
      BY <1>1, <2>1
    <3>2. /\ old.start < old.end /\ old.end <= e
          /\ \A i \in old.start .. (old.end - 1) : Within(old.span, str[i + 1])
      BY <2>1, <3>1 DEF RunsDivide
    <3>3. old.end <= n
      BY <3>2 DEF RunRec
    <3> QED BY <1>3, <2>1, <3>1, <3>2, <3>3
  <2>2. CASE r = Len(rs) + 1
    <3>1. new[r] = run
      BY <1>3, <2>2
    <3>2. /\ run.start < run.end /\ run.end <= n
          /\ \A i \in run.start .. (run.end - 1) : Within(run.span, str[i + 1])
      BY <1>1
    <3> QED BY <3>1, <3>2, Zenon
  <2> QED BY <1>1, <1>3, <2>1, <2>2
<1>9. RunsDivide(new, str, n)
  BY <1>3, <1>5, <1>6, <1>7, <1>8 DEF RunsDivide
<1> QED BY <1>1, <1>3, <1>9 DEF new

\* What follows the runs in the stream does not concern them.
LEMMA RunsStay ==
  ASSUME NEW rs, NEW str \in Seq(ProgramCounters), NEW e \in Nat, RunsDivide(rs, str, e),
         e <= Len(str), NEW a \in ProgramCounters
  PROVE  RunsDivide(rs, Append(str, a), e)
<1>1. PICK longer : longer = Append(str, a)
  OBVIOUS
<1>2. \A i \in 1 .. Len(str) : longer[i] = str[i]
  BY <1>1, AppendProperties
<1>3. ASSUME NEW r \in 1 .. Len(rs)
      PROVE  \A i \in rs[r].start .. (rs[r].end - 1) : Within(rs[r].span, longer[i + 1])
  <2>1. PICK run \in RunRec : run = rs[r]
    BY DEF RunsDivide
  <2>2. /\ run.start \in Nat /\ run.end \in Nat /\ run.end <= e
        /\ \A i \in run.start .. (run.end - 1) : Within(run.span, str[i + 1])
    BY <2>1 DEF RunsDivide, RunRec
  <2>3. ASSUME NEW i \in run.start .. (run.end - 1)
        PROVE  Within(run.span, longer[i + 1])
    <3>1. i + 1 \in 1 .. Len(str)
      BY <2>2
    <3> QED BY <1>2, <2>2, <3>1
  <2> QED BY <2>1, <2>3
<1> QED BY <1>1, <1>3 DEF RunsDivide

LEMMA YieldedIs ==
  ASSUME NEW s, span = {s}, NEW e, runs \in Seq(RunRec), NEW run,
         run = [start |-> runStart, end |-> e, span |-> s]
  PROVE  Yielded(e) = Append(runs, run)
<1>1. Cardinality(span) = 1
  BY FS_Singleton
<1>2. (CHOOSE x \in span : TRUE) = s
  OBVIOUS
<1>3. Yielded(e) = runs \o [i \in 1 .. 1 |-> run]
  BY <1>1, <1>2, Zenon DEF Yielded
<1>4. [i \in 1 .. 1 |-> run] = <<run>>
  OBVIOUS
<1> QED BY <1>3, <1>4

LEMMA NothingYielded ==
  ASSUME span = {}, runs = <<>>, NEW e
  PROVE  Yielded(e) = <<>>
<1>1. Cardinality(span) = 0
  BY FS_EmptySet
<1> QED BY <1>1 DEF Yielded

\* The span of an address is the intersection of two honest spans.
LEMMA ResolvedHonest ==
  ASSUME CacheInv, NEW a \in ProgramCounters
  PROVE  Resolved(a) \in SpanRec /\ SpanHonest(Resolved(a)) /\ Within(Resolved(a), a)
<1>1. a \in Addresses /\ a \in Nat /\ a < MaxAddress
  BY SymbolizerAssumption DEF ProgramCounters, Addresses
<1>2. PICK f \in FnSpan : f = FunctionEntry(fnCache, a) /\ FnHonest(f) /\ Within(f, a)
  BY <1>1, FunctionAnswer DEF CacheInv
<1>3. PICK s \in SrcSpan : s = SourceEntry(srcCache, a) /\ SrcHonest(s) /\ Within(s, a)
  BY <1>1, SourceAnswer DEF CacheInv
<1>4. /\ f.start \in Nat /\ f.end \in Nat /\ f.is \in Nat
      /\ s.start \in Nat /\ s.end \in Nat /\ s.is \in Lines
  BY DEF FnSpan, SrcSpan
<1>5. PICK low \in Nat : low = Max({f.start, s.start}) /\ low >= f.start /\ low >= s.start
                         /\ (low = f.start \/ low = s.start)
  <2>1. {f.start, s.start} \subseteq 0 .. (f.start + s.start)
    BY <1>4
  <2>2. Max({f.start, s.start}) \in {f.start, s.start}
        /\ \A y \in {f.start, s.start} : y <= Max({f.start, s.start})
    BY <1>4, <2>1, GreatestIs
  <2> QED BY <1>4, <2>2
<1>6. PICK high \in Nat : high = Min({f.end, s.end}) /\ high <= f.end /\ high <= s.end
                          /\ (high = f.end \/ high = s.end)
  <2>1. {f.end, s.end} \subseteq Nat
    BY <1>4
  <2>2. Min({f.end, s.end}) \in {f.end, s.end}
        /\ \A y \in {f.end, s.end} : Min({f.end, s.end}) <= y
    BY <2>1, LeastIs
  <2> QED BY <1>4, <2>2
<1>7. PICK both \in SpanRec : both = [start |-> low, end |-> high, function |-> f.is, source |-> s.is]
  <2>1. [start |-> low, end |-> high, function |-> f.is, source |-> s.is] \in SpanRec
    BY <1>4 DEF SpanRec
  <2> QED BY <2>1, Zenon
<1>8. Resolved(a) = both
  BY <1>2, <1>3, <1>5, <1>6, <1>7, Zenon DEF Resolved
<1>9. /\ both.start = low /\ both.end = high /\ both.function = f.is /\ both.source = s.is
  BY <1>7
<1>10. Within(both, a)
  BY <1>1, <1>2, <1>3, <1>4, <1>5, <1>6, <1>9 DEF Within
<1>11. \A b \in low .. (high - 1) :
         b \in f.start .. (f.end - 1) /\ b \in s.start .. (s.end - 1)
  BY <1>4, <1>5, <1>6
<1>12. SpanHonest(both)
  BY <1>2, <1>3, <1>9, <1>11 DEF SpanHonest, FnHonest, SrcHonest
<1> QED BY <1>8, <1>10, <1>12

LEMMA HonestStays ==
  ASSUME image' = image, NEW CONSTANT s, SpanHonest(s)
  PROVE  SpanHonest(s)'
  BY TablesStay DEF SpanHonest

LEMMA RunsStayHonest ==
  ASSUME RunsInv, image' = image, UNCHANGED streamVars
  PROVE  RunsInv'
<1>1. stream' = stream /\ span' = span /\ runStart' = runStart /\ runs' = runs
  BY DEF streamVars
<1>2. ASSUME NEW r \in 1 .. Len(runs)
      PROVE  SpanHonest(runs[r].span)'
  <2>1. PICK s : s = runs[r].span
    OBVIOUS
  <2>2. SpanHonest(s)
    BY <2>1 DEF RunsInv
  <2>3. SpanHonest(s)'
    BY <2>2, HonestStays
  <2>4. (runs[r].span)' = s
    BY <1>1, <2>1
  <2> QED BY <2>3, <2>4, Zenon
<1>3. ASSUME stream # <<>>
      PROVE  \E s \in SpanRec :
               /\ span = {s} /\ SpanHonest(s)'
               /\ \A i \in runStart .. (Len(stream) - 1) : Within(s, stream[i + 1])
  <2>1. PICK s \in SpanRec :
            /\ span = {s} /\ SpanHonest(s)
            /\ \A i \in runStart .. (Len(stream) - 1) : Within(s, stream[i + 1])
    BY <1>3 DEF RunsInv
  <2>2. SpanHonest(s)'
    BY <2>1, HonestStays
  <2> QED BY <2>1, <2>2
<1>4. RunsDivide(runs', stream', runStart')
  BY <1>1 DEF RunsInv
<1> QED BY <1>1, <1>2, <1>3, <1>4 DEF RunsInv, RunsDivide, RunRec, SpanRec, Lines

\* A question changes a slot and nothing else.
LEMMA QuestionAsked ==
  ASSUME CacheInv, NEW a \in Addresses, image' = image,
         fnCache' \in {fnCache, AskedFunction(fnCache, a)},
         srcCache' \in {srcCache, AskedSource(srcCache, a)}
  PROVE  CacheInv'
<1>1. a \in Nat
  BY DEF Addresses
<1>2. fnCache' \in FnCaches /\ FnAll(fnCache')
  <2>1. fnCache \in FnCaches /\ FnAll(fnCache)
    BY DEF CacheInv
  <2>2. AskedFunction(fnCache, a) \in FnCaches /\ FnAll(AskedFunction(fnCache, a))
    BY <2>1, FunctionAnswer DEF CacheInv
  <2>3. CASE fnCache' = fnCache
    BY <2>1, <2>3, Zenon
  <2>4. CASE fnCache' = AskedFunction(fnCache, a)
    BY <2>2, <2>4, Zenon
  <2> QED BY <2>3, <2>4
<1>3. srcCache' \in SrcCaches /\ SrcAll(srcCache')
  <2>1. srcCache \in SrcCaches /\ SrcAll(srcCache)
    BY DEF CacheInv
  <2>2. AskedSource(srcCache, a) \in SrcCaches /\ SrcAll(AskedSource(srcCache, a))
    BY <1>1, <2>1, SourceAnswer DEF CacheInv
  <2>3. CASE srcCache' = srcCache
    BY <2>1, <2>3, Zenon
  <2>4. CASE srcCache' = AskedSource(srcCache, a)
    BY <2>2, <2>4, Zenon
  <2> QED BY <2>3, <2>4
<1> QED BY <1>2, <1>3, CachesMove DEF CacheInv

\* The next program counter is in the span of the run that is open,
LEMMA RunGoesOn ==
  ASSUME RunsInv, NEW a \in ProgramCounters, NEW s0 \in span, Within(s0, a),
         stream' = Append(stream, a), image' = image,
         UNCHANGED <<span, runStart, runs>>
  PROVE  RunsInv'
<1>1. /\ stream \in Seq(ProgramCounters) /\ stream # <<>> /\ Len(stream) \in Nat
      /\ runStart \in Nat /\ runStart < Len(stream)
  BY DEF RunsInv
<1>2. PICK s \in SpanRec :
          /\ span = {s} /\ SpanHonest(s)
          /\ \A i \in runStart .. (Len(stream) - 1) : Within(s, stream[i + 1])
  BY <1>1 DEF RunsInv
<1>3. PICK longer \in Seq(ProgramCounters) : longer = Append(stream, a)
  BY <1>1
<1>4. /\ Len(longer) = Len(stream) + 1 /\ longer[Len(stream) + 1] = a
      /\ \A i \in 1 .. Len(stream) : longer[i] = stream[i]
  BY <1>1, <1>3, AppendProperties
<1>5. RunsDivide(runs, longer, runStart)
  BY <1>1, <1>3, RunsStay DEF RunsInv
<1>6. \A i \in runStart .. (Len(longer) - 1) : Within(s, longer[i + 1])
  <2>1. Within(s, a)
    BY <1>2
  <2> QED BY <1>1, <1>2, <1>4, <2>1
<1>7. SpanHonest(s)'
  BY <1>2, HonestStays
<1>8. ASSUME NEW r \in 1 .. Len(runs)
      PROVE  SpanHonest(runs[r].span)'
  <2>1. PICK x : x = runs[r].span
    OBVIOUS
  <2>2. SpanHonest(x)'
    BY <2>1, HonestStays DEF RunsInv
  <2>3. (runs[r].span)' = x
    BY <2>1
  <2> QED BY <2>2, <2>3, Zenon
<1>9. stream' = longer /\ longer # <<>> /\ runStart < Len(longer)
  BY <1>1, <1>3, <1>4
<1>10. RunsDivide(runs', stream', runStart')
  BY <1>5, <1>9
<1>11. \E x \in SpanRec :
          /\ span' = {x} /\ SpanHonest(x)'
          /\ \A i \in runStart .. (Len(longer) - 1) : Within(x, longer[i + 1])
  BY <1>2, <1>6, <1>7
<1> QED BY <1>1, <1>3, <1>8, <1>9, <1>10, <1>11
        DEF RunsInv, RunsDivide, RunRec, SpanRec, Lines, ProgramCounters, Addresses

\* or begins another one.
LEMMA RunBegins ==
  ASSUME CacheInv, RunsInv, NEW a \in ProgramCounters,
         stream' = Append(stream, a), image' = image,
         runs' = Yielded(Len(stream)), span' = {Resolved(a)}, runStart' = Len(stream)
  PROVE  RunsInv'
<1>1. stream \in Seq(ProgramCounters) /\ Len(stream) \in Nat /\ runStart \in Nat
  BY DEF RunsInv
<1>2. PICK n \in Nat : n = Len(stream)
  BY <1>1
<1>3. PICK s \in SpanRec : s = Resolved(a) /\ SpanHonest(s) /\ Within(s, a)
  BY ResolvedHonest
<1>4. PICK longer \in Seq(ProgramCounters) : longer = Append(stream, a)
  BY <1>1
<1>5. /\ Len(longer) = n + 1 /\ longer[n + 1] = a
      /\ \A i \in 1 .. n : longer[i] = stream[i]
  BY <1>1, <1>2, <1>4, AppendProperties
<1>6. PICK new : new = Yielded(n)
  OBVIOUS
<1>7. /\ RunsDivide(new, longer, n)
      /\ \A r \in 1 .. Len(new) : SpanHonest(new[r].span)
  <2>1. CASE stream = <<>>
    <3>1. new = <<>> /\ n = 0
      BY <1>2, <1>6, <2>1, NothingYielded DEF RunsInv
    <3> QED BY <3>1 DEF RunsDivide
  <2>2. CASE stream # <<>>
    <3>1. PICK x \in SpanRec :
              /\ span = {x} /\ SpanHonest(x)
              /\ \A i \in runStart .. (n - 1) : Within(x, stream[i + 1])
      BY <1>2, <2>2 DEF RunsInv
    <3>2. runStart < n
      BY <1>2, <2>2 DEF RunsInv
    <3>3. RunsDivide(runs, stream, runStart)
      BY DEF RunsInv
    <3>4. PICK run \in RunRec : run = [start |-> runStart, end |-> n, span |-> x]
      <4>1. [start |-> runStart, end |-> n, span |-> x] \in RunRec
        BY <1>1 DEF RunRec
      <4> QED BY <4>1, Zenon
    <3>a. new = Append(runs, run)
      BY <1>6, <3>1, <3>3, <3>4, YieldedIs DEF RunsDivide
    <3>b. run.start = runStart /\ run.end = n /\ run.span = x
      BY <3>4
    <3>5. /\ RunsDivide(new, stream, n)
          /\ Len(new) = Len(runs) + 1 /\ Len(runs) \in Nat
          /\ \A r \in 1 .. Len(runs) : new[r] = runs[r]
          /\ new[Len(runs) + 1] = run
      BY <1>1, <3>1, <3>2, <3>3, <3>a, <3>b, RunAdded
    <3>6. RunsDivide(new, longer, n)
      BY <1>1, <1>2, <1>4, <3>5, RunsStay
    <3>7. ASSUME NEW r \in 1 .. Len(new)
          PROVE  SpanHonest(new[r].span)
      <4>1. CASE r \in 1 .. Len(runs)
        BY <3>5, <4>1 DEF RunsInv
      <4>2. CASE r = Len(runs) + 1
        BY <3>1, <3>5, <3>b, <4>2
      <4> QED BY <3>5, <4>1, <4>2
    <3> QED BY <3>6, <3>7
  <2> QED BY <2>1, <2>2
<1>8. ASSUME NEW r \in 1 .. Len(new)
      PROVE  SpanHonest(new[r].span)'
  <2>1. PICK x : x = new[r].span
    OBVIOUS
  <2>2. SpanHonest(x)
    BY <1>7, <2>1
  <2>3. SpanHonest(x)'
    BY <2>2, HonestStays
  <2> QED BY <2>1, <2>3, Zenon
<1>9. SpanHonest(s)'
  BY <1>3, HonestStays
<1>10. \A i \in n .. (Len(longer) - 1) : Within(s, longer[i + 1])
  BY <1>3, <1>5
<1>11. stream' = longer /\ runs' = new /\ span' = {s} /\ runStart' = n /\ longer # <<>> /\ n < Len(longer)
  BY <1>2, <1>3, <1>4, <1>5, <1>6
<1>12. (\A r \in 1 .. Len(runs) : SpanHonest(runs[r].span))'
  BY <1>8, <1>11 DEF SpanHonest
<1>13. RunsDivide(runs', stream', runStart')
  BY <1>7, <1>11
<1> QED BY <1>4, <1>9, <1>10, <1>11, <1>12, <1>13
        DEF RunsInv, RunsDivide, RunRec, SpanRec, Lines, ProgramCounters, Addresses

LEMMA SymbolSteps ==
  ASSUME CacheInv, RunsInv, SymbolNext
  PROVE  CacheInv' /\ RunsInv'
<1>1. \A a \in ProgramCounters : a \in Addresses
  BY DEF ProgramCounters
<1>2. ASSUME NEW a \in Addresses, AskFunction(a)
      PROVE  CacheInv' /\ RunsInv'
  BY <1>2, QuestionAsked, RunsStayHonest DEF AskFunction
<1>3. ASSUME NEW a \in Addresses, AskSource(a)
      PROVE  CacheInv' /\ RunsInv'
  BY <1>3, QuestionAsked, RunsStayHonest DEF AskSource
<1>4. ASSUME NEW a \in ProgramCounters, AskRow(a)
      PROVE  CacheInv' /\ RunsInv'
  BY <1>1, <1>4, QuestionAsked, RunsStayHonest DEF AskRow
<1>5. ASSUME NEW a \in ProgramCounters, Take(a)
      PROVE  CacheInv' /\ RunsInv'
  <2>1. image' = image /\ stream' = Append(stream, a)
    BY <1>5 DEF Take
  <2>2. CASE /\ \E s \in span : Within(s, a)
             /\ UNCHANGED <<fnCache, srcCache, span, runStart, runs>>
    BY <1>1, <2>1, <2>2, QuestionAsked, RunGoesOn
  <2>3. CASE /\ runs' = Yielded(Len(stream)) /\ span' = {Resolved(a)}
             /\ fnCache' = AskedFunction(fnCache, a)
             /\ srcCache' = AskedSource(srcCache, a)
             /\ runStart' = Len(stream)
    BY <1>1, <2>1, <2>3, QuestionAsked, RunBegins
  <2> QED BY <1>5, <2>2, <2>3 DEF Take
<1> QED BY <1>2, <1>3, <1>4, <1>5 DEF SymbolNext

(***************************************************************************)
(* The walk of a coverage report, which asks the same caches.              *)
(***************************************************************************)
WalkInv ==
  /\ sections \in Listings
  /\ walked.section \in Nat /\ walked.halfword \in Nat
  /\ walked.section < Len(sections) =>
       walked.halfword <= Len(sections[walked.section + 1].wide)

LEMMA SectionIs ==
  ASSUME sections \in Listings, NEW s \in DOMAIN sections
  PROVE  /\ Len(sections) \in Nat /\ DOMAIN sections = 1 .. Len(sections)
         /\ sections[s].base \in Nat /\ Len(sections[s].wide) \in Nat
         /\ sections[s].base + 2 * Len(sections[s].wide) <= MaxAddress
<1>1. sections \in Seq(Section)
  BY CoverageAssumption
<1>2. Len(sections) \in Nat /\ DOMAIN sections = 1 .. Len(sections)
  BY <1>1
<1>3. PICK section \in Section : section = sections[s]
  BY <1>1, <1>2
<1>4. section.base \in Nat /\ section.wide \in Seq(BOOLEAN)
  BY DEF Section
<1>5. sections[s].base + 2 * Len(sections[s].wide) <= MaxAddress
  BY CoverageAssumption
<1> QED BY <1>2, <1>3, <1>4, <1>5

LEMMA CountingAsks ==
  ASSUME CacheInv, NEW s \in DOMAIN sections, sections \in Listings, NEW h \in Nat,
         h < Len(sections[s].wide), CountInstruction(sections[s], h), image' = image
  PROVE  CacheInv'
<1>1. PICK a \in Nat : a = sections[s].base + h * HALFWORD_BYTES
  BY SectionIs DEF HALFWORD_BYTES
<1>2. a \in Addresses
  <2>1. PICK b \in Nat : b = sections[s].base
    BY SectionIs
  <2>2. PICK n \in Nat : n = Len(sections[s].wide)
    BY SectionIs
  <2>3. b + 2 * n <= MaxAddress /\ a = b + h * 2 /\ h < n
    BY <1>1, <2>1, <2>2, SectionIs DEF HALFWORD_BYTES
  <2> QED BY <2>3, SymbolizerAssumption DEF Addresses
<1>3. PICK symbol : symbol = FunctionEntry(fnCache, a).is
  OBVIOUS
<1>4. fnCache' = AskedFunction(fnCache, a)
  BY <1>1 DEF CountInstruction
<1>5. CASE symbol = NoFunction /\ srcCache' = srcCache
  BY <1>2, <1>4, <1>5, QuestionAsked
<1>6. CASE symbol # NoFunction /\ srcCache' = AskedSource(srcCache, a)
  BY <1>2, <1>4, <1>6, QuestionAsked
<1>7. CASE symbol # NoFunction /\ srcCache' = AskedSource(AskedSource(srcCache, a), Entry(symbol))
  <2>1. image \in Images /\ fnCache \in FnCaches /\ FnAll(fnCache)
        /\ srcCache \in SrcCaches /\ SrcAll(srcCache)
    BY DEF CacheInv
  <2>2. FunctionEntry(fnCache, a) \in FnSpan /\ FnHonest(FunctionEntry(fnCache, a))
    BY <1>2, <2>1, FunctionAnswer
  <2>3. Empty \notin FnSpan
    BY DEF Empty, FnSpan
  <2>4. symbol \in Functions
    BY <1>3, <1>7, <2>2, <2>3 DEF FnHonest
  <2>5. Entry(symbol) \in Nat
    BY <2>1, <2>4, SymbolsTyped
  <2>6. PICK asking \in SrcCaches : asking = AskedSource(srcCache, a) /\ SrcAll(asking)
    BY <2>1, SourceAnswer
  <2>7. AskedSource(asking, Entry(symbol)) \in SrcCaches /\ SrcAll(AskedSource(asking, Entry(symbol)))
    BY <2>1, <2>5, <2>6, SourceAnswer
  <2>8. srcCache' \in SrcCaches /\ SrcAll(srcCache')
    BY <1>7, <2>6, <2>7, Zenon
  <2>9. fnCache' \in FnCaches /\ FnAll(fnCache')
    <3>1. AskedFunction(fnCache, a) \in FnCaches /\ FnAll(AskedFunction(fnCache, a))
      BY <1>2, <2>1, FunctionAnswer
    <3> QED BY <1>4, <3>1, Zenon
  <2> QED BY <2>1, <2>8, <2>9, CachesMove
<1> QED BY <1>1, <1>3, <1>5, <1>6, <1>7 DEF CountInstruction

LEMMA Walks ==
  ASSUME CacheInv, RunsInv, WalkInv, Walk
  PROVE  CacheInv' /\ RunsInv' /\ WalkInv'
<1>1. image' = image /\ UNCHANGED streamVars /\ sections' = sections
  BY DEF Walk
<1>2. PICK s \in DOMAIN sections : s = walked.section + 1
  <2>1. walked.section + 1 \in 1 .. Len(sections)
    BY CoverageAssumption DEF Walk, WalkInv
  <2>2. DOMAIN sections = 1 .. Len(sections)
    BY CoverageAssumption DEF WalkInv
  <2> QED BY <2>1, <2>2
<1>3. PICK h \in Nat : h = walked.halfword /\ h <= Len(sections[s].wide)
  BY <1>2 DEF Walk, WalkInv
<1>4. Len(sections[s].wide) \in Nat
  BY SectionIs DEF WalkInv
<1>5. RunsInv'
  BY <1>1, RunsStayHonest
<1>6. CASE /\ h = Len(sections[s].wide)
           /\ walked' = [section |-> walked.section + 1, halfword |-> 0]
           /\ UNCHANGED <<fnCache, srcCache>>
  <2>1. CacheInv'
    BY <1>1, <1>6, CachesMove DEF CacheInv
  <2>2. walked'.section \in Nat /\ walked'.halfword = 0
    BY <1>6 DEF WalkInv
  <2>3. ASSUME walked'.section < Len(sections)
        PROVE  Len(sections[walked'.section + 1].wide) \in Nat
    <3>1. DOMAIN sections = 1 .. Len(sections) /\ Len(sections) \in Nat
      BY SectionIs DEF WalkInv
    <3>2. walked'.section + 1 \in DOMAIN sections
      BY <2>2, <2>3, <3>1
    <3> QED BY <3>2, SectionIs DEF WalkInv
  <2>4. walked'.section < Len(sections) => walked'.halfword <= Len(sections[walked'.section + 1].wide)
    BY <2>2, <2>3
  <2> QED BY <1>1, <1>5, <2>1, <2>2, <2>4 DEF WalkInv
<1>7. CASE /\ h # Len(sections[s].wide)
           /\ walked' = [walked EXCEPT !.halfword = @ + 1]
           /\ \/ CountInstruction(sections[s], h)
              \/ UNCHANGED <<fnCache, srcCache>>
  <2>1. h < Len(sections[s].wide)
    BY <1>3, <1>4, <1>7
  <2>2. CacheInv'
    <3>1. CASE CountInstruction(sections[s], h)
      BY <1>1, <2>1, <3>1, CountingAsks DEF WalkInv
    <3>2. CASE UNCHANGED <<fnCache, srcCache>>
      BY <1>1, <3>2, CachesMove DEF CacheInv
    <3> QED BY <1>7, <3>1, <3>2
  <2> QED BY <1>1, <1>2, <1>3, <1>4, <1>5, <1>7, <2>1, <2>2 DEF WalkInv
<1> QED BY <1>2, <1>3, <1>6, <1>7 DEF Walk

CoverageInv == CacheInv /\ RunsInv /\ WalkInv

LEMMA CoverageInvInit == CoverageInit => CoverageInv
<1> SUFFICES ASSUME CoverageInit
             PROVE  CoverageInv
  OBVIOUS
<1> USE DEF CoverageInit, SymbolInit
<1>1. /\ fnCache \in FnCaches /\ srcCache \in SrcCaches
      /\ \A s \in 0 .. (Slots - 1) : fnCache[s] = Empty /\ srcCache[s] = Empty
  BY DEF FnCaches, SrcCaches
<1>2. FnHonest(Empty) /\ SrcHonest(Empty)
  <2>1. Empty.start .. (Empty.end - 1) = {}
    BY DEF Empty
  <2> QED BY <2>1 DEF FnHonest, SrcHonest
<1>3. CacheInv
  BY <1>1, <1>2 DEF CacheInv, FnAll, SrcAll
<1>4. RunsInv
  BY DEF RunsInv, RunsDivide
<1>5. WalkInv
  <2>1. walked.section = 0 /\ walked.halfword = 0
    OBVIOUS
  <2>2. ASSUME 0 < Len(sections)
        PROVE  Len(sections[1].wide) \in Nat
    <3>1. 1 \in DOMAIN sections
      BY <2>2, CoverageAssumption
    <3> QED BY <3>1, SectionIs
  <2> QED BY <2>1, <2>2 DEF WalkInv
<1> QED BY <1>3, <1>4, <1>5 DEF CoverageInv

LEMMA CoverageInvNext == CoverageInv /\ [CoverageNext]_coverageVars => CoverageInv'
<1> SUFFICES ASSUME CacheInv, RunsInv, WalkInv, [CoverageNext]_coverageVars
             PROVE  CacheInv' /\ RunsInv' /\ WalkInv'
  BY DEF CoverageInv
<1>1. CASE Symbolize
  <2>1. WalkInv'
    BY <1>1 DEF Symbolize, WalkInv
  <2> QED BY <1>1, <2>1, SymbolSteps DEF Symbolize
<1>2. CASE Walk
  BY <1>2, Walks
<1>3. CASE UNCHANGED <<symbolVars, sections, walked>>
  <2>1. image' = image /\ fnCache' = fnCache /\ srcCache' = srcCache /\ UNCHANGED streamVars
    BY <1>3 DEF symbolVars
  <2>2. CacheInv'
    BY <2>1, CachesMove DEF CacheInv
  <2>3. RunsInv'
    BY <2>1, RunsStayHonest
  <2> QED BY <1>3, <2>2, <2>3 DEF WalkInv
<1> QED BY <1>1, <1>2, <1>3 DEF CoverageNext, Build, Reported, coverageVars

LEMMA CachesAreHonest == CoverageInv => CachesHonest
  BY DEF CoverageInv, CacheInv, CachesHonest, FnAll, FnHonest, SrcAll, SrcHonest

LEMMA RowsAgree ==
  ASSUME CacheInv, NEW a \in ProgramCounters, NEW s \in SpanRec, SpanHonest(s), Within(s, a)
  PROVE  s.function = FunctionEntry(fnCache, a).is /\ s.source = SourceEntry(srcCache, a).is
<1>1. a \in Addresses /\ a \in Nat /\ a < MaxAddress /\ ~OddEnd(a)
  BY SymbolizerAssumption DEF ProgramCounters, Addresses, OddEnd
<1>2. PICK f \in FnSpan : f = FunctionEntry(fnCache, a) /\ FnHonest(f) /\ Within(f, a)
  BY <1>1, FunctionAnswer DEF CacheInv
<1>3. PICK g \in SrcSpan : g = SourceEntry(srcCache, a) /\ SrcHonest(g) /\ Within(g, a)
  BY <1>1, SourceAnswer DEF CacheInv
<1>4. a \in f.start .. (f.end - 1) /\ a \in g.start .. (g.end - 1) /\ a \in s.start .. (s.end - 1)
  BY <1>1, <1>2, <1>3 DEF Within, FnSpan, SrcSpan, SpanRec
<1> QED BY <1>1, <1>2, <1>3, <1>4 DEF FnHonest, SrcHonest, SpanHonest

LEMMA RunsAreExact == CoverageInv => RunsExact
<1> SUFFICES ASSUME CacheInv, RunsInv
             PROVE  RunsExact
  BY DEF CoverageInv
<1>1. /\ stream \in Seq(ProgramCounters) /\ Len(stream) \in Nat /\ runStart \in Nat
      /\ RunsDivide(runs, stream, runStart)
  BY DEF RunsInv
<1>2. PICK n \in Nat : n = Len(stream)
  BY <1>1
<1>3. PICK all : all = Yielded(n)
  OBVIOUS
<1>4. RunsDivide(all, stream, n) /\ \A r \in 1 .. Len(all) : SpanHonest(all[r].span)
  <2>1. CASE stream = <<>>
    <3>1. all = <<>> /\ n = 0
      BY <1>2, <1>3, <2>1, NothingYielded DEF RunsInv
    <3> QED BY <3>1 DEF RunsDivide
  <2>2. CASE stream # <<>>
    <3>1. PICK x \in SpanRec :
              /\ span = {x} /\ SpanHonest(x)
              /\ \A i \in runStart .. (n - 1) : Within(x, stream[i + 1])
      BY <1>2, <2>2 DEF RunsInv
    <3>2. runStart < n
      BY <1>2, <2>2 DEF RunsInv
    <3>3. PICK run \in RunRec : run = [start |-> runStart, end |-> n, span |-> x]
      <4>1. [start |-> runStart, end |-> n, span |-> x] \in RunRec
        BY <1>1 DEF RunRec
      <4> QED BY <4>1, Zenon
    <3>4. all = Append(runs, run)
      BY <1>1, <1>3, <3>1, <3>3, YieldedIs DEF RunsDivide
    <3>5. run.start = runStart /\ run.end = n /\ run.span = x
      BY <3>3
    <3>6. /\ RunsDivide(all, stream, n)
          /\ Len(all) = Len(runs) + 1 /\ Len(runs) \in Nat
          /\ \A r \in 1 .. Len(runs) : all[r] = runs[r]
          /\ all[Len(runs) + 1] = run
      BY <1>1, <3>1, <3>2, <3>4, <3>5, RunAdded
    <3>7. ASSUME NEW r \in 1 .. Len(all)
          PROVE  SpanHonest(all[r].span)
      <4>1. CASE r \in 1 .. Len(runs)
        BY <3>6, <4>1 DEF RunsInv
      <4>2. CASE r = Len(runs) + 1
        BY <3>1, <3>5, <3>6, <4>2
      <4> QED BY <3>6, <4>1, <4>2
    <3> QED BY <3>6, <3>7
  <2> QED BY <2>1, <2>2
<1>5. all \in Seq(RunRec) /\ Len(all) \in Nat /\ DOMAIN all = 1 .. Len(all)
  BY <1>4 DEF RunsDivide
<1>6. ASSUME stream # <<>>
      PROVE  all[1].start = 0 /\ all[Len(all)].end = Len(stream)
  <2>1. n # 0
    BY <1>1, <1>2, <1>6
  <2> QED BY <1>2, <1>4, <2>1 DEF RunsDivide
<1>7. ASSUME NEW r \in DOMAIN all, NEW i \in all[r].start .. (all[r].end - 1)
      PROVE  IterRow(all[r], i) = RowAt(i)
  <2>1. PICK run \in RunRec : run = all[r]
    BY <1>5
  <2>2. /\ run.start \in Nat /\ run.end \in Nat /\ run.span \in SpanRec /\ run.end <= n
        /\ SpanHonest(run.span) /\ Within(run.span, stream[i + 1])
    BY <1>4, <1>5, <2>1 DEF RunsDivide, RunRec
  <2>3. i + 1 \in 1 .. Len(stream)
    BY <1>2, <2>1, <2>2
  <2>4. stream[i + 1] \in ProgramCounters
    BY <1>1, <2>3
  <2>5. /\ run.span.function = FunctionEntry(fnCache, stream[i + 1]).is
        /\ run.span.source = SourceEntry(srcCache, stream[i + 1]).is
    BY <2>2, <2>4, RowsAgree
  <2> QED BY <2>1, <2>5 DEF IterRow, RowAt
<1>8. ASSUME NEW r \in DOMAIN all
      PROVE  all[r].start < all[r].end
  BY <1>4, <1>5 DEF RunsDivide
<1>9. \A r \in 1 .. (Len(all) - 1) : all[r].end = all[r + 1].start
  BY <1>4 DEF RunsDivide
<1> QED BY <1>2, <1>3, <1>6, <1>7, <1>8, <1>9 DEF RunsExact

-------------------------------------------------------------------------------
(***************************************************************************)
(* Sums over a finite set. A function m of its subsets adds f up if taking *)
(* any element away takes its f away; the fold then gives what m gives.    *)
(***************************************************************************)
Additive(m, f, S) ==
  /\ m \in [SUBSET S -> Nat] /\ m[{}] = 0
  /\ \A s \in SUBSET S : \A x \in s : m[s] = f[x] + m[s \ {x}]

\* The recursion of MapThenFoldSet.
FoldStep(g, f, S) ==
  g = [s \in SUBSET S |-> IF s = {} THEN 0
                          ELSE f[CHOOSE x \in s : TRUE] + g[s \ {CHOOSE x \in s : TRUE}]]

LEMMA MeasureFolds ==
  ASSUME NEW S, NEW f, NEW m, Additive(m, f, S)
  PROVE  FoldStep(m, f, S)
<1>1. ASSUME NEW s \in SUBSET S
      PROVE  m[s] = IF s = {} THEN 0
                    ELSE f[CHOOSE x \in s : TRUE] + m[s \ {CHOOSE x \in s : TRUE}]
  <2>1. CASE s = {}
    BY <2>1 DEF Additive
  <2>2. CASE s # {}
    <3>1. PICK x : x = CHOOSE y \in s : TRUE
      OBVIOUS
    <3>2. x \in s
      BY <2>2, <3>1
    <3>3. m[s] = f[x] + m[s \ {x}]
      BY <3>2 DEF Additive
    <3> QED BY <2>2, <3>1, <3>3, Zenon
  <2> QED BY <2>1, <2>2
<1>2. m = [s \in SUBSET S |-> m[s]]
  BY DEF Additive
<1> QED BY <1>1, <1>2, Zenon DEF FoldStep

LEMMA FoldsAgree ==
  ASSUME NEW S, IsFiniteSet(S), NEW f, NEW m, Additive(m, f, S),
         NEW g, FoldStep(g, f, S)
  PROVE  g[S] = m[S]
<1> DEFINE T == {n \in Nat : \E s \in SUBSET S : Cardinality(s) = n /\ g[s] # m[s]}
<1>1. T = {}
  <2> SUFFICES ASSUME T # {}
               PROVE  FALSE
    OBVIOUS
  <2>1. PICK n \in T : \A y \in T : n <= y
    <3>1. T \subseteq Nat
      OBVIOUS
    <3> HIDE DEF T
    <3> QED BY <3>1, LeastNatural
  <2>2. PICK s \in SUBSET S : Cardinality(s) = n /\ g[s] # m[s]
    BY <2>1
  <2>3. g[s] = IF s = {} THEN 0
               ELSE f[CHOOSE x \in s : TRUE] + g[s \ {CHOOSE x \in s : TRUE}]
    <3>1. \A t \in SUBSET S : g[t] = IF t = {} THEN 0
               ELSE f[CHOOSE x \in t : TRUE] + g[t \ {CHOOSE x \in t : TRUE}]
      BY Zenon DEF FoldStep
    <3> QED BY <3>1, Zenon
  <2>4. s # {}
    BY <2>2, <2>3 DEF Additive
  <2>5. PICK x : x = CHOOSE y \in s : TRUE
    OBVIOUS
  <2>6. x \in s /\ g[s] = f[x] + g[s \ {x}]
    BY <2>3, <2>4, <2>5, Zenon
  <2>7. PICK t \in SUBSET S : t = s \ {x}
    BY <2>2
  <2>8. IsFiniteSet(s) /\ n \in Nat /\ n >= 1 /\ Cardinality(t) = n - 1
    <3>1. IsFiniteSet(s)
      BY FS_Subset
    <3>2. Cardinality(s \ {x}) = Cardinality(s) - 1 /\ Cardinality(s) \in Nat
      BY <2>6, <3>1, FS_RemoveElement, FS_CardinalityType
    <3>3. Cardinality(s) # 0
      BY <2>4, <3>1, FS_EmptySet
    <3> QED BY <2>2, <2>7, <3>1, <3>2, <3>3
  <2>9. g[t] = m[t]
    <3>1. n - 1 \in Nat /\ ~(n <= n - 1)
      BY <2>8
    <3>2. n - 1 \notin T
      BY <2>1, <3>1
    <3> QED BY <2>8, <3>1, <3>2
  <2>10. m[s] = f[x] + m[s \ {x}]
    BY <2>6 DEF Additive
  <2> QED BY <2>2, <2>6, <2>7, <2>9, <2>10
<1>2. Cardinality(S) \in Nat /\ S \in SUBSET S
  BY FS_CardinalityType
<1> QED BY <1>1, <1>2

-------------------------------------------------------------------------------
(***************************************************************************)
(* Instructions, of which each address has one.                            *)
(***************************************************************************)
CountRec == [address : Nat, count : Nat]
SumOver(is) == MapThenSumSet(LAMBDA i : i.count, is)
CountsOf(is) == [i \in is |-> i.count]

LEMMA SumIs ==
  ASSUME NEW S, IsFiniteSet(S), NEW m, Additive(m, CountsOf(S), S)
  PROVE  SumOver(S) = m[S]
<1> DEFINE Rec(g) == g = [s \in SUBSET S |-> IF s = {} THEN 0
             ELSE (CHOOSE x \in s : TRUE).count + g[s \ {CHOOSE x \in s : TRUE}]]
<1>1. PICK g : g = CHOOSE h : Rec(h)
  OBVIOUS
<1>2. SumOver(S) = g[S]
  BY <1>1 DEF SumOver, MapThenSumSet, MapThenFoldSet
<1>3. ASSUME NEW h
      PROVE  Rec(h) <=> FoldStep(h, CountsOf(S), S)
  <2>1. ASSUME NEW s \in SUBSET S
        PROVE  (IF s = {} THEN 0
                ELSE (CHOOSE x \in s : TRUE).count + h[s \ {CHOOSE x \in s : TRUE}])
               = (IF s = {} THEN 0
                  ELSE CountsOf(S)[CHOOSE x \in s : TRUE] + h[s \ {CHOOSE x \in s : TRUE}])
    <3>1. CASE s # {}
      <4>1. PICK x : x = CHOOSE y \in s : TRUE
        OBVIOUS
      <4>2. x \in S
        BY <3>1, <4>1
      <4>3. CountsOf(S)[x] = x.count
        BY <4>2 DEF CountsOf
      <4> QED BY <4>1, <4>3, Zenon
    <3> QED BY <3>1
  <2> QED BY <2>1, Zenon DEF FoldStep
<1>4. Rec(m)
  BY <1>3, MeasureFolds
<1>5. Rec(g)
  <2> HIDE DEF Rec
  <2> QED BY <1>1, <1>4
<1>6. FoldStep(g, CountsOf(S), S)
  <2> HIDE DEF Rec
  <2> QED BY <1>3, <1>5
<1>7. g[S] = m[S]
  BY <1>6, FoldsAgree
<1> QED BY <1>2, <1>7

\* One more instruction adds its count.
LEMMA SumGrows ==
  ASSUME NEW T, T \subseteq CountRec, NEW m, Additive(m, CountsOf(T), T), NEW i, i \notin T, NEW c \in Nat, i.count = c
  PROVE  \E k : Additive(k, CountsOf(T \cup {i}), T \cup {i}) /\ k[T \cup {i}] = m[T] + c
<1>1. PICK U : U = T \cup {i}
  OBVIOUS
<1>2. /\ m \in [SUBSET T -> Nat] /\ m[{}] = 0
      /\ \A s \in SUBSET T : \A x \in s : m[s] = x.count + m[s \ {x}]
  <2>1. ASSUME NEW s \in SUBSET T, NEW x \in s
        PROVE  m[s] = x.count + m[s \ {x}]
    <3>1. CountsOf(T)[x] = x.count
      BY DEF CountsOf
    <3> QED BY <3>1 DEF Additive
  <2> QED BY <2>1 DEF Additive
<1>3. PICK k : k = [s \in SUBSET U |-> IF i \in s THEN c + m[s \ {i}] ELSE m[s]]
  OBVIOUS
<1>4. \A s \in SUBSET U : s \ {i} \in SUBSET T /\ m[s \ {i}] \in Nat
  BY <1>1, <1>2
<1>5. \A s \in SUBSET U : k[s] = c + m[s \ {i}] \/ i \notin s
  BY <1>3, Zenon
<1>6. \A s \in SUBSET U : i \notin s => s \in SUBSET T /\ k[s] = m[s]
  <2> TAKE s \in SUBSET U
  <2> HAVE i \notin s
  <2>1. s \in SUBSET T
    BY <1>1
  <2>2. k[s] = m[s]
    BY <1>3, Zenon
  <2> QED BY <2>1, <2>2
<1>7. k \in [SUBSET U -> Nat]
  <2>1. \A s \in SUBSET U : k[s] \in Nat
    <3> TAKE s \in SUBSET U
    <3>1. CASE i \in s
      <4>1. k[s] = c + m[s \ {i}] /\ m[s \ {i}] \in Nat
        BY <1>4, <1>5, <3>1, Zenon
      <4> QED BY <4>1
    <3>2. CASE i \notin s
      BY <1>2, <1>6, <3>2
    <3> QED BY <3>1, <3>2
  <2>2. k = [s \in SUBSET U |-> k[s]]
    BY <1>3, Zenon
  <2> QED BY <2>1, <2>2, Zenon
<1>8. k[{}] = 0
  BY <1>2, <1>6
<1>9. ASSUME NEW s \in SUBSET U, NEW x \in s
      PROVE  k[s] = CountsOf(U)[x] + k[s \ {x}]
  <2>1. CountsOf(U)[x] = x.count
    BY DEF CountsOf
  <2>2. s \ {x} \in SUBSET U
    OBVIOUS
  <2>3. CASE x = i
    <3>1. k[s] = c + m[s \ {i}]
      BY <1>5, <2>3
    <3>2. k[s \ {x}] = m[s \ {x}]
      BY <1>6, <2>2, <2>3
    <3> QED BY <2>1, <2>3, <3>1, <3>2
  <2>4. CASE x # i /\ i \in s
    <3>1. PICK v : v = (s \ {i}) \ {x}
      OBVIOUS
    <3>2. v = (s \ {x}) \ {i} /\ i \in s \ {x}
      BY <2>4, <3>1
    <3>3. k[s] = c + m[s \ {i}] /\ k[s \ {x}] = c + m[v]
      BY <1>5, <2>2, <2>4, <3>2
    <3>4. s \ {i} \in SUBSET T /\ x \in s \ {i}
      BY <1>1, <2>4
    <3>5. m[s \ {i}] = x.count + m[v]
      BY <1>2, <3>1, <3>4
    <3>6. v \in SUBSET T
      BY <3>1, <3>4
    <3>7. PICK n \in Nat, l \in Nat : n = m[v] /\ l = m[s \ {i}]
      BY <1>2, <3>4, <3>6
    <3>8. PICK y : y = x.count
      OBVIOUS
    <3>9. y \in Nat
      BY <2>4, <3>4, <3>8 DEF CountRec
    <3> QED BY <2>1, <3>3, <3>5, <3>7, <3>8, <3>9
  <2>5. CASE i \notin s
    <3>1. s \in SUBSET T /\ k[s] = m[s]
      BY <1>6, <2>5
    <3>2. k[s \ {x}] = m[s \ {x}]
      BY <1>6, <2>2, <2>5
    <3>3. m[s] = x.count + m[s \ {x}]
      BY <1>2, <3>1
    <3> QED BY <2>1, <3>1, <3>2, <3>3
  <2> QED BY <2>3, <2>4, <2>5
<1>10. Additive(k, CountsOf(U), U)
  BY <1>7, <1>8, <1>9 DEF Additive
<1>11. k[U] = m[T] + c
  <2>1. U \in SUBSET U /\ i \in U /\ U \ {i} = T
    BY <1>1
  <2>2. k[U] = c + m[T] /\ m[T] \in Nat
    BY <1>2, <1>5, <2>1
  <2> QED BY <2>2
<1> QED BY <1>1, <1>10, <1>11

-------------------------------------------------------------------------------
(***************************************************************************)
(* The rows of a set of instructions, and what one more adds to them.      *)
(***************************************************************************)
FunctionRow(f) ==
  f = [name |-> f.name, position |-> f.position, instructions |-> f.instructions,
       covered |-> f.covered, executed |-> f.executed, runCount |-> f.runCount,
       lines |-> f.lines]
LineRow(l) ==
  l = [instructions |-> l.instructions, covered |-> l.covered, runCount |-> l.runCount]

\* f is the row of a function whose instructions are T and whose entry is e.
FunctionOf(f, e, T) ==
  /\ FunctionRow(f) /\ IsFiniteSet(T) /\ T \subseteq CountRec
  /\ f.instructions = Cardinality(T)
  /\ f.covered = Cardinality(Covered(T))
  /\ \E m : Additive(m, CountsOf(T), T) /\ f.executed = m[T]
  /\ DOMAIN f.lines = LinesOf(T)
  /\ \A key \in DOMAIN f.lines : f.lines[key] <=> key \in LinesOf(Covered(T))
  /\ \A i \in T : i.address = e => f.runCount = i.count
  /\ (\A i \in T : i.address # e) => f.runCount = 0

\* l is the row of a line whose instructions are T.
LineOfThem(l, T) ==
  /\ LineRow(l) /\ IsFiniteSet(T) /\ T \subseteq CountRec
  /\ l.instructions = Cardinality(T)
  /\ l.covered = Cardinality(Covered(T))
  /\ l.runCount \in Nat
  /\ \A i \in T : i.count <= l.runCount
  /\ T = {} => l.runCount = 0
  /\ T # {} => \E i \in T : i.count = l.runCount

LEMMA CoveredGrows ==
  ASSUME NEW T, IsFiniteSet(T), T \subseteq CountRec, NEW i \in CountRec, i \notin T
  PROVE  /\ IsFiniteSet(T \cup {i}) /\ T \cup {i} \subseteq CountRec
         /\ Cardinality(T) \in Nat /\ Cardinality(T \cup {i}) = Cardinality(T) + 1
         /\ Cardinality(Covered(T)) \in Nat
         /\ Cardinality(Covered(T \cup {i})) = Cardinality(Covered(T)) + One(i.count > 0)
         /\ Covered(T \cup {i}) = Covered(T) \cup (IF i.count > 0 THEN {i} ELSE {})
<1>1. IsFiniteSet(Covered(T)) /\ i \notin Covered(T)
  <2>1. Covered(T) \subseteq T
    BY DEF Covered
  <2> QED BY <2>1, FS_Subset
<1>2. Covered(T \cup {i}) = Covered(T) \cup (IF i.count > 0 THEN {i} ELSE {})
  BY DEF Covered
<1>3. Cardinality(Covered(T)) \in Nat
  BY <1>1, FS_CardinalityType
<1>4. Cardinality(Covered(T \cup {i})) = Cardinality(Covered(T)) + One(i.count > 0)
  <2>1. CASE i.count > 0
    <3>1. Covered(T \cup {i}) = Covered(T) \cup {i}
      BY <1>2, <2>1
    <3>2. Cardinality(Covered(T) \cup {i}) = Cardinality(Covered(T)) + 1
      BY <1>1, FS_AddElement
    <3> QED BY <2>1, <3>1, <3>2 DEF One
  <2>2. CASE ~(i.count > 0)
    <3>1. Covered(T \cup {i}) = Covered(T)
      BY <1>2, <2>2
    <3> QED BY <1>3, <2>2, <3>1 DEF One
  <2> QED BY <2>1, <2>2
<1>5. IsFiniteSet(T \cup {i}) /\ Cardinality(T \cup {i}) = Cardinality(T) + 1
  BY FS_AddElement
<1> QED BY <1>2, <1>3, <1>4, <1>5, FS_CardinalityType

LEMMA LinesGrow ==
  ASSUME NEW T, NEW i, NEW src, src = SourceSpan(i.address).is
  PROVE  LinesOf(T \cup {i}) = LinesOf(T) \cup (IF src = <<>> THEN {} ELSE {src})
BY DEF LinesOf

\* A new function has none yet.
LEMMA NewFunctionIs ==
  ASSUME NEW symbol, NEW position, NEW e
  PROVE  FunctionOf(NewFunction(symbol, position), e, {})
<1>1. PICK f : f = NewFunction(symbol, position)
  OBVIOUS
<1>2. /\ FunctionRow(f) /\ f.instructions = 0 /\ f.covered = 0 /\ f.executed = 0
      /\ f.runCount = 0 /\ f.lines = <<>>
  BY <1>1 DEF NewFunction, FunctionRow
<1>3. IsFiniteSet({}) /\ Cardinality({}) = 0
  BY FS_EmptySet
<1>4. Covered({}) = {} /\ LinesOf({}) = {} /\ DOMAIN f.lines = {}
  BY <1>2 DEF Covered, LinesOf
<1>5. \E m : Additive(m, CountsOf({}), {}) /\ 0 = m[{}]
  <2>1. PICK m : m = [s \in SUBSET {} |-> 0]
    OBVIOUS
  <2>2. m \in [SUBSET {} -> Nat] /\ m[{}] = 0
    BY <2>1
  <2>3. Additive(m, CountsOf({}), {})
    BY <2>2 DEF Additive
  <2> QED BY <2>2, <2>3
<1> QED BY <1>1, <1>2, <1>3, <1>4, <1>5 DEF FunctionOf

LEMMA NewLineIs == LineOfThem(NewLine, {})
<1>1. IsFiniteSet({}) /\ Cardinality({}) = 0 /\ Covered({}) = {}
  BY FS_EmptySet DEF Covered
<1>2. /\ LineRow(NewLine) /\ NewLine.instructions = 0 /\ NewLine.covered = 0
      /\ NewLine.runCount = 0
  BY DEF LineRow, NewLine
<1> QED BY <1>1, <1>2 DEF LineOfThem

LEMMA FunctionGrows ==
  ASSUME NEW f, NEW e, NEW T, FunctionOf(f, e, T),
         NEW i \in CountRec, i \notin T, \A j \in T : j.address # i.address,
         NEW src, src = SourceSpan(i.address).is, NEW b, b <=> i.address = e
  PROVE  FunctionOf(FunctionCounted(f, b, i.count, src), e, T \cup {i})
<1>1. /\ FunctionRow(f) /\ IsFiniteSet(T) /\ T \subseteq CountRec
      /\ f.instructions = Cardinality(T) /\ f.covered = Cardinality(Covered(T))
      /\ DOMAIN f.lines = LinesOf(T)
      /\ \A key \in DOMAIN f.lines : f.lines[key] <=> key \in LinesOf(Covered(T))
      /\ \A j \in T : j.address = e => f.runCount = j.count
      /\ (\A j \in T : j.address # e) => f.runCount = 0
  BY DEF FunctionOf
<1>2. PICK m : Additive(m, CountsOf(T), T) /\ f.executed = m[T]
  BY DEF FunctionOf
<1>3. PICK c \in Nat : c = i.count
  BY DEF CountRec
<1>4. PICK g : g = FunctionCounted(f, b, c, src)
  OBVIOUS
<1>5. /\ FunctionRow(g)
      /\ g.instructions = f.instructions + 1
      /\ g.covered = f.covered + One(c > 0)
      /\ g.executed = f.executed + c
      /\ g.runCount = IF b THEN c ELSE f.runCount
      /\ g.lines = IF src = <<>> THEN f.lines
                   ELSE Updated(f.lines, src, c > 0 \/ (src \in DOMAIN f.lines /\ f.lines[src]))
  <2>1. PICK l : l = IF src = <<>> THEN f.lines
                     ELSE Updated(f.lines, src, c > 0 \/ (src \in DOMAIN f.lines /\ f.lines[src]))
    OBVIOUS
  <2>2. g = [name |-> f.name, position |-> f.position,
             instructions |-> f.instructions + 1, covered |-> f.covered + One(c > 0),
             executed |-> f.executed + c, runCount |-> IF b THEN c ELSE f.runCount,
             lines |-> l]
    BY <1>1, <1>4, <2>1 DEF FunctionCounted, FunctionRow
  <2> QED BY <2>1, <2>2 DEF FunctionRow
<1>6. PICK U : U = T \cup {i}
  OBVIOUS
<1>7. /\ IsFiniteSet(U) /\ U \subseteq CountRec
      /\ g.instructions = Cardinality(U) /\ g.covered = Cardinality(Covered(U))
      /\ Covered(U) = Covered(T) \cup (IF c > 0 THEN {i} ELSE {})
  <2>1. /\ IsFiniteSet(U) /\ U \subseteq CountRec
        /\ Cardinality(U) = Cardinality(T) + 1
        /\ Cardinality(Covered(U)) = Cardinality(Covered(T)) + One(i.count > 0)
        /\ Covered(U) = Covered(T) \cup (IF i.count > 0 THEN {i} ELSE {})
    BY <1>1, <1>6, CoveredGrows
  <2>2. g.instructions = Cardinality(U) /\ g.covered = Cardinality(Covered(U))
    BY <1>1, <1>3, <1>5, <2>1, Zenon
  <2> QED BY <1>3, <2>1, <2>2, Zenon
<1>8. \E k : Additive(k, CountsOf(U), U) /\ g.executed = k[U]
  BY <1>1, <1>2, <1>3, <1>5, <1>6, SumGrows
<1>9. LinesOf(U) = LinesOf(T) \cup (IF src = <<>> THEN {} ELSE {src})
  BY <1>6, LinesGrow
<1>10. LinesOf(Covered(U)) = LinesOf(Covered(T)) \cup (IF src = <<>> \/ ~(c > 0) THEN {} ELSE {src})
  <2>1. CASE c > 0
    BY <1>7, <2>1, LinesGrow
  <2>2. CASE ~(c > 0)
    BY <1>7, <2>2
  <2> QED BY <2>1, <2>2
<1>11. DOMAIN g.lines = LinesOf(U)
  BY <1>1, <1>5, <1>9 DEF Updated
<1>12. ASSUME NEW key \in DOMAIN g.lines
       PROVE  g.lines[key] <=> key \in LinesOf(Covered(U))
  <2>1. CASE src = <<>>
    <3>1. g.lines = f.lines /\ LinesOf(Covered(U)) = LinesOf(Covered(T))
      BY <1>5, <1>10, <2>1
    <3> QED BY <1>1, <3>1
  <2>2. CASE src # <<>> /\ key = src
    <3>1. g.lines[src] = (c > 0 \/ (src \in DOMAIN f.lines /\ f.lines[src]))
      BY <1>5, <2>2, Zenon DEF Updated
    <3>2. src \in LinesOf(Covered(T)) => src \in LinesOf(T)
      BY DEF LinesOf, Covered
    <3>3. src \in LinesOf(Covered(U)) <=> (c > 0 \/ src \in LinesOf(Covered(T)))
      BY <1>10, <2>2
    <3> QED BY <1>1, <2>2, <3>1, <3>2, <3>3, Zenon
  <2>3. CASE src # <<>> /\ key # src
    <3>1. key \in DOMAIN f.lines
      BY <1>1, <1>9, <1>11, <2>3
    <3>2. g.lines[key] = f.lines[key]
      BY <1>5, <2>3, <3>1, Zenon DEF Updated
    <3>3. key \in LinesOf(Covered(U)) <=> key \in LinesOf(Covered(T))
      BY <1>10, <2>3
    <3> QED BY <1>1, <3>1, <3>2, <3>3, Zenon
  <2> QED BY <2>1, <2>2, <2>3
<1>13. \A j \in U : j.address = e => g.runCount = j.count
  <2> TAKE j \in U
  <2> HAVE j.address = e
  <2>1. CASE b
    <3>1. j = i
      BY <1>6, <2>1
    <3> QED BY <1>3, <1>5, <2>1, <3>1
  <2>2. CASE ~b
    <3>1. j \in T
      BY <1>6, <2>2
    <3> QED BY <1>1, <1>5, <2>2, <3>1
  <2> QED BY <2>1, <2>2
<1>14. (\A j \in U : j.address # e) => g.runCount = 0
  BY <1>1, <1>5, <1>6
<1> QED BY <1>3, <1>4, <1>5, <1>6, <1>7, <1>8, <1>11, <1>12, <1>13, <1>14 DEF FunctionOf

LEMMA LineGrows ==
  ASSUME NEW l, NEW T, LineOfThem(l, T), NEW i \in CountRec, i \notin T
  PROVE  LineOfThem(LineCounted(l, i.count), T \cup {i})
<1>1. /\ LineRow(l) /\ IsFiniteSet(T) /\ T \subseteq CountRec
      /\ l.instructions = Cardinality(T) /\ l.covered = Cardinality(Covered(T))
      /\ l.runCount \in Nat /\ \A j \in T : j.count <= l.runCount
      /\ T = {} => l.runCount = 0
      /\ T # {} => \E j \in T : j.count = l.runCount
  BY DEF LineOfThem
<1>2. PICK c \in Nat : c = i.count
  BY DEF CountRec
<1>3. PICK r \in Nat : r = l.runCount
  BY <1>1
<1>4. PICK x \in {r, c} : x = Max({r, c}) /\ r <= x /\ c <= x
  <2>1. {r, c} \subseteq 0 .. (r + c) /\ {r, c} # {} /\ r + c \in Nat
    OBVIOUS
  <2>2. Max({r, c}) \in {r, c} /\ \A y \in {r, c} : y <= Max({r, c})
    BY <2>1, GreatestIs
  <2> QED BY <2>2
<1>5. PICK g : g = LineCounted(l, c)
  OBVIOUS
<1>6. g = [instructions |-> l.instructions + 1, covered |-> l.covered + One(c > 0),
           runCount |-> x]
  BY <1>1, <1>3, <1>4, <1>5 DEF LineCounted, LineRow
<1>7. LineRow(g) /\ g.instructions = l.instructions + 1 /\ g.covered = l.covered + One(c > 0)
      /\ g.runCount = x
  BY <1>6 DEF LineRow
<1>8. PICK U : U = T \cup {i}
  OBVIOUS
<1>9. /\ IsFiniteSet(U) /\ U \subseteq CountRec
      /\ g.instructions = Cardinality(U) /\ g.covered = Cardinality(Covered(U))
  BY <1>1, <1>2, <1>7, <1>8, CoveredGrows
<1>10. \A j \in U : j.count <= x
  <2> TAKE j \in U
  <2>1. CASE j = i
    BY <1>2, <1>4, <2>1
  <2>2. CASE j \in T
    <3>1. j.count \in Nat /\ j.count <= r
      BY <1>1, <1>3, <2>2 DEF CountRec
    <3> QED BY <1>4, <3>1
  <2> QED BY <1>8, <2>1, <2>2
<1>11. \E j \in U : j.count = x
  <2>1. CASE x = c
    BY <1>2, <1>8, <2>1
  <2>2. CASE x # c
    <3>1. x = r /\ r # 0
      BY <1>4, <2>2
    <3>2. T # {}
      BY <1>1, <1>3, <3>1
    <3> QED BY <1>1, <1>3, <1>8, <3>1, <3>2
  <2> QED BY <2>1, <2>2
<1> QED BY <1>2, <1>4, <1>5, <1>7, <1>8, <1>9, <1>10, <1>11 DEF LineOfThem

-------------------------------------------------------------------------------
\* Those of a set that belong to the function at an entry, and that are on a line.
Those(is, e) == {i \in is : Entry(Containing(i.address)) = e}
OnLine(is, source) == {i \in is : SourceSpan(i.address).is = source}

\* fs and ls are the accumulators of the instructions is.
RowsOf(fs, ls, is) ==
  /\ IsFiniteSet(is) /\ is \subseteq CountRec
  /\ DOMAIN fs = {Entry(Containing(i.address)) : i \in is}
  /\ \A e \in DOMAIN fs : FunctionOf(fs[e], e, Those(is, e))
  /\ DOMAIN ls = LinesOf(is)
  /\ \A source \in DOMAIN ls : LineOfThem(ls[source], OnLine(is, source))

\* What one instruction makes of the accumulators.
FunctionAdded(fs, gs, e, b, count, src) ==
  \E symbol, position :
    gs = Updated(fs, e, FunctionCounted(
                          Accumulator(fs, e, NewFunction(symbol, position)), b, count, src))
LineAdded(ls, ks, count, src) ==
  ks = IF src = <<>> THEN ls
       ELSE Updated(ls, src, LineCounted(Accumulator(ls, src, NewLine), count))

LEMMA RowsGrow ==
  ASSUME NEW fs, NEW ls, NEW is, RowsOf(fs, ls, is),
         NEW i \in CountRec, \A j \in is : j.address # i.address,
         NEW e, e = Entry(Containing(i.address)), NEW src, src = SourceSpan(i.address).is,
         NEW b, b <=> i.address = e,
         NEW gs, FunctionAdded(fs, gs, e, b, i.count, src),
         NEW ks, LineAdded(ls, ks, i.count, src)
  PROVE  RowsOf(gs, ks, is \cup {i})
<1> PICK symbol, position :
      gs = Updated(fs, e, FunctionCounted(
             Accumulator(fs, e, NewFunction(symbol, position)), b, i.count, src))
  BY Zenon DEF FunctionAdded
<1> ks = IF src = <<>> THEN ls
         ELSE Updated(ls, src, LineCounted(Accumulator(ls, src, NewLine), i.count))
  BY Zenon DEF LineAdded
<1>1. /\ IsFiniteSet(is) /\ is \subseteq CountRec
      /\ DOMAIN fs = {Entry(Containing(j.address)) : j \in is}
      /\ \A x \in DOMAIN fs : FunctionOf(fs[x], x, Those(is, x))
      /\ DOMAIN ls = LinesOf(is)
      /\ \A source \in DOMAIN ls : LineOfThem(ls[source], OnLine(is, source))
  BY DEF RowsOf
<1>2. PICK js : js = is \cup {i}
  OBVIOUS
<1>3. i \notin is
  OBVIOUS
<1>4. IsFiniteSet(js) /\ js \subseteq CountRec
  BY <1>1, <1>2, <1>3, FS_AddElement
<1>5. DOMAIN gs = {Entry(Containing(j.address)) : j \in js}
  BY <1>1, <1>2 DEF Updated
<1>6. FunctionOf(gs[e], e, Those(js, e))
  <2>1. PICK f : f = Accumulator(fs, e, NewFunction(symbol, position))
    OBVIOUS
  <2>2. FunctionOf(f, e, Those(is, e))
    <3>1. CASE e \in DOMAIN fs
      BY <1>1, <2>1, <3>1 DEF Accumulator
    <3>2. CASE e \notin DOMAIN fs
      <4>1. Those(is, e) = {}
        BY <1>1, <3>2 DEF Those
      <4>2. f = NewFunction(symbol, position)
        BY <2>1, <3>2 DEF Accumulator
      <4> QED BY <4>1, <4>2, NewFunctionIs
    <3> QED BY <3>1, <3>2
  <2>3. PICK T : T = Those(is, e)
    OBVIOUS
  <2>4. i \notin T /\ \A j \in T : j.address # i.address
    BY <1>3, <2>3 DEF Those
  <2>5. FunctionOf(FunctionCounted(f, b, i.count, src), e, T \cup {i})
    BY <2>2, <2>3, <2>4, FunctionGrows
  <2>6. Those(js, e) = T \cup {i}
    BY <1>2, <2>3 DEF Those
  <2>7. gs[e] = FunctionCounted(f, b, i.count, src)
    BY <2>1, Zenon DEF Updated
  <2> QED BY <2>5, <2>6, <2>7, Zenon
<1>7. ASSUME NEW x \in DOMAIN gs, x # e
      PROVE  FunctionOf(gs[x], x, Those(js, x))
  <2>1. x \in DOMAIN fs /\ gs[x] = fs[x]
    <3>1. DOMAIN gs = DOMAIN fs \cup {e}
      BY Zenon DEF Updated
    <3>2. x \in DOMAIN fs \cup {e} /\ x \in DOMAIN fs
      BY <1>7, <3>1
    <3> QED BY <1>7, <3>2, Zenon DEF Updated
  <2>2. Those(js, x) = Those(is, x)
    BY <1>2, <1>7 DEF Those
  <2> QED BY <1>1, <2>1, <2>2
<1>8. LinesOf(js) = LinesOf(is) \cup (IF src = <<>> THEN {} ELSE {src})
  BY <1>2, LinesGrow
<1>9. DOMAIN ks = LinesOf(js)
  BY <1>1, <1>8 DEF Updated
<1>10. ASSUME src # <<>>
       PROVE  LineOfThem(ks[src], OnLine(js, src))
  <2>1. PICK l : l = Accumulator(ls, src, NewLine)
    OBVIOUS
  <2>2. LineOfThem(l, OnLine(is, src))
    <3>1. CASE src \in DOMAIN ls
      BY <1>1, <2>1, <3>1 DEF Accumulator
    <3>2. CASE src \notin DOMAIN ls
      <4>1. OnLine(is, src) = {}
        BY <1>1, <1>10, <3>2 DEF OnLine, LinesOf
      <4>2. l = NewLine
        BY <2>1, <3>2 DEF Accumulator
      <4> QED BY <4>1, <4>2, NewLineIs
    <3> QED BY <3>1, <3>2
  <2>3. PICK T : T = OnLine(is, src)
    OBVIOUS
  <2>4. i \notin T
    BY <1>3, <2>3 DEF OnLine
  <2>5. LineOfThem(LineCounted(l, i.count), T \cup {i})
    BY <2>2, <2>3, <2>4, LineGrows
  <2>6. OnLine(js, src) = T \cup {i}
    BY <1>2, <2>3 DEF OnLine
  <2>7. ks[src] = LineCounted(l, i.count)
    BY <1>10, <2>1, Zenon DEF Updated
  <2> QED BY <2>5, <2>6, <2>7, Zenon
<1>11. ASSUME NEW x \in DOMAIN ks, x # src
       PROVE  LineOfThem(ks[x], OnLine(js, x))
  <2>1. x \in LinesOf(js)
    BY <1>9
  <2>2. x \in DOMAIN ls
    BY <1>1, <1>8, <1>11, <2>1
  <2>3. ks[x] = ls[x]
    <3>1. CASE src = <<>>
      BY <3>1
    <3>2. CASE src # <<>>
      BY <1>11, <2>2, <3>2, Zenon DEF Updated
    <3> QED BY <3>1, <3>2
  <2>4. OnLine(js, x) = OnLine(is, x)
    BY <1>2, <1>11 DEF OnLine
  <2> QED BY <1>1, <2>2, <2>3, <2>4
<1>12. \A x \in DOMAIN gs : FunctionOf(gs[x], x, Those(js, x))
  BY <1>6, <1>7
<1>13. \A x \in DOMAIN ks : LineOfThem(ks[x], OnLine(js, x))
  <2>1. <<>> \notin DOMAIN ks
    BY <1>9 DEF LinesOf
  <2> QED BY <1>10, <1>11, <2>1
<1> QED BY <1>2, <1>4, <1>5, <1>9, <1>12, <1>13 DEF RowsOf

\* Rows are of an image: as long as it stays, so do they.
LEMMA RowsStay ==
  ASSUME image' = image, NEW CONSTANT fs, NEW CONSTANT ls, NEW CONSTANT is,
         RowsOf(fs, ls, is)
  PROVE  RowsOf(fs, ls, is)'
<1>1. ASSUME NEW CONSTANT a
      PROVE  SourceSpan(a)' = SourceSpan(a) /\ Entry(Containing(a))' = Entry(Containing(a))
  <2>1. Containing(a)' = Containing(a) /\ SourceSpan(a)' = SourceSpan(a)
    BY TablesStay
  <2>2. PICK c : c = Containing(a)
    OBVIOUS
  <2>3. Entry(c)' = Entry(c)
    BY image' = image, Zenon DEF Entry
  <2> QED BY <2>1, <2>2, <2>3
<1>2. ASSUME NEW CONSTANT T
      PROVE  LinesOf(T)' = LinesOf(T)
  BY <1>1 DEF LinesOf
<1>3. ASSUME NEW CONSTANT x
      PROVE  Those(is, x)' = Those(is, x) /\ OnLine(is, x)' = OnLine(is, x)
  BY <1>1 DEF Those, OnLine
<1>4. ASSUME NEW CONSTANT f, NEW CONSTANT e, NEW CONSTANT T, FunctionOf(f, e, T)
      PROVE  FunctionOf(f, e, T)'
  <2>1. LinesOf(T)' = LinesOf(T)
    BY <1>2
  <2>2. PICK C : C = Covered(T)
    OBVIOUS
  <2>3. LinesOf(C)' = LinesOf(C)
    BY <1>2
  <2> QED BY <1>4, <2>1, <2>2, <2>3, Zenon DEF FunctionOf
<1> QED BY <1>1, <1>2, <1>3, <1>4 DEF RowsOf

-------------------------------------------------------------------------------
(***************************************************************************)
(* The walk. What it has met are the instructions of the sections before,  *)
(* and of this one those below the halfword it is at.                      *)
(***************************************************************************)
LEMMA BeginsDomain ==
  ASSUME NEW section, Len(section.wide) \in Nat
  PROVE  DOMAIN Begins(section) = 0 .. (Len(section.wide) - 1)
<1> DEFINE n == Len(section.wide)
           W(x, h) == h = 0 \/ ~(x /\ section.wide[h])
           Rec(g, m) == g = [h \in 0 .. (m - 1) |-> W(g[h - 1], h)]
<1>1. Begins(section) = CHOOSE g : Rec(g, n)
  BY DEF Begins
<1> HIDE DEF W
<1> DEFINE Some(m) == \E g : Rec(g, m)
           T == {m \in 0 .. n : ~Some(m)}
<1>2. T = {}
  <2> SUFFICES ASSUME T # {}
               PROVE  FALSE
    OBVIOUS
  <2>1. PICK m \in T : \A y \in T : m <= y
    <3>1. T \subseteq Nat
      <4> HIDE DEF Some
      <4> QED OBVIOUS
    <3> HIDE DEF T
    <3> QED BY <3>1, LeastNatural
  <2>2. m \in 0 .. n /\ ~Some(m)
    BY <2>1
  <2>3. m # 0
    <3>1. PICK g : g = [h \in 0 .. (0 - 1) |-> TRUE]
      OBVIOUS
    <3>2. 0 .. (0 - 1) = {}
      OBVIOUS
    <3>3. Rec(g, 0)
      BY <3>1, <3>2
    <3> QED BY <2>2, <3>3
  <2>4. m - 1 \in 0 .. n /\ ~(m <= m - 1)
    BY <2>2, <2>3
  <2>5. PICK g : Rec(g, m - 1)
    <3> HIDE DEF Some
    <3> QED BY <2>1, <2>4 DEF Some
  <2>6. \A h \in 0 .. (m - 1) - 1 : g[h] = W(g[h - 1], h)
    BY <2>5, Zenon
  <2>7. PICK k : k = [h \in 0 .. (m - 1) |-> IF h = m - 1 THEN W(g[h - 1], h) ELSE g[h]]
    OBVIOUS
  <2>8. ASSUME NEW h \in 0 .. (m - 1)
        PROVE  k[h] = W(k[h - 1], h)
    <3>1. k[h] = W(g[h - 1], h)
      <4>1. CASE h = m - 1
        BY <2>7, <4>1, Zenon
      <4>2. CASE h # m - 1
        <5>1. h \in 0 .. (m - 1) - 1
          BY <2>2, <4>2
        <5>2. k[h] = g[h]
          BY <2>7, <4>2, Zenon
        <5> QED BY <2>6, <5>1, <5>2, Zenon
      <4> QED BY <4>1, <4>2
    <3>2. CASE h = 0
      <4>1. W(k[h - 1], h) = TRUE /\ W(g[h - 1], h) = TRUE
        BY <3>2 DEF W
      <4> QED BY <3>1, <4>1, Zenon
    <3>3. CASE h # 0
      <4>1. h - 1 \in 0 .. (m - 1) /\ h - 1 # m - 1
        BY <2>2, <3>3
      <4>2. k[h - 1] = g[h - 1]
        BY <2>7, <4>1, Zenon
      <4> QED BY <3>1, <4>2, Zenon
    <3> QED BY <3>2, <3>3
  <2>9. Rec(k, m)
    <3>1. k = [h \in 0 .. (m - 1) |-> k[h]]
      BY <2>7, Zenon
    <3> QED BY <2>8, <3>1, Zenon
  <2> QED BY <2>2, <2>9
<1>3. Some(n)
  <2>1. n \in 0 .. n /\ n \notin T
    <3> HIDE DEF T
    <3> QED BY <1>2
  <2> HIDE DEF Some
  <2> QED BY <2>1
<1>4. PICK g : g = Begins(section)
  OBVIOUS
<1>5. Rec(g, n)
  <2> HIDE DEF Rec
  <2> QED BY <1>1, <1>3, <1>4
<1>6. DOMAIN g = 0 .. (n - 1)
  BY <1>5, Zenon
<1> QED BY <1>4, <1>6

InstructionAt(s, h) ==
  [address |-> sections[s].base + 2 * h, count |-> Count(sections[s], h)]

\* Halfword h of section s begins an instruction.
Opens(s, h) == h \in DOMAIN Begins(sections[s]) /\ Begins(sections[s])[h]

Met(s0, h0) ==
  {i \in Instructions :
     \E s \in DOMAIN sections : \E h \in DOMAIN Begins(sections[s]) :
       /\ Opens(s, h) /\ i = InstructionAt(s, h)
       /\ s <= s0 \/ (s = s0 + 1 /\ h < h0)}

LEMMA InstructionIs ==
  ASSUME NEW i
  PROVE  i \in Instructions <=>
           /\ Containing(i.address) # NoFunction
           /\ \E s \in DOMAIN sections : \E h \in DOMAIN Begins(sections[s]) :
                Opens(s, h) /\ i = InstructionAt(s, h)
<1> DEFINE Of1(s) == {[address |-> sections[s].base + 2 * h, count |-> Count(sections[s], h)] :
                        h \in {g \in DOMAIN Begins(sections[s]) : Begins(sections[s])[g]}}
           All == UNION {Of1(s) : s \in DOMAIN sections}
<1>1. Instructions = {j \in All : Containing(j.address) # NoFunction}
  BY DEF Instructions
<1>2. ASSUME NEW s \in DOMAIN sections
      PROVE  i \in Of1(s) <=> \E h \in DOMAIN Begins(sections[s]) :
                                Opens(s, h) /\ i = InstructionAt(s, h)
  BY Zenon DEF Opens, InstructionAt
<1> HIDE DEF Of1
<1>3. i \in All <=> \E s \in DOMAIN sections : \E h \in DOMAIN Begins(sections[s]) :
                      Opens(s, h) /\ i = InstructionAt(s, h)
  BY <1>2, Zenon
<1> HIDE DEF All
<1> QED BY <1>1, <1>3, Zenon

\* What a section says of its halfwords.
SectionParts(s, b, n, c) ==
  /\ b \in Nat /\ n \in Nat /\ c \in Nat /\ c <= n /\ b % 2 = 0 /\ b + 2 * n <= MaxAddress
  /\ b = sections[s].base /\ n = Len(sections[s].wide) /\ c = Len(sections[s].counts)
  /\ sections[s].counts \in Seq(Nat)
  /\ DOMAIN Begins(sections[s]) = 0 .. (n - 1)

LEMMA SectionHas ==
  ASSUME sections \in Listings, NEW s \in DOMAIN sections
  PROVE  \E b, n, c \in Nat : SectionParts(s, b, n, c)
<1>1. sections \in Seq(Section)
  BY CoverageAssumption
<1>2. PICK section \in Section : section = sections[s]
  BY <1>1
<1>3. /\ section.base \in Nat /\ section.wide \in Seq(BOOLEAN) /\ section.counts \in Seq(Nat)
  BY DEF Section
<1>4. Len(section.wide) \in Nat /\ Len(section.counts) \in Nat
  BY <1>3
<1>5. /\ section.base % 2 = 0 /\ section.base + 2 * Len(section.wide) <= MaxAddress
      /\ Len(section.counts) <= Len(section.wide)
  BY <1>2, CoverageAssumption
<1>6. DOMAIN Begins(section) = 0 .. (Len(section.wide) - 1)
  BY <1>4, BeginsDomain
<1>7. SectionParts(s, section.base, Len(section.wide), Len(section.counts))
  BY <1>2, <1>3, <1>4, <1>5, <1>6 DEF SectionParts
<1> QED BY <1>3, <1>4, <1>7

\* No address is in two sections.
LEMMA SectionsApart ==
  ASSUME sections \in Listings, NEW s \in DOMAIN sections, NEW t \in DOMAIN sections,
         NEW b \in Nat, NEW n \in Nat, NEW c \in Nat, SectionParts(s, b, n, c),
         NEW d \in Nat, NEW m \in Nat, NEW l \in Nat, SectionParts(t, d, m, l),
         NEW a \in Nat, b <= a, a < b + 2 * n, d <= a, a < d + 2 * m
  PROVE  s = t
<1>1. b = sections[s].base /\ n = Len(sections[s].wide)
  BY DEF SectionParts
<1>2. d = sections[t].base /\ m = Len(sections[t].wide)
  BY DEF SectionParts
<1> SUFFICES ASSUME s # t
             PROVE  FALSE
  OBVIOUS
<1>3. \/ sections[s].base + 2 * Len(sections[s].wide) <= sections[t].base
      \/ sections[t].base + 2 * Len(sections[t].wide) <= sections[s].base
  BY CoverageAssumption
<1>4. b + 2 * n <= d \/ d + 2 * m <= b
  BY <1>1, <1>2, <1>3, Zenon
<1> QED BY <1>4

LEMMA PlacesApart ==
  ASSUME sections \in Listings,
         NEW s \in DOMAIN sections, NEW h \in DOMAIN Begins(sections[s]),
         NEW t \in DOMAIN sections, NEW g \in DOMAIN Begins(sections[t]),
         InstructionAt(s, h).address = InstructionAt(t, g).address
  PROVE  s = t /\ h = g
<1>1. PICK b \in Nat, n \in Nat, c \in Nat : SectionParts(s, b, n, c)
  BY SectionHas
<1>2. PICK d \in Nat, m \in Nat, l \in Nat : SectionParts(t, d, m, l)
  BY SectionHas
<1>3. h \in 0 .. (n - 1) /\ g \in 0 .. (m - 1)
  BY <1>1, <1>2 DEF SectionParts
<1>4. InstructionAt(s, h).address = b + 2 * h /\ InstructionAt(t, g).address = d + 2 * g
  BY <1>1, <1>2 DEF SectionParts, InstructionAt
<1>5. PICK a \in Nat : a = b + 2 * h
  BY <1>3
<1>6. b <= a /\ a < b + 2 * n /\ d <= a /\ a < d + 2 * m
  <2>1. a = d + 2 * g
    BY <1>4, <1>5
  <2>2. g \in Nat /\ h \in Nat /\ g < m /\ h < n
    BY <1>3
  <2> QED BY <1>5, <2>1, <2>2
<1>7. s = t
  BY <1>1, <1>2, <1>6, SectionsApart
<1>8. b = d
  BY <1>1, <1>2, <1>7 DEF SectionParts
<1>9. b + 2 * h = d + 2 * g
  BY <1>4
<1>10. h = g
  BY <1>3, <1>8, <1>9
<1> QED BY <1>7, <1>10

LEMMA InstructionTyped ==
  ASSUME sections \in Listings, NEW s \in DOMAIN sections, NEW h \in DOMAIN Begins(sections[s])
  PROVE  /\ InstructionAt(s, h) \in CountRec
         /\ InstructionAt(s, h).address < MaxAddress /\ InstructionAt(s, h).address % 2 = 0
<1>1. PICK b \in Nat, n \in Nat, c \in Nat : SectionParts(s, b, n, c)
  BY SectionHas
<1>2. h \in 0 .. (n - 1) /\ b + 2 * n <= MaxAddress /\ b % 2 = 0 /\ b = sections[s].base
      /\ c = Len(sections[s].counts) /\ sections[s].counts \in Seq(Nat)
  BY <1>1 DEF SectionParts
<1>3. Count(sections[s], h) \in Nat
  <2>1. CASE h < c
    <3>1. h + 1 \in 1 .. Len(sections[s].counts)
      BY <1>2, <2>1
    <3>2. sections[s].counts[h + 1] \in Nat
      BY <1>2, <3>1
    <3> QED BY <1>2, <2>1, <3>2 DEF Count
  <2>2. CASE ~(h < c)
    BY <1>2, <2>2 DEF Count
  <2> QED BY <2>1, <2>2
<1>4. PICK a \in Nat : a = b + 2 * h
  BY <1>2
<1>5. a < MaxAddress /\ a % 2 = 0
  <2>1. MaxAddress \in Nat
    BY SymbolizerAssumption
  <2>2. PICK k \in Nat : b = 2 * k
    <3>1. b = 2 * (b \div 2) /\ b \div 2 \in Nat
      BY <1>2
    <3> QED BY <3>1
  <2>3. h \in Nat /\ h < n
    BY <1>2
  <2>4. a = 2 * (k + h)
    BY <1>4, <2>2, <2>3
  <2>5. a % 2 = 0
    BY <2>2, <2>3, <2>4
  <2> QED BY <1>2, <1>4, <2>1, <2>3, <2>5
<1>6. InstructionAt(s, h) = [address |-> a, count |-> Count(sections[s], h)]
  BY <1>2, <1>4, Zenon DEF InstructionAt
<1> QED BY <1>3, <1>5, <1>6 DEF CountRec

\* At the end of a section the next one begins.
LEMMA SectionMet ==
  ASSUME sections \in Listings, NEW s0 \in Nat, s0 + 1 \in DOMAIN sections, NEW h0 \in Nat,
         h0 = Len(sections[s0 + 1].wide)
  PROVE  Met(s0 + 1, 0) = Met(s0, h0)
<1>1. DOMAIN sections \subseteq Nat
  BY CoverageAssumption
<1>2. PICK b \in Nat, n \in Nat, c \in Nat : SectionParts(s0 + 1, b, n, c)
  BY SectionHas
<1>3. n = h0 /\ DOMAIN Begins(sections[s0 + 1]) = 0 .. (h0 - 1)
  BY <1>2 DEF SectionParts
<1>4. ASSUME NEW s \in DOMAIN sections, NEW h \in DOMAIN Begins(sections[s])
      PROVE  (s <= s0 + 1 \/ (s = (s0 + 1) + 1 /\ h < 0)) <=> (s <= s0 \/ (s = s0 + 1 /\ h < h0))
  <2>1. s \in Nat
    BY <1>1
  <2>2. PICK d \in Nat, m \in Nat, l \in Nat : SectionParts(s, d, m, l)
    BY SectionHas
  <2>3. h \in Nat
    BY <2>2 DEF SectionParts
  <2>4. s = s0 + 1 => h < h0
    BY <1>3
  <2> QED BY <2>1, <2>3, <2>4
<1> QED BY <1>4 DEF Met

\* What the next halfword adds to what was met: its instruction, if it begins
\* one that belongs to a function.
LEMMA HalfwordMet ==
  ASSUME sections \in Listings, NEW s0 \in Nat, s0 + 1 \in DOMAIN sections, NEW h0 \in Nat,
         h0 < Len(sections[s0 + 1].wide)
  PROVE  LET i == InstructionAt(s0 + 1, h0)
         IN  /\ \A j \in Met(s0, h0) : j.address # i.address
             /\ h0 \in DOMAIN Begins(sections[s0 + 1])
             /\ Met(s0, h0 + 1) =
                  IF Begins(sections[s0 + 1])[h0] /\ Containing(i.address) # NoFunction
                  THEN Met(s0, h0) \cup {i} ELSE Met(s0, h0)
<1> DEFINE i == InstructionAt(s0 + 1, h0)
<1>1. DOMAIN sections \subseteq Nat
  BY CoverageAssumption
<1>2. h0 \in DOMAIN Begins(sections[s0 + 1])
  <2>1. PICK b \in Nat, n \in Nat, c \in Nat : SectionParts(s0 + 1, b, n, c)
    BY SectionHas
  <2> QED BY <2>1 DEF SectionParts
<1>3. ASSUME NEW s \in DOMAIN sections, NEW h \in DOMAIN Begins(sections[s])
      PROVE  (s <= s0 \/ (s = s0 + 1 /\ h < h0 + 1)) <=>
               (s <= s0 \/ (s = s0 + 1 /\ h < h0) \/ (s = s0 + 1 /\ h = h0))
  <2>1. PICK d \in Nat, m \in Nat, l \in Nat : SectionParts(s, d, m, l)
    BY SectionHas
  <2>2. h \in Nat /\ s \in Nat
    BY <1>1, <2>1 DEF SectionParts
  <2> QED BY <2>2
<1>4. ASSUME NEW j \in Met(s0, h0), j.address = i.address
      PROVE  FALSE
  <2> HIDE DEF i
  <2>0. \E s \in DOMAIN sections : \E h \in DOMAIN Begins(sections[s]) :
          Opens(s, h) /\ j = InstructionAt(s, h) /\ (s <= s0 \/ (s = s0 + 1 /\ h < h0))
    BY <1>4 DEF Met
  <2>11. PICK s \in DOMAIN sections : \E h \in DOMAIN Begins(sections[s]) :
            Opens(s, h) /\ j = InstructionAt(s, h) /\ (s <= s0 \/ (s = s0 + 1 /\ h < h0))
    BY <2>0
  <2>1. PICK h \in DOMAIN Begins(sections[s]) :
            Opens(s, h) /\ j = InstructionAt(s, h) /\ (s <= s0 \/ (s = s0 + 1 /\ h < h0))
    BY <2>11
  <2>2. s = s0 + 1 /\ h = h0
    BY <1>2, <1>4, <2>1, PlacesApart DEF i
  <2>3. s0 \in Nat /\ h0 \in Nat /\ ~(s0 + 1 <= s0) /\ ~(h0 < h0)
    OBVIOUS
  <2> QED BY <2>1, <2>2, <2>3
<1>5. CASE Begins(sections[s0 + 1])[h0] /\ Containing(i.address) # NoFunction
  <2>1. Opens(s0 + 1, h0) /\ i \in Instructions
    <3>1. Opens(s0 + 1, h0)
      BY <1>2, <1>5 DEF Opens
    <3> QED BY <1>2, <1>5, <3>1, InstructionIs
  <2>2. ASSUME NEW j \in Met(s0, h0 + 1)
        PROVE  j \in Met(s0, h0) \cup {i}
    <3> HIDE DEF i
    <3>1. j \in Instructions /\ \E s \in DOMAIN sections : \E h \in DOMAIN Begins(sections[s]) :
            Opens(s, h) /\ j = InstructionAt(s, h) /\ (s <= s0 \/ (s = s0 + 1 /\ h < h0 + 1))
      BY DEF Met
    <3>12. PICK s \in DOMAIN sections : \E h \in DOMAIN Begins(sections[s]) :
              Opens(s, h) /\ j = InstructionAt(s, h) /\ (s <= s0 \/ (s = s0 + 1 /\ h < h0 + 1))
      BY <3>1
    <3>2. PICK h \in DOMAIN Begins(sections[s]) :
              Opens(s, h) /\ j = InstructionAt(s, h) /\ (s <= s0 \/ (s = s0 + 1 /\ h < h0 + 1))
      BY <3>12
    <3>3. CASE s <= s0 \/ (s = s0 + 1 /\ h < h0)
      BY <3>1, <3>2, <3>3 DEF Met
    <3>4. CASE s = s0 + 1 /\ h = h0
      BY <3>2, <3>4 DEF i
    <3> QED BY <1>3, <3>2, <3>3, <3>4
  <2>3. ASSUME NEW j \in Met(s0, h0) \cup {i}
        PROVE  j \in Met(s0, h0 + 1)
    <3>1. CASE j = i
      <4>1. s0 + 1 <= s0 \/ (s0 + 1 = s0 + 1 /\ h0 < h0 + 1)
        OBVIOUS
      <4> QED BY <1>2, <2>1, <3>1, <4>1 DEF Met
    <3>2. CASE j \in Met(s0, h0)
      <4>11. PICK s \in DOMAIN sections : \E h \in DOMAIN Begins(sections[s]) :
                Opens(s, h) /\ j = InstructionAt(s, h) /\ (s <= s0 \/ (s = s0 + 1 /\ h < h0))
        BY <3>2 DEF Met
      <4>1. PICK h \in DOMAIN Begins(sections[s]) :
                Opens(s, h) /\ j = InstructionAt(s, h) /\ (s <= s0 \/ (s = s0 + 1 /\ h < h0))
        BY <4>11
      <4>2. s <= s0 \/ (s = s0 + 1 /\ h < h0 + 1)
        BY <1>3, <4>1
      <4>3. j \in Instructions
        BY <3>2 DEF Met
      <4> QED BY <4>1, <4>2, <4>3 DEF Met
    <3> QED BY <3>1, <3>2
  <2>4. Met(s0, h0 + 1) = Met(s0, h0) \cup {i}
    BY <2>2, <2>3
  <2> QED BY <1>2, <1>4, <1>5, <2>4
<1>6. CASE ~(Begins(sections[s0 + 1])[h0] /\ Containing(i.address) # NoFunction)
  <2>1. ASSUME NEW j \in Instructions, NEW s \in DOMAIN sections, NEW h \in DOMAIN Begins(sections[s]),
               Opens(s, h), j = InstructionAt(s, h), s = s0 + 1, h = h0
        PROVE  FALSE
    <3>1. Begins(sections[s0 + 1])[h0] /\ j = i
      BY <2>1 DEF Opens
    <3>2. Containing(j.address) # NoFunction
      BY InstructionIs
    <3> QED BY <1>6, <3>1, <3>2
  <2> HIDE DEF i
  <2>2. ASSUME NEW j
        PROVE  j \in Met(s0, h0 + 1) <=> j \in Met(s0, h0)
    BY <1>3, <2>1, Zenon DEF Met
  <2>3. Met(s0, h0 + 1) = Met(s0, h0)
    BY <2>2
  <2> QED BY <1>2, <1>4, <1>6, <2>3 DEF i
<1> QED BY <1>5, <1>6

\* fs and ls are what the accumulators become.
Become(fs, ls) == fs = functions' /\ ls = lines'

LEMMA AddressKnown ==
  ASSUME CacheInv, NEW a \in Nat, a < MaxAddress, a % 2 = 0
  PROVE  /\ FunctionEntry(fnCache, a).is = Containing(a)
         /\ SourceEntry(srcCache, a).is = SourceSpan(a).is
<1>1. a \in Addresses /\ ~OddEnd(a)
  BY SymbolizerAssumption DEF Addresses, OddEnd
<1>2. PICK f \in FnSpan : f = FunctionEntry(fnCache, a) /\ FnHonest(f) /\ Within(f, a)
  BY <1>1, FunctionAnswer DEF CacheInv
<1>3. PICK g \in SrcSpan : g = SourceEntry(srcCache, a) /\ SrcHonest(g) /\ Within(g, a)
  BY <1>1, SourceAnswer DEF CacheInv
<1>4. a \in f.start .. (f.end - 1) /\ a \in g.start .. (g.end - 1)
  BY <1>2, <1>3 DEF Within, FnSpan, SrcSpan
<1> QED BY <1>1, <1>2, <1>3, <1>4 DEF FnHonest, SrcHonest

LEMMA CountingAdds ==
  ASSUME CacheInv, sections \in Listings, NEW s0 \in Nat, s0 + 1 \in DOMAIN sections,
         NEW h \in Nat, h < Len(sections[s0 + 1].wide), Begins(sections[s0 + 1])[h],
         CountInstruction(sections[s0 + 1], h),
         NEW fs, NEW ls, Become(fs, ls), RowsOf(functions, lines, Met(s0, h))
  PROVE  RowsOf(fs, ls, Met(s0, h + 1))
<1>1. PICK i : i = InstructionAt(s0 + 1, h)
  OBVIOUS
<1>2. /\ \A j \in Met(s0, h) : j.address # i.address
      /\ h \in DOMAIN Begins(sections[s0 + 1])
      /\ Met(s0, h + 1) = IF Containing(i.address) # NoFunction
                          THEN Met(s0, h) \cup {i} ELSE Met(s0, h)
  BY <1>1, HalfwordMet
<1>3. i \in CountRec /\ i.address < MaxAddress /\ i.address % 2 = 0
  BY <1>1, <1>2, InstructionTyped
<1>4. PICK a \in Nat : a = i.address
  BY <1>3 DEF CountRec
<1>5. i.count = Count(sections[s0 + 1], h) /\ a = sections[s0 + 1].base + h * HALFWORD_BYTES
  <2>1. PICK b \in Nat : b = sections[s0 + 1].base
    BY SectionIs
  <2>2. a = b + 2 * h
    BY <1>1, <1>4, <2>1 DEF InstructionAt
  <2>3. b + 2 * h = b + h * 2
    OBVIOUS
  <2> QED BY <1>1, <2>1, <2>2, <2>3 DEF InstructionAt, HALFWORD_BYTES
<1>6. PICK symbol, src : symbol = Containing(a) /\ src = SourceSpan(a).is
  OBVIOUS
<1>7. symbol = FunctionEntry(fnCache, a).is /\ src = SourceEntry(srcCache, a).is
  BY <1>3, <1>4, <1>6, AddressKnown
<1>8. PICK e : e = Entry(symbol)
  OBVIOUS
<1>9. \/ symbol = NoFunction /\ fs = functions /\ ls = lines
      \/ /\ symbol # NoFunction
         /\ \E position :
              fs = Updated(functions, e, FunctionCounted(
                     Accumulator(functions, e, NewFunction(symbol, position)), a = e, i.count, src))
         /\ ls = IF src = <<>> THEN lines
                 ELSE Updated(lines, src, LineCounted(Accumulator(lines, src, NewLine), i.count))
  BY <1>5, <1>7, <1>8, Zenon DEF CountInstruction, Become
<1>10. CASE symbol = NoFunction
  BY <1>2, <1>4, <1>6, <1>9, <1>10
<1>11. CASE symbol # NoFunction
  <2>1. PICK b : b = (a = e)
    OBVIOUS
  <2>2. FunctionAdded(functions, fs, e, b, i.count, src)
    BY <1>9, <1>11, <2>1, Zenon DEF FunctionAdded
  <2>3. LineAdded(lines, ls, i.count, src)
    BY <1>9, <1>11, Zenon DEF LineAdded
  <2>4. RowsOf(fs, ls, Met(s0, h) \cup {i})
    <3>1. b <=> i.address = e
      BY <1>4, <2>1
    <3>2. e = Entry(Containing(i.address)) /\ src = SourceSpan(i.address).is
      BY <1>4, <1>6, <1>8
    <3> QED BY <1>2, <1>3, <2>2, <2>3, <3>1, <3>2, RowsGrow
  <2> QED BY <1>2, <1>4, <1>6, <1>11, <2>4
<1> QED BY <1>10, <1>11

RowsInv ==
  /\ at = "built" => walked.section = Len(sections)
  /\ RowsOf(functions, lines, Met(walked.section, walked.halfword))

LEMMA RowsInvInit == CoverageInit => RowsInv
<1> SUFFICES ASSUME CoverageInit
             PROVE  RowsInv
  OBVIOUS
<1>1. at = "idle" /\ sections \in Listings /\ functions = <<>> /\ lines = <<>>
      /\ walked.section = 0 /\ walked.halfword = 0
  BY DEF CoverageInit
<1>2. Met(0, 0) = {}
  <2>1. ASSUME NEW s \in DOMAIN sections, NEW h \in DOMAIN Begins(sections[s])
        PROVE  ~(s <= 0 \/ (s = 0 + 1 /\ h < 0))
    <3>1. s \in Nat /\ s >= 1
      BY <1>1, CoverageAssumption
    <3>2. PICK d \in Nat, m \in Nat, l \in Nat : SectionParts(s, d, m, l)
      BY <1>1, SectionHas
    <3>3. h \in Nat
      BY <3>2 DEF SectionParts
    <3> QED BY <3>1, <3>3
  <2> QED BY <2>1 DEF Met
<1>3. DOMAIN <<>> = {} /\ LinesOf({}) = {} /\ IsFiniteSet({})
  BY FS_EmptySet DEF LinesOf
<1>4. RowsOf(<<>>, <<>>, {})
  BY <1>3 DEF RowsOf
<1> QED BY <1>1, <1>2, <1>4 DEF RowsInv

\* What was met is of an image and its sections.
LEMMA MetStays ==
  ASSUME image' = image, sections' = sections, NEW CONSTANT s0, NEW CONSTANT h0
  PROVE  Met(s0, h0)' = Met(s0, h0)
<1>1. ASSUME NEW CONSTANT a
      PROVE  Containing(a)' = Containing(a)
  BY TablesStay
<1>2. Instructions' = Instructions
  BY <1>1 DEF Instructions
<1> QED BY <1>2 DEF Met, Opens, InstructionAt

\* The accumulators and what was met move together.
LEMMA RowsMove ==
  ASSUME image' = image, sections' = sections,
         at' = "built" => walked'.section = Len(sections),
         NEW CONSTANT fs, NEW CONSTANT ls, Become(fs, ls),
         NEW CONSTANT s0, NEW CONSTANT h0, s0 = walked'.section, h0 = walked'.halfword,
         RowsOf(fs, ls, Met(s0, h0))
  PROVE  RowsInv'
<1>1. PICK is : is = Met(s0, h0)
  OBVIOUS
<1>2. RowsOf(fs, ls, is)'
  BY <1>1, RowsStay
<1>3. Met(s0, h0)' = is
  BY <1>1, MetStays
<1> QED BY <1>2, <1>3 DEF RowsInv, Become

LEMMA RowsInvNext == CoverageInv /\ RowsInv /\ [CoverageNext]_coverageVars => RowsInv'
<1> SUFFICES ASSUME CacheInv, WalkInv, RowsInv, [CoverageNext]_coverageVars
             PROVE  RowsInv'
  BY DEF CoverageInv
<1>1. PICK fs, ls, s0, h0 :
        fs = functions' /\ ls = lines' /\ s0 = walked'.section /\ h0 = walked'.halfword
  OBVIOUS
<1>2. Become(fs, ls)
  BY <1>1 DEF Become
<1>3. CASE /\ image' = image /\ UNCHANGED <<sections, walked, functions, lines>>
           /\ at' = at \/ walked.section = Len(sections)
  <2>1. RowsOf(fs, ls, Met(s0, h0))
    BY <1>1, <1>3 DEF RowsInv
  <2>2. at' = "built" => walked'.section = Len(sections)
    BY <1>3 DEF RowsInv
  <2> QED BY <1>1, <1>2, <1>3, <2>1, <2>2, RowsMove
<1>4. CASE Walk
  <2>1. PICK s \in Nat, h \in Nat : s = walked.section /\ h = walked.halfword
    BY DEF WalkInv
  <2>2. /\ image' = image /\ sections' = sections /\ at' # "built"
        /\ s < Len(sections) /\ sections \in Listings
    BY <1>4, <2>1 DEF Walk, WalkInv
  <2>3. s + 1 \in DOMAIN sections /\ h <= Len(sections[s + 1].wide)
    <3>1. sections \in Seq(Section)
      BY <2>2, CoverageAssumption
    <3> QED BY <2>1, <2>2, <3>1 DEF WalkInv
  <2>4. PICK n \in Nat : n = Len(sections[s + 1].wide)
    BY <2>2, <2>3, SectionIs
  <2>5. RowsOf(functions, lines, Met(s, h))
    BY <2>1 DEF RowsInv
  <2>6. CASE h = n
    <3>1. s0 = s + 1 /\ h0 = 0 /\ fs = functions /\ ls = lines
      BY <1>1, <1>4, <2>1, <2>4, <2>6 DEF Walk
    <3>2. Met(s0, h0) = Met(s, h)
      BY <2>2, <2>3, <2>4, <2>6, <3>1, SectionMet
    <3>3. RowsOf(fs, ls, Met(s0, h0))
      BY <2>5, <3>1, <3>2
    <3> QED BY <1>1, <1>2, <2>2, <3>3, RowsMove
  <2>7. CASE h # n
    <3>1. h < n
      BY <2>3, <2>4, <2>7
    <3>2. /\ walked' = [walked EXCEPT !.halfword = @ + 1]
          /\ IF Begins(sections[s + 1])[h] THEN CountInstruction(sections[s + 1], h)
             ELSE functions' = functions /\ lines' = lines
      BY <1>4, <2>1, <2>4, <2>7 DEF Walk
    <3>3. s0 = s /\ h0 = h + 1
      BY <1>1, <2>1, <3>2 DEF WalkInv
    <3>4. CASE Begins(sections[s + 1])[h]
      <4>1. CountInstruction(sections[s + 1], h)
        BY <3>2, <3>4
      <4>2. RowsOf(fs, ls, Met(s, h + 1))
        BY <1>2, <2>2, <2>3, <2>4, <2>5, <3>1, <3>4, <4>1, CountingAdds
      <4> QED BY <1>1, <1>2, <2>2, <3>3, <4>2, RowsMove
    <3>5. CASE ~Begins(sections[s + 1])[h]
      <4>1. fs = functions /\ ls = lines
        BY <1>1, <3>2, <3>5
      <4>2. Met(s, h + 1) = Met(s, h)
        BY <2>2, <2>3, <2>4, <3>1, <3>5, HalfwordMet
      <4>3. RowsOf(fs, ls, Met(s0, h0))
        BY <2>5, <3>3, <4>1, <4>2
      <4> QED BY <1>1, <1>2, <2>2, <4>3, RowsMove
    <3> QED BY <3>4, <3>5
  <2> QED BY <2>6, <2>7
<1>5. CASE Symbolize
  <2>1. image' = image
    BY <1>5 DEF Symbolize, SymbolNext, AskFunction, AskSource, AskRow, Take
  <2> QED BY <1>3, <1>5, <2>1 DEF Symbolize
<1>6. CASE Build
  BY <1>3, <1>6 DEF Build, symbolVars
<1>7. CASE UNCHANGED coverageVars
  BY <1>3, <1>7 DEF coverageVars, symbolVars
<1> QED BY <1>4, <1>5, <1>6, <1>7 DEF CoverageNext, Reported

-------------------------------------------------------------------------------
(***************************************************************************)
(* The report. Every instruction was met.                                  *)
(***************************************************************************)
LEMMA AllMet ==
  ASSUME sections \in Listings, NEW s0, s0 = Len(sections), NEW h0
  PROVE  Met(s0, h0) = Instructions
<1>1. ASSUME NEW s \in DOMAIN sections
      PROVE  s <= s0
  BY <1>1, SectionIs
<1>2. ASSUME NEW i \in Instructions
      PROVE  i \in Met(s0, h0)
  <2>1. \E s \in DOMAIN sections : \E h \in DOMAIN Begins(sections[s]) :
          Opens(s, h) /\ i = InstructionAt(s, h)
    BY InstructionIs
  <2> QED BY <1>1, <2>1, Zenon DEF Met
<1> QED BY <1>2 DEF Met

LEMMA RowIsRight ==
  ASSUME NEW f, NEW e, NEW T, FunctionOf(f, e, T)
  PROVE  /\ f.instructions = Cardinality(T)
         /\ f.covered = Cardinality(Covered(T))
         /\ f.executed = SumOver(T)
         /\ SrcLines(f) = Cardinality(LinesOf(T))
         /\ SrcLinesCovered(f) = Cardinality(LinesOf(Covered(T)))
         /\ \A i \in T : i.address = e => f.runCount = i.count
         /\ (\A i \in T : i.address # e) => f.runCount = 0
<1>1. PICK m : Additive(m, CountsOf(T), T) /\ f.executed = m[T]
  BY DEF FunctionOf
<1>2. f.executed = SumOver(T)
  BY <1>1, SumIs DEF FunctionOf
<1>3. LinesOf(Covered(T)) \subseteq LinesOf(T)
  BY DEF LinesOf, Covered
<1>4. PICK L, K : L = LinesOf(T) /\ K = LinesOf(Covered(T))
  OBVIOUS
<1>5. DOMAIN f.lines = L /\ \A key \in L : f.lines[key] <=> key \in K
  BY <1>4 DEF FunctionOf
<1>6. {key \in DOMAIN f.lines : f.lines[key]} = K
  BY <1>3, <1>4, <1>5
<1>7. SrcLines(f) = Cardinality(L) /\ SrcLinesCovered(f) = Cardinality(K)
  BY <1>5, <1>6 DEF SrcLines, SrcLinesCovered
<1> QED BY <1>2, <1>4, <1>7 DEF FunctionOf

LEMMA MaxOfTwo ==
  ASSUME NEW x \in Int
  PROVE  Max({x, 0}) = IF x >= 0 THEN x ELSE 0
<1>1. PICK m \in {x, 0} : m = IF x >= 0 THEN x ELSE 0
  OBVIOUS
<1>2. \A y \in {x, 0} : m >= y
  BY <1>1
<1>3. PICK z : z = Max({x, 0})
  OBVIOUS
<1>4. z \in {x, 0} /\ \A y \in {x, 0} : z >= y
  BY <1>2, <1>3 DEF Max
<1> QED BY <1>1, <1>3, <1>4

\* An instruction is in one section, which is where its count is looked up.
LEMMA LookupIs ==
  ASSUME sections \in Listings, NEW i \in Instructions
  PROVE  Max({Lookup(i.address), 0}) = i.count
<1>0. \E s \in DOMAIN sections : \E h \in DOMAIN Begins(sections[s]) :
          Opens(s, h) /\ i = InstructionAt(s, h)
  BY InstructionIs
<1>1. PICK s \in DOMAIN sections : \E h \in DOMAIN Begins(sections[s]) : i = InstructionAt(s, h)
  BY <1>0
<1>2. PICK h \in DOMAIN Begins(sections[s]) : i = InstructionAt(s, h)
  BY <1>1
<1>3. PICK b \in Nat, n \in Nat, c \in Nat : SectionParts(s, b, n, c)
  BY SectionHas
<1>4. h \in 0 .. (n - 1) /\ h \in Nat /\ c <= n
  BY <1>3 DEF SectionParts
<1>5. PICK a \in Nat : a = b + 2 * h
  BY <1>4
<1>6. i.address = a /\ i.count = Count(sections[s], h) /\ i.count \in Nat
  BY <1>2, <1>3, <1>5, InstructionTyped DEF InstructionAt, SectionParts, CountRec
<1>7. (a - b) \div 2 = h /\ b <= a /\ a < b + 2 * n
  BY <1>4, <1>5
<1>8. PICK fits : fits = {t \in DOMAIN sections :
                            /\ a >= sections[t].base
                            /\ (a - sections[t].base) \div HALFWORD_BYTES < Len(sections[t].counts)}
  OBVIOUS
<1>9. ASSUME NEW t \in fits
      PROVE  t = s
  <2>1. t \in DOMAIN sections
    BY <1>8
  <2>2. PICK d \in Nat, m \in Nat, l \in Nat : SectionParts(t, d, m, l)
    BY <2>1, SectionHas
  <2>3. d = sections[t].base /\ l = Len(sections[t].counts) /\ l <= m
    BY <2>2 DEF SectionParts
  <2>4. a >= d /\ (a - d) \div 2 < l
    BY <1>8, <2>3 DEF HALFWORD_BYTES
  <2>5. PICK x \in Nat : x = a - d
    BY <2>4
  <2>6. PICK q \in Nat : q = x \div 2
    BY <2>5
  <2>7. x < 2 * m
    <3>1. q < l
      BY <2>4, <2>5, <2>6, Zenon
    <3>2. l <= m
      BY <2>3
    <3>3. x <= 2 * q + 1
      BY <2>6
    <3> QED BY <3>1, <3>2, <3>3
  <2>8. d <= a /\ a < d + 2 * m
    BY <2>4, <2>5, <2>7
  <2> QED BY <1>3, <1>7, <2>1, <2>2, <2>8, SectionsApart
<1>10. s \in fits <=> h < c
  <2>1. b = sections[s].base /\ c = Len(sections[s].counts)
    BY <1>3 DEF SectionParts
  <2> QED BY <1>7, <1>8, <2>1 DEF HALFWORD_BYTES
<1>11. Lookup(a) = IF fits = {} THEN -1
                   ELSE sections[Min(fits)].counts[(a - sections[Min(fits)].base) \div HALFWORD_BYTES + 1]
  BY <1>8, Zenon DEF Lookup
<1>12. CASE h < c
  <2>1. fits = {s}
    BY <1>9, <1>10, <1>12
  <2>2. Min(fits) = s
    <3>1. DOMAIN sections \subseteq Nat
      BY SectionIs
    <3>2. s \in Nat /\ {s} \subseteq Nat /\ {s} # {}
      BY <3>1
    <3>3. Min({s}) \in {s}
      BY <3>2, LeastIs
    <3> QED BY <2>1, <3>3
  <2>3. b = sections[s].base /\ c = Len(sections[s].counts)
    BY <1>3 DEF SectionParts
  <2>4. Lookup(a) = sections[s].counts[(a - b) \div 2 + 1]
    BY <1>11, <2>1, <2>2, <2>3 DEF HALFWORD_BYTES
  <2>5. Lookup(a) = sections[s].counts[h + 1]
    BY <1>7, <2>4
  <2>6. Lookup(a) = i.count
    BY <1>6, <1>12, <2>3, <2>5 DEF Count
  <2> QED BY <1>6, <2>6, MaxOfTwo
<1>13. CASE ~(h < c)
  <2>1. Lookup(a) = -1
    BY <1>9, <1>10, <1>11, <1>13
  <2>2. i.count = 0
    <3>1. c = Len(sections[s].counts)
      BY <1>3 DEF SectionParts
    <3> QED BY <1>6, <1>13, <3>1 DEF Count
  <2> QED BY <1>6, <2>1, <2>2, MaxOfTwo
<1> QED BY <1>12, <1>13

\* The instructions divided among the functions.
LEMMA SharesAddUp ==
  ASSUME NEW is, IsFiniteSet(is), NEW D, IsFiniteSet(D), NEW f,
         \A i \in is : Entry(Containing(i.address)) \in D,
         \A e \in D : f[e] = Cardinality(Those(is, e))
  PROVE  \E m : Additive(m, f, D) /\ m[D] = Cardinality(is)
<1> DEFINE Share(S) == {i \in is : Entry(Containing(i.address)) \in S}
<1>1. PICK m : m = [S \in SUBSET D |-> Cardinality(Share(S))]
  OBVIOUS
<1>2. \A S \in SUBSET D : m[S] = Cardinality(Share(S))
  BY <1>1, Zenon
<1>3. \A S : Share(S) \subseteq is
  OBVIOUS
<1>4. \A S : IsFiniteSet(Share(S)) /\ Cardinality(Share(S)) \in Nat
  <2> TAKE S
  <2> HIDE DEF Share
  <2> QED BY <1>3, FS_Subset, FS_CardinalityType
<1>5. m \in [SUBSET D -> Nat]
  <2>1. \A S \in SUBSET D : m[S] \in Nat
    BY <1>2, <1>4, Zenon
  <2>2. m = [S \in SUBSET D |-> m[S]]
    BY <1>1, Zenon
  <2> QED BY <2>1, <2>2, Zenon
<1>6. m[{}] = 0
  <2>1. Share({}) = {}
    OBVIOUS
  <2>2. Cardinality({}) = 0
    BY FS_EmptySet
  <2> HIDE DEF Share
  <2> QED BY <1>2, <2>1, <2>2
<1>7. ASSUME NEW S \in SUBSET D, NEW x \in S
      PROVE  m[S] = f[x] + m[S \ {x}]
  <2>1. PICK A, B : A = Those(is, x) /\ B = Share(S \ {x})
    OBVIOUS
  <2>2. Share(S) = A \cup B /\ A \cap B = {} /\ A \subseteq is
    BY <2>1 DEF Those
  <2>3. IsFiniteSet(A) /\ IsFiniteSet(B)
    BY <1>4, <2>1, <2>2, FS_Subset
  <2>4. Cardinality(A) \in Nat /\ Cardinality(B) \in Nat /\ Cardinality({}) = 0
    BY <2>3, FS_CardinalityType, FS_EmptySet
  <2>5. Cardinality(A \cup B) = Cardinality(A) + Cardinality(B) - Cardinality(A \cap B)
    BY <2>3, FS_Union
  <2>6. f[x] = Cardinality(A)
    BY <2>1
  <2>7. S \ {x} \in SUBSET D
    OBVIOUS
  <2>8. m[S] = Cardinality(A \cup B) /\ m[S \ {x}] = Cardinality(B)
    <3> HIDE DEF Share
    <3> QED BY <1>2, <2>1, <2>2, <2>7
  <2>9. PICK p \in Nat, q \in Nat : p = Cardinality(A) /\ q = Cardinality(B)
    BY <2>4
  <2>10. m[S] = p + q - 0
    BY <2>2, <2>4, <2>5, <2>8, <2>9, Zenon
  <2> QED BY <2>6, <2>8, <2>9, <2>10
<1>8. Additive(m, f, D)
  BY <1>5, <1>6, <1>7 DEF Additive
<1>9. m[D] = Cardinality(is)
  <2>1. Share(D) = is
    OBVIOUS
  <2> HIDE DEF Share
  <2> QED BY <1>2, <2>1
<1> QED BY <1>8, <1>9

LEMMA InstructionsTotal ==
  ASSUME NEW m, NEW D, D = DOMAIN functions, IsFiniteSet(D),
         Additive(m, [e \in D |-> functions[e].instructions], D)
  PROVE  Totals.instructions = m[D]
<1> DEFINE F == [e \in D |-> functions[e].instructions]
           Rec(g) == g = [S \in SUBSET D |-> IF S = {} THEN 0
                            ELSE functions[CHOOSE x \in S : TRUE].instructions
                                 + g[S \ {CHOOSE x \in S : TRUE}]]
<1>1. PICK g : g = CHOOSE h : Rec(h)
  OBVIOUS
<1>2. Totals.instructions = MapThenSumSet(LAMBDA e : functions[e].instructions, DOMAIN functions)
  BY DEF Totals
<1>3. Totals.instructions = g[D]
  BY <1>1, <1>2 DEF MapThenSumSet, MapThenFoldSet
<1>4. ASSUME NEW h
      PROVE  Rec(h) <=> FoldStep(h, F, D)
  <2>1. ASSUME NEW S \in SUBSET D
        PROVE  (IF S = {} THEN 0
                ELSE functions[CHOOSE x \in S : TRUE].instructions + h[S \ {CHOOSE x \in S : TRUE}])
               = (IF S = {} THEN 0
                  ELSE F[CHOOSE x \in S : TRUE] + h[S \ {CHOOSE x \in S : TRUE}])
    <3>1. CASE S # {}
      <4>1. PICK x : x = CHOOSE y \in S : TRUE
        OBVIOUS
      <4>2. x \in D
        BY <3>1, <4>1
      <4>3. F[x] = functions[x].instructions
        BY <4>2
      <4> HIDE DEF F
      <4> QED BY <4>1, <4>3, Zenon
    <3> QED BY <3>1
  <2> HIDE DEF F
  <2> QED BY <2>1, Zenon DEF FoldStep
<1>5. Rec(m)
  <2>1. FoldStep(m, F, D)
    BY MeasureFolds
  <2> HIDE DEF Rec, F
  <2> QED BY <1>4, <2>1
<1>6. Rec(g)
  <2> HIDE DEF Rec, F
  <2> QED BY <1>1, <1>5
<1>7. FoldStep(g, F, D)
  <2> HIDE DEF Rec, F
  <2> QED BY <1>4, <1>6
<1>8. g[D] = m[D]
  BY <1>7, FoldsAgree
<1> QED BY <1>3, <1>8

LEMMA CoveredTotal ==
  ASSUME NEW m, NEW D, D = DOMAIN functions, IsFiniteSet(D),
         Additive(m, [e \in D |-> functions[e].covered], D)
  PROVE  Totals.covered = m[D]
<1> DEFINE F == [e \in D |-> functions[e].covered]
           Rec(g) == g = [S \in SUBSET D |-> IF S = {} THEN 0
                            ELSE functions[CHOOSE x \in S : TRUE].covered
                                 + g[S \ {CHOOSE x \in S : TRUE}]]
<1>1. PICK g : g = CHOOSE h : Rec(h)
  OBVIOUS
<1>2. Totals.covered = MapThenSumSet(LAMBDA e : functions[e].covered, DOMAIN functions)
  BY DEF Totals
<1>3. Totals.covered = g[D]
  BY <1>1, <1>2 DEF MapThenSumSet, MapThenFoldSet
<1>4. ASSUME NEW h
      PROVE  Rec(h) <=> FoldStep(h, F, D)
  <2>1. ASSUME NEW S \in SUBSET D
        PROVE  (IF S = {} THEN 0
                ELSE functions[CHOOSE x \in S : TRUE].covered + h[S \ {CHOOSE x \in S : TRUE}])
               = (IF S = {} THEN 0
                  ELSE F[CHOOSE x \in S : TRUE] + h[S \ {CHOOSE x \in S : TRUE}])
    <3>1. CASE S # {}
      <4>1. PICK x : x = CHOOSE y \in S : TRUE
        OBVIOUS
      <4>2. x \in D
        BY <3>1, <4>1
      <4>3. F[x] = functions[x].covered
        BY <4>2
      <4> HIDE DEF F
      <4> QED BY <4>1, <4>3, Zenon
    <3> QED BY <3>1
  <2> HIDE DEF F
  <2> QED BY <2>1, Zenon DEF FoldStep
<1>5. Rec(m)
  <2>1. FoldStep(m, F, D)
    BY MeasureFolds
  <2> HIDE DEF Rec, F
  <2> QED BY <1>4, <2>1
<1>6. Rec(g)
  <2> HIDE DEF Rec, F
  <2> QED BY <1>1, <1>5
<1>7. FoldStep(g, F, D)
  <2> HIDE DEF Rec, F
  <2> QED BY <1>4, <1>6
<1>8. g[D] = m[D]
  BY <1>7, FoldsAgree
<1> QED BY <1>3, <1>8

LEMMA RowsAreRight ==
  ASSUME WalkInv, RowsInv, at = "built"
  PROVE  RowsMatchImage
<1>1. PICK is : is = Instructions
  OBVIOUS
<1>2. RowsOf(functions, lines, is)
  <2>1. PICK s0, h0 : s0 = walked.section /\ h0 = walked.halfword
    OBVIOUS
  <2>2. Met(s0, h0) = is
    BY <1>1, <2>1, AllMet DEF WalkInv, RowsInv
  <2> QED BY <2>1, <2>2 DEF RowsInv
<1>3. /\ IsFiniteSet(is) /\ is \subseteq CountRec
      /\ DOMAIN functions = {Entry(Containing(i.address)) : i \in is}
      /\ \A e \in DOMAIN functions : FunctionOf(functions[e], e, Those(is, e))
      /\ DOMAIN lines = LinesOf(is)
      /\ \A source \in DOMAIN lines : LineOfThem(lines[source], OnLine(is, source))
  BY <1>2 DEF RowsOf
<1>4. ASSUME NEW e \in DOMAIN functions
      PROVE  LET f == functions[e]
             IN  /\ f.instructions = Cardinality(Of(e))
                 /\ f.covered = Cardinality(Covered(Of(e)))
                 /\ f.executed = MapThenSumSet(LAMBDA i : i.count, Of(e))
                 /\ SrcLines(f) = Cardinality(LinesOf(Of(e)))
                 /\ SrcLinesCovered(f) = Cardinality(LinesOf(Covered(Of(e))))
                 /\ f.runCount = IF \E i \in Of(e) : i.address = e THEN Max({Lookup(e), 0}) ELSE 0
  <2>1. PICK T : T = Of(e)
    OBVIOUS
  <2>2. T = Those(is, e) /\ T \subseteq Instructions
    BY <1>1, <2>1 DEF Of, Those
  <2>3. PICK f : f = functions[e]
    OBVIOUS
  <2>4. FunctionOf(f, e, T)
    BY <1>3, <2>2, <2>3
  <2>5. /\ f.instructions = Cardinality(T)
        /\ f.covered = Cardinality(Covered(T))
        /\ f.executed = SumOver(T)
        /\ SrcLines(f) = Cardinality(LinesOf(T))
        /\ SrcLinesCovered(f) = Cardinality(LinesOf(Covered(T)))
        /\ \A i \in T : i.address = e => f.runCount = i.count
        /\ (\A i \in T : i.address # e) => f.runCount = 0
    BY <2>4, RowIsRight
  <2>6. f.executed = MapThenSumSet(LAMBDA i : i.count, Of(e))
    BY <2>1, <2>5 DEF SumOver
  <2>7. f.runCount = IF \E i \in T : i.address = e THEN Max({Lookup(e), 0}) ELSE 0
    <3>1. CASE \E i \in T : i.address = e
      <4>1. PICK i \in T : i.address = e
        BY <3>1
      <4>2. Max({Lookup(i.address), 0}) = i.count
        BY <2>2, LookupIs DEF WalkInv
      <4> QED BY <2>5, <3>1, <4>1, <4>2
    <3>2. CASE ~ \E i \in T : i.address = e
      BY <2>5, <3>2
    <3> QED BY <3>1, <3>2
  <2> QED BY <2>1, <2>3, <2>5, <2>6, <2>7, Zenon
<1>5. ASSUME NEW source \in DOMAIN lines
      PROVE  /\ lines[source].instructions = Cardinality(On(source))
             /\ lines[source].covered = Cardinality(Covered(On(source)))
             /\ \A i \in On(source) : i.count <= lines[source].runCount
             /\ \E i \in On(source) : i.count = lines[source].runCount
  <2>1. PICK T : T = On(source)
    OBVIOUS
  <2>2. T = OnLine(is, source) /\ T # {}
    BY <1>1, <1>3, <2>1 DEF On, OnLine, LinesOf
  <2>3. LineOfThem(lines[source], T)
    BY <1>3, <2>2
  <2> QED BY <2>1, <2>2, <2>3, Zenon DEF LineOfThem
<1>6. PICK D : D = DOMAIN functions
  OBVIOUS
<1>7. IsFiniteSet(D)
  <2>1. PICK k : k = [i \in is |-> Entry(Containing(i.address))]
    OBVIOUS
  <2>2. D = {k[i] : i \in is}
    BY <1>3, <1>6, <2>1
  <2>3. k \in Surjection(is, D)
    BY <2>1, <2>2 DEF Surjection
  <2> QED BY <1>3, <2>3, FS_Surjection
<1>8. Totals.instructions = Cardinality(Instructions)
  <2>1. PICK f : f = [e \in D |-> functions[e].instructions]
    OBVIOUS
  <2>2. \A e \in D : f[e] = Cardinality(Those(is, e))
    BY <1>3, <1>6, <2>1 DEF FunctionOf
  <2>3. \A i \in is : Entry(Containing(i.address)) \in D
    BY <1>3, <1>6
  <2>4. PICK m : Additive(m, f, D) /\ m[D] = Cardinality(is)
    BY <1>3, <1>7, <2>2, <2>3, SharesAddUp
  <2>5. Additive(m, [e \in D |-> functions[e].instructions], D)
    BY <2>1, <2>4
  <2>6. Totals.instructions = m[D]
    BY <1>6, <1>7, <2>5, InstructionsTotal
  <2> QED BY <1>1, <2>4, <2>6
<1>9. Totals.covered = Cardinality(Covered(Instructions))
  <2>1. PICK f : f = [e \in D |-> functions[e].covered]
    OBVIOUS
  <2>2. PICK C : C = Covered(is)
    OBVIOUS
  <2>3. ASSUME NEW e
        PROVE  Covered(Those(is, e)) = Those(C, e)
    BY <2>2 DEF Covered, Those
  <2>4. ASSUME NEW e \in D
        PROVE  f[e] = Cardinality(Those(C, e))
    <3>1. functions[e].covered = Cardinality(Covered(Those(is, e)))
      BY <1>3, <1>6 DEF FunctionOf
    <3> QED BY <2>1, <2>3, <3>1
  <2>5. C \subseteq is /\ IsFiniteSet(C)
    <3>1. C \subseteq is
      BY <2>2 DEF Covered
    <3> QED BY <1>3, <3>1, FS_Subset
  <2>6. \A i \in C : Entry(Containing(i.address)) \in D
    BY <1>3, <1>6, <2>5
  <2>7. PICK m : Additive(m, f, D) /\ m[D] = Cardinality(C)
    BY <1>7, <2>4, <2>5, <2>6, SharesAddUp
  <2>8. Additive(m, [e \in D |-> functions[e].covered], D)
    BY <2>1, <2>7
  <2>9. Totals.covered = m[D]
    BY <1>6, <1>7, <2>8, CoveredTotal
  <2> QED BY <1>1, <2>2, <2>7, <2>9
<1> QED BY <1>1, <1>3, <1>4, <1>5, <1>8, <1>9 DEF RowsMatchImage

-------------------------------------------------------------------------------
\* Whatever was asked before, by whomever and in whatever order, a coverage
\* report included, and for any number of slots: what a slot holds is what the
\* tables say of every address of its span (symbols.py:181-209,
\* elf.py:316-358).
THEOREM CachesTellTheTruth == CoverageSpec => []CachesHonest
<1>1. CoverageInv => CachesHonest
  BY CachesAreHonest
<1> QED BY <1>1, CoverageInvInit, CoverageInvNext, PTL DEF CoverageSpec

\* For every stream, of any length, and every set of tables: the runs divide it
\* without a gap or an overlap, and the row built from a run is the row that
\* its index gives, whatever was asked between two of them (rows.py:90-91).
THEOREM RunsDivideTheStream == CoverageSpec => []RunsExact
<1>1. CoverageInv => RunsExact
  BY RunsAreExact
<1> QED BY <1>1, CoverageInvInit, CoverageInvNext, PTL DEF CoverageSpec

\* For every set of tables and every list of sections that do not overlap,
\* whatever the caches held before: each row counts the instructions of its
\* function or line, each of them once, the totals count all of them, and the
\* run count of a function is what run_count_lookup says of its entry, for the
\* halfword without a count as well (coverage.py:151-228).
THEOREM RowsCountTheImage == CoverageSpec => []RowsMatchImage
<1>1. CoverageInit => CoverageInv /\ RowsInv
  BY CoverageInvInit, RowsInvInit
<1>2. CoverageInv /\ RowsInv /\ [CoverageNext]_coverageVars => (CoverageInv /\ RowsInv)'
  BY CoverageInvNext, RowsInvNext
<1>3. CoverageInv /\ RowsInv => RowsMatchImage
  BY RowsAreRight DEF CoverageInv, RowsMatchImage
<1> QED BY <1>1, <1>2, <1>3, PTL DEF CoverageSpec
===============================================================================
