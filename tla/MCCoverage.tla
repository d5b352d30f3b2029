------------------------------- MODULE MCCoverage -------------------------------
(***************************************************************************)
(* Coverage for TLC: tables in which functions overlap, share an entry,    *)
(* have no size or an odd one, rows share an address, a line or a line     *)
(* number, and sequences end between them; code with 32-bit instructions,  *)
(* one of them cut off by the end of its section.                          *)
(***************************************************************************)
EXTENDS Coverage

Fn(v, n) == [value |-> v, size |-> n, function |-> TRUE]
Row(a, f, l) == [address |-> a, file |-> f, line |-> l]

MCSymbols ==
  {<<>>,
   <<Fn(7, 0), Fn(3, 6), Fn(0, 4)>>,
   <<Fn(3, 3), Fn(9, 2)>>,
   <<Fn(2, 0), [value |-> 4, size |-> 2, function |-> FALSE], Fn(3, 4), Fn(2, 4), Fn(7, 2)>>}

MCRows ==
  {<<>>,
   <<Row(2, 1, 1), Row(4, 2, 1), Row(6, 0, 0), Row(6, 1, 2), Row(10, 0, 0)>>,
   <<Row(0, 1, 1), Row(4, 1, 1), Row(8, 0, 0)>>,
   <<Row(4, 1, 1), Row(4, 1, 2), Row(9, 0, 0)>>}

MCImages == [symbols : MCSymbols, rows : MCRows]

MCListings ==
  {<<[base |-> 2, wide |-> <<FALSE, TRUE, FALSE, FALSE>>, counts |-> <<1, 2, 0, 3>>]>>,
   <<[base |-> 0, wide |-> <<TRUE, FALSE, FALSE>>, counts |-> <<1>>],
     [base |-> 6, wide |-> <<FALSE, TRUE, TRUE>>, counts |-> <<0, 3, 0>>]>>,
   <<[base |-> 4, wide |-> <<FALSE, FALSE, FALSE>>, counts |-> <<0, 1, 2>>]>>}
===============================================================================
