----------------------------- MODULE MCLineProgram -----------------------------
(***************************************************************************)
(* LineProgram for TLC: a DWARF 4 header of a machine with two operations  *)
(* in an instruction, and a DWARF 5 header whose line_range is 0.          *)
(***************************************************************************)
EXTENDS LineProgram

MCHeaders ==
  {[minInst |-> 2, maxOps |-> 2, lineBase |-> 0, lineRange |-> 2,
    opcodeBase |-> 253, firstFile |-> 1, files |-> 2],
   [minInst |-> 1, maxOps |-> 1, lineBase |-> -1, lineRange |-> 0,
    opcodeBase |-> 253, firstFile |-> 0, files |-> 2]}
===============================================================================
