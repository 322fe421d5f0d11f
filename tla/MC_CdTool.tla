----------------------------- MODULE MC_CdTool -----------------------------
(* Instances of CdTool for TLC: a stick of 7 sectors of 2 bytes, CD blocks *)
(* of 2 sectors, sector counts of 4 bits and byte counts of 7 bits.        *)
EXTENDS CdTool, TLC

CONSTANTS p1, p2

Even == [n \in Sectors |-> n - (n % 2)]

NextEven == [n \in Sectors |-> IF n + (n % 2) < Word THEN n + (n % 2) ELSE n]

(* An odd number of bytes, more than the stick, more than a uint32_t of    *)
(* sectors, and what "-1" becomes: no CD.                                  *)
SomeRequests == {3, 13, 33, 127}

(* Empty, one short block, whole blocks, a short last block, too large.    *)
SomeFiles == {0, 3, 8, 9, 13}

ProcSymmetry == Permutations(Procs)
=============================================================================
