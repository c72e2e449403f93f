----------------------------- MODULE TableSizes -----------------------------
(***************************************************************************)
(* The sizes that a table may be asked for: one of three codes, which      *)
(* stand for a kind of segment and a number of buckets, or a number of     *)
(* buckets.  The codes are numbers, too.                                   *)
(***************************************************************************)
EXTENDS Naturals

CONSTANTS
  Kinds,       \* LK_SMALL_TABLESIZE, LK_MEDIUM_TABLESIZE, LK_LARGE_TABLESIZE
  Bits,        \* SEGBITS of each kind of segment
  Segments,    \* INITSIZE of each kind, in segments
  MaxDirSize

Small == 1
Medium == 2
Large == 3

SEGSIZE(kind) == 2 ^ Bits[kind]
INITSIZE(kind) == Segments[kind] * SEGSIZE(kind)
MaxInitSize == (MaxDirSize \div SEGSIZE(Large)) * INITSIZE(Large)

SizesAssumption ==
  /\ Kinds = {Small, Medium, Large}
  /\ Bits \in [Kinds -> Nat \ {0}] /\ Segments \in [Kinds -> Nat \ {0}]
  /\ \A k \in Kinds : Large < INITSIZE(k)
  /\ MaxDirSize \in Nat

\* An explicit size is forced between the smallest and the largest.
Forced(size) ==
  LET atLeast == IF size < INITSIZE(Small) THEN INITSIZE(Small) ELSE size
  IN  IF atLeast > MaxInitSize THEN MaxInitSize ELSE atLeast

Kind(size) ==
  CASE size \in Kinds -> size
    [] size \notin Kinds /\ Forced(size) <= 8 * INITSIZE(Small) -> Small
    [] size \notin Kinds /\ Forced(size) >= INITSIZE(Large) -> Large
    [] OTHER -> Medium

InitialBucketsFor(size) == IF size \in Kinds THEN INITSIZE(size) ELSE Forced(size)
=============================================================================
