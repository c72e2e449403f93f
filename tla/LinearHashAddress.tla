------------------------- MODULE LinearHashAddress -------------------------
(***************************************************************************)
(* The address arithmetic of CLKRLinearHashTable.  A mask is always        *)
(* 2^n - 1, so "signature & mask" is the remainder modulo mask + 1, and    *)
(* "(mask << 1) | 1" is 2 * mask + 1.                                      *)
(***************************************************************************)
EXTENDS Naturals

H0(sig, mask) == sig % (mask + 1)

\* Preserves one bit more than H0.
H1(sig, mask) == H0(sig, 2 * mask + 1)

\* The bucket of a signature: those below iExpansionIdx are already split.
BucketAddress(sig, mask0, iExpansionIdx) ==
  IF H0(sig, mask0) < iExpansionIdx THEN H1(sig, mask0) ELSE H0(sig, mask0)

SegmentOf(addr, segBits) == addr \div 2 ^ segBits

(***************************************************************************)
(* What _SetSegVars computes for a table of c buckets in segments of       *)
(* 2^segBits: the level (c is at least one segment, and is halved until    *)
(* one segment is left), the expansion index, the directory size (the      *)
(* smallest doubling of minDir that is at least c >> segBits) and the      *)
(* number of segments.                                                     *)
(***************************************************************************)
InitialLevel(c, segBits, maxLevel) ==
  CHOOSE l \in segBits .. maxLevel : 2 ^ l <= c /\ c < 2 ^ (l + 1)

InitialExpansionIdx(c, level) == H0(c, 2 ^ level - 1)

InitialDirSize(c, segBits, minDir, maxLevel) ==
  LET fits(n) == minDir * 2 ^ n >= c \div 2 ^ segBits
  IN  minDir * 2 ^ (CHOOSE n \in 0 .. maxLevel :
                      fits(n) /\ \A k \in 0 .. n - 1 : ~fits(k))

InitialSegments(c, segBits) == (c + 2 ^ segBits - 1) \div 2 ^ segBits
=============================================================================
