------------------------------- MODULE Merkle -------------------------------
(***************************************************************************)
(* The RFC 6962 tree over the decision log: the gateway's provers (package *)
(* merkle) and the browser's verifiers (verify.ts).                        *)
(*                                                                         *)
(* Hashes are terms: a leaf and an interior node hash are different terms, *)
(* as the prefix bytes 0x00 and 0x01 make them, and equal terms come from  *)
(* equal inputs.  Every term is 32 bytes wide, so the width checks of the  *)
(* verifiers always pass and are left out.  A number is handled bitwise    *)
(* as the set of its bit positions; sizes stay below 2^30, where the       *)
(* verifier's 32-bit operators agree with the arithmetic.                  *)
(***************************************************************************)
EXTENDS Integers, Sequences, FiniteSetsExt

Hash(h)    == <<"leaf", h>>
Node(l, r) == <<"node", l, r>>
EmptyRoot  == <<"empty">>
NoHash     == <<"null">>          \* the verifier's null

\* 1 << i, in the verifier's width
Pow2[i \in 0..30] == IF i = 0 THEN 1 ELSE 2 * Pow2[i - 1]

Powers == {Pow2[i] : i \in 0..30}

\* The split point of a tree of n leaves: double from 1 until n is
\* reached, then halve.
SplitPoint(n) == Min({k \in Powers : k >= n}) \div 2

----------------------------------------------------------------------------
\* The provers, over the n leaves that follow the first lo.

Tree(leaves, from, size) ==
    LET mth[n \in 1..size] == [lo \in Nat |->
            IF n = 1 THEN Hash(leaves[lo + 1])
            ELSE LET k == SplitPoint(n)
                 IN Node(mth[k][lo], mth[n - k][lo + k])]
    IN IF size = 0 THEN EmptyRoot ELSE mth[size][from]

Root(leaves) == Tree(leaves, 0, Len(leaves))

InclusionProof(leaves, index) ==
    LET path[n \in 0..Len(leaves)] == [lo \in Nat |->
            IF n <= 1 THEN <<>>
            ELSE LET k == SplitPoint(n)
                 IN IF index - lo < k
                    THEN Append(path[k][lo], Tree(leaves, lo + k, n - k))
                    ELSE Append(path[n - k][lo + k], Tree(leaves, lo, k))]
    IN path[Len(leaves)][0]

\* The old tree covers m of the n leaves.  It was never entered on the
\* right as long as lo is 0: what it covers is the old tree itself, whose
\* root the verifier knows.
ConsistencyProof(leaves, old) ==
    LET sub[n \in 1..Len(leaves)] == [lo \in 0..(old - 1) |->
            LET m == old - lo
                k == SplitPoint(n)
            IN IF m < n
               THEN IF m <= k
                    THEN Append(sub[k][lo], Tree(leaves, lo + k, n - k))
                    ELSE Append(sub[n - k][lo + k], Tree(leaves, lo, k))
               ELSE IF lo = 0 THEN <<>> ELSE <<Tree(leaves, lo, n)>>]
    IN IF old \in 1..(Len(leaves) - 1) THEN sub[Len(leaves)][0] ELSE <<>>

----------------------------------------------------------------------------
\* The verifiers.

\* The root over n leaves of which the one at index m hashes to leaf, from
\* the first len siblings of an audit path; null if the path has not the
\* length such a tree needs.
ComputeRoot(leaf, index, size, path) ==
    LET up[n \in 1..size] == [len \in 0..Len(path) |-> [m \in Nat |->
            LET k     == SplitPoint(n)
                below == IF m < k THEN up[k][len - 1][m] ELSE up[n - k][len - 1][m - k]
            IN IF n = 1   THEN IF len = 0 THEN leaf ELSE NoHash
               ELSE IF len = 0 \/ below = NoHash THEN NoHash
               ELSE IF m < k THEN Node(below, path[len])
               ELSE Node(path[len], below)]]
    IN up[size][Len(path)][index]

VerifyInclusion(leaf, index, size, path, root) ==
    /\ index \in 0..(size - 1)
    /\ ComputeRoot(leaf, index, size, path) = root

BitsOf(x)        == {i \in 0..29 : (x \div Pow2[i]) % 2 = 1}
TrailingZeros(x) == IF x = 0 THEN 0 ELSE Min(BitsOf(x))
\* bitLen(x ^ y): the bits that differ, up to the highest
DifferingBits(x, y) ==
    LET differ == (BitsOf(x) \ BitsOf(y)) \union (BitsOf(y) \ BitsOf(x))
    IN IF differ = {} THEN 0 ELSE Max(differ) + 1
\* onesCount(x >>> n)
OnesAbove(x, n)  == Cardinality({i \in BitsOf(x) : i >= n})

\* Hash a seed up along the siblings that follow the first start ones of a
\* proof: those at lefts from the left, the others from the right.  Only
\* the new tree has siblings on the right.
Climb(seed, proof, start, lefts, newTree) ==
    LET up[i \in 0..(Len(proof) - start)] ==
            IF i = 0 THEN seed
            ELSE IF i \in lefts THEN Node(proof[start + i], up[i - 1])
            ELSE IF newTree     THEN Node(up[i - 1], proof[start + i])
            ELSE up[i - 1]
    IN up[Len(proof) - start]

VerifyConsistency(old, new, proof, rootOld, rootNew) ==
    LET shift  == TrailingZeros(old)
        top    == DifferingBits(old - 1, new - 1)
        inner  == top - shift
        border == OnesAbove(old - 1, top)
        known  == old = Pow2[shift]            \* a perfect subtree: rootOld itself
        start  == IF known THEN 0 ELSE 1
        seed   == IF known THEN rootOld ELSE proof[1]
        lefts  == {i \in 1..(inner + border) :   \* the bits of (old - 1) >>> shift
                      i > inner \/ i - 1 + shift \in BitsOf(old - 1)}
    IN /\ old \in 1..new
       /\ IF old = new
          THEN proof = <<>> /\ rootOld = rootNew
          ELSE /\ proof # <<>>
               /\ Len(proof) = start + inner + border
               /\ Climb(seed, proof, start, lefts, FALSE) = rootOld
               /\ Climb(seed, proof, start, lefts, TRUE) = rootNew
=============================================================================
