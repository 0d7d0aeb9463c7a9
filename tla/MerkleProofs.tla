---------------------------- MODULE MerkleProofs -----------------------------
(***************************************************************************)
(* Theorems about Merkle, for every log of up to 2^30 rows: a root commits *)
(* to its leaves, the browser's verifiers accept what the gateway's        *)
(* provers make, and accept nothing that is not so.                        *)
(***************************************************************************)
EXTENDS Merkle, FiniteSetTheorems, WellFoundedInduction, TLAPS

MaxSize == Pow2[30]

----------------------------------------------------------------------------
\* Induction on the natural numbers, with a set in the place of the
\* induction predicate.

LEMMA LeastElement ==
    ASSUME NEW S, S \subseteq Nat, S # {}
    PROVE  \E x \in S : \A y \in S : x <= y
<1>1. \E x \in S : \A y \in S : ~(<<y, x>> \in OpToRel(<, Nat))
  BY NatLessThanWellFounded, WFMin, Zenon
<1>2. PICK x \in S : \A y \in S : ~(<<y, x>> \in OpToRel(<, Nat))
  BY <1>1
<1>3. \A y \in S : ~(y < x)
  BY <1>2 DEF OpToRel
<1> QED
  BY <1>3

LEMMA StrongInduction ==
    ASSUME NEW T, \A n \in Nat : (\A m \in 0..(n-1) : m \in T) => n \in T
    PROVE  \A n \in Nat : n \in T
<1> DEFINE Bad == Nat \ T
<1>1. SUFFICES ASSUME Bad # {} PROVE FALSE
  OBVIOUS
<1>2. PICK x \in Bad : \A y \in Bad : x <= y
  BY <1>1, LeastElement
<1>3. \A m \in 0..(x-1) : m \in T
  BY <1>2
<1> QED
  BY <1>2, <1>3

LEMMA SimpleInduction ==
    ASSUME NEW T, 0 \in T, \A n \in Nat : n \in T => n + 1 \in T
    PROVE  \A n \in Nat : n \in T
<1>1. \A n \in Nat : (\A m \in 0..(n-1) : m \in T) => n \in T
  <2> SUFFICES ASSUME NEW n \in Nat, \A m \in 0..(n-1) : m \in T PROVE n \in T
    OBVIOUS
  <2>1. CASE n = 0
    BY <2>1
  <2>2. CASE n # 0
    <3>1. n - 1 \in Nat /\ n - 1 \in T /\ n = (n - 1) + 1
      BY <2>2
    <3> QED
      BY <3>1
  <2> QED
    BY <2>1, <2>2
<1> QED
  BY <1>1, StrongInduction

LEMMA MinFact ==
    ASSUME NEW S, S \subseteq Nat, S # {}
    PROVE  Min(S) \in S /\ \A y \in S : Min(S) <= y
<1>1. \E x \in S : \A y \in S : x <= y
  BY LeastElement
<1> QED
  BY <1>1, Zenon DEF Min

\* A set of numbers below a bound has a greatest element.
LEMMA MaxFact ==
    ASSUME NEW S, S \subseteq Nat, S # {}, NEW b \in Nat, \A y \in S : y <= b
    PROVE  Max(S) \in S /\ \A y \in S : Max(S) >= y
<1> DEFINE U == {c \in Nat : \A y \in S : y <= c}
<1>1. PICK c \in U : \A d \in U : c <= d
  BY LeastElement
<1>2. c \in S
  <2> SUFFICES ASSUME c \notin S PROVE FALSE
    OBVIOUS
  <2>1. \A y \in S : y <= c - 1
    BY <1>1
  <2>2. c # 0
    <3>1. PICK y \in S : TRUE
      OBVIOUS
    <3> QED
      BY <2>1, <3>1
  <2> QED
    BY <1>1, <2>1, <2>2
<1>3. \E x \in S : \A y \in S : x >= y
  BY <1>1, <1>2
<1> QED
  BY <1>3, Zenon DEF Max

----------------------------------------------------------------------------
\* Powers of two.

\* A recursive function on 0..n is built step by step.
LEMMA Pow2Exists ==
    \E f : f = [i \in 0..30 |-> IF i = 0 THEN 1 ELSE 2 * f[i - 1]]
<1> DEFINE Is(g, n) == g = [i \in 0..n |-> IF i = 0 THEN 1 ELSE 2 * g[i - 1]]
           T == {n \in Nat : \E g : Is(g, n)}
<1>1. 0 \in T
  <2>1. Is([i \in 0..0 |-> 1], 0)
    OBVIOUS
  <2> QED
    BY <2>1
<1>2. ASSUME NEW n \in Nat, n \in T PROVE n + 1 \in T
  <2>1. PICK g : Is(g, n)
    BY <1>2
  <2> DEFINE h == [i \in 0..(n+1) |-> IF i = n + 1 THEN 2 * g[n] ELSE g[i]]
  <2>2. ASSUME NEW i \in 0..(n+1)
        PROVE  h[i] = IF i = 0 THEN 1 ELSE 2 * h[i - 1]
    BY <2>1
  <2>3. Is(h, n + 1)
    BY <2>2
  <2> HIDE DEF Is, h
  <2> QED
    BY <2>3
<1>3. \A n \in Nat : n \in T
  <2> HIDE DEF T
  <2> QED
    BY <1>1, <1>2, SimpleInduction
<1>4. PICK f : Is(f, 30)
  BY <1>3
<1> QED
  BY <1>4

LEMMA Pow2Def == \A i \in 0..30 : Pow2[i] = IF i = 0 THEN 1 ELSE 2 * Pow2[i - 1]
<1>1. Pow2 = [i \in 0..30 |-> IF i = 0 THEN 1 ELSE 2 * Pow2[i - 1]]
  BY Pow2Exists, Zenon DEF Pow2
<1> QED
  BY <1>1

LEMMA Pow2Type == \A i \in 0..30 : Pow2[i] \in Nat \ {0}
<1> DEFINE T == {i \in Nat : i <= 30 => Pow2[i] \in Nat \ {0}}
<1>1. 0 \in T
  BY Pow2Def
<1>2. ASSUME NEW n \in Nat, n \in T PROVE n + 1 \in T
  <2> SUFFICES ASSUME n + 1 <= 30 PROVE Pow2[n + 1] \in Nat \ {0}
    OBVIOUS
  <2>1. Pow2[n] \in Nat \ {0} /\ Pow2[n + 1] = 2 * Pow2[n]
    BY <1>2, Pow2Def
  <2> QED
    BY <2>1
<1>3. \A n \in Nat : n \in T
  <2> HIDE DEF T
  <2> QED
    BY <1>1, <1>2, SimpleInduction
<1> QED
  BY <1>3

\* The lower of two powers divides the other, evenly.
LEMMA Pow2Divides ==
    ASSUME NEW a \in 0..30, NEW b \in 0..30, a < b
    PROVE  \E q \in Nat \ {0} : Pow2[b] = Pow2[a] * (2 * q)
<1> DEFINE T == {d \in Nat : a + d + 1 <= 30 =>
                    \E q \in Nat \ {0} : Pow2[a + d + 1] = Pow2[a] * (2 * q)}
<1>1. 0 \in T
  <2>1. a + 1 <= 30 => Pow2[a + 1] = Pow2[a] * (2 * 1)
    BY Pow2Def, Pow2Type
  <2> QED
    BY <2>1
<1>2. ASSUME NEW d \in Nat, d \in T PROVE d + 1 \in T
  <2> SUFFICES ASSUME a + d + 2 <= 30
               PROVE  \E q \in Nat \ {0} : Pow2[a + d + 2] = Pow2[a] * (2 * q)
    OBVIOUS
  <2>1. PICK q \in Nat \ {0} : Pow2[a + d + 1] = Pow2[a] * (2 * q)
    BY <1>2
  <2>2. Pow2[a + d + 2] = 2 * Pow2[a + d + 1]
    BY Pow2Def
  <2>3. Pow2[a + d + 2] = Pow2[a] * (2 * (2 * q))
    BY <2>1, <2>2, Pow2Type
  <2> QED
    BY <2>3
<1>3. \A n \in Nat : n \in T
  <2> HIDE DEF T
  <2> QED
    BY <1>1, <1>2, SimpleInduction
<1>4. b - a - 1 \in Nat /\ a + (b - a - 1) + 1 = b
  OBVIOUS
<1>5. b - a - 1 \in T
  BY <1>3, <1>4
<1> QED
  BY <1>4, <1>5

LEMMA Pow2Monotone ==
    \A a, b \in 0..30 : a < b => 2 * Pow2[a] <= Pow2[b]
<1> SUFFICES ASSUME NEW a \in 0..30, NEW b \in 0..30, a < b
             PROVE  2 * Pow2[a] <= Pow2[b]
  OBVIOUS
<1>1. PICK q \in Nat \ {0} : Pow2[b] = Pow2[a] * (2 * q)
  BY Pow2Divides
<1> DEFINE p == Pow2[a]
<1>2. p \in Nat
  BY Pow2Type
<1> HIDE DEF p
<1>3. \A r \in Nat \ {0} : 2 * p <= p * (2 * r)
  BY <1>2
<1> QED
  BY <1>1, <1>3 DEF p

LEMMA Pow2Injective ==
    \A a, b \in 0..30 : Pow2[a] = Pow2[b] => a = b
<1>1. ASSUME NEW a \in 0..30, NEW b \in 0..30, a < b
      PROVE  Pow2[a] # Pow2[b]
  <2> DEFINE p == Pow2[a]
             q == Pow2[b]
  <2>1. p \in Nat \ {0} /\ q \in Nat \ {0}
    BY Pow2Type
  <2>2. 2 * p <= q
    BY <1>1, Pow2Monotone
  <2> HIDE DEF p, q
  <2>3. p # q
    BY <2>1, <2>2
  <2> QED
    BY <2>3 DEF p, q
<1>2. \A a, b \in 0..30 : a = b \/ a < b \/ b < a
  OBVIOUS
<1> QED
  BY <1>1, <1>2

----------------------------------------------------------------------------
\* The split point.

IsPower(x) == \E b \in 0..30 : x = Pow2[b]

LEMMA MaxSizeType == MaxSize \in Nat
BY Pow2Type DEF MaxSize

\* It is the power of two with k < n <= 2k.
LEMMA SplitPower ==
    ASSUME NEW n \in 2..MaxSize
    PROVE  \E b \in 0..29 : /\ SplitPoint(n) = Pow2[b]
                            /\ Pow2[b] < n /\ n <= 2 * Pow2[b]
<1> DEFINE J == {k \in Powers : k >= n}
<1>1. J \subseteq Nat /\ Pow2[30] \in J
  BY Pow2Type, MaxSizeType DEF MaxSize, Powers
<1>2. Min(J) \in J /\ \A k \in J : Min(J) <= k
  BY <1>1, MinFact
<1>3. PICK i \in 0..30 : Min(J) = Pow2[i]
  BY <1>2 DEF Powers
<1>4. i # 0
  BY <1>2, <1>3, Pow2Def
<1>5. i - 1 \in 0..29 /\ Pow2[i] = 2 * Pow2[i - 1]
  BY <1>4, Pow2Def
<1>6. Pow2[i - 1] \in Nat \ {0} /\ Pow2[i] \div 2 = Pow2[i - 1]
  BY <1>5, Pow2Type
<1>7. Pow2[i - 1] \notin J
  <2>1. \A k \in J : Pow2[i] <= k
    BY <1>2, <1>3
  <2> HIDE DEF J
  <2> QED
    BY <1>5, <1>6, <2>1
<1>8. Pow2[i - 1] < n
  BY <1>5, <1>6, <1>7 DEF Powers
<1>9. SplitPoint(n) = Min(J) \div 2
  BY DEF SplitPoint
<1>10. Pow2[i] >= n
  BY <1>2, <1>3
<1> HIDE DEF J
<1> QED
  BY <1>3, <1>5, <1>6, <1>8, <1>9, <1>10

LEMMA SplitUnique ==
    ASSUME NEW n \in 2..MaxSize, NEW b \in 0..29, Pow2[b] < n, n <= 2 * Pow2[b]
    PROVE  SplitPoint(n) = Pow2[b]
<1>1. PICK c \in 0..29 : SplitPoint(n) = Pow2[c] /\ Pow2[c] < n /\ n <= 2 * Pow2[c]
  BY SplitPower
<1>2. ~(b < c) /\ ~(c < b)
  BY <1>1, Pow2Monotone, Pow2Type
<1> QED
  BY <1>1, <1>2

LEMMA SplitInside ==
    ASSUME NEW n \in 2..MaxSize
    PROVE  SplitPoint(n) \in 1..(n - 1)
BY SplitPower, Pow2Type, MaxSizeType DEF MaxSize

----------------------------------------------------------------------------
\* The tree.

TreeStep(leaves, g, n, lo) ==
    IF n = 1 THEN Hash(leaves[lo + 1])
    ELSE LET k == SplitPoint(n)
         IN Node(g[k][lo], g[n - k][lo + k])

LEMMA TreeExists ==
    ASSUME NEW leaves, NEW size \in 0..MaxSize
    PROVE  \E g : g = [n \in 1..size |-> [lo \in Nat |-> TreeStep(leaves, g, n, lo)]]
<1> DEFINE Is(g, s) == g = [n \in 1..s |-> [lo \in Nat |-> TreeStep(leaves, g, n, lo)]]
           T == {s \in Nat : s <= MaxSize => \E g : Is(g, s)}
<1>1. 0 \in T
  <2>1. Is([n \in 1..0 |-> [lo \in Nat |-> 0]], 0)
    OBVIOUS
  <2> QED
    BY <2>1
<1>2. ASSUME NEW s \in Nat, s \in T PROVE s + 1 \in T
  <2> SUFFICES ASSUME s + 1 <= MaxSize PROVE \E g : Is(g, s + 1)
    OBVIOUS
  <2>1. PICK g : Is(g, s)
    BY <1>2, MaxSizeType
  <2> DEFINE h == [n \in 1..(s + 1) |-> IF n = s + 1
                      THEN [lo \in Nat |-> TreeStep(leaves, g, s + 1, lo)] ELSE g[n]]
  <2>2. ASSUME NEW n \in 1..(s + 1), NEW lo \in Nat
        PROVE  TreeStep(leaves, h, n, lo) = TreeStep(leaves, g, n, lo)
    <3>1. CASE n = 1
      BY <3>1 DEF TreeStep
    <3>2. CASE n # 1
      <4> DEFINE k == SplitPoint(n)
      <4>1. k \in 1..(n - 1) /\ n - k \in 1..(n - 1)
        BY <3>2, SplitInside, MaxSizeType
      <4> HIDE DEF k
      <4>2. h[k] = g[k] /\ h[n - k] = g[n - k]
        BY <4>1
      <4> HIDE DEF h
      <4> QED
        BY <3>2, <4>2 DEF TreeStep, k
    <3> QED
      BY <3>1, <3>2
  <2>3. ASSUME NEW n \in 1..(s + 1)
        PROVE  h[n] = [lo \in Nat |-> TreeStep(leaves, h, n, lo)]
    <3>1. h[n] = [lo \in Nat |-> TreeStep(leaves, g, n, lo)]
      BY <2>1
    <3> HIDE DEF h
    <3> QED
      BY <2>2, <3>1
  <2>4. h = [n \in 1..(s + 1) |-> h[n]]
    OBVIOUS
  <2>5. Is(h, s + 1)
    <3> HIDE DEF h
    <3> QED
      BY <2>3, <2>4
  <2> HIDE DEF Is, h
  <2> QED
    BY <2>5
<1>3. size \in T
  <2> HIDE DEF T
  <2> QED
    BY <1>1, <1>2, SimpleInduction
<1> QED
  BY <1>3, MaxSizeType

\* The function of which Tree is an application.
Mth(leaves, size) ==
    CHOOSE g : g = [n \in 1..size |-> [lo \in Nat |-> TreeStep(leaves, g, n, lo)]]

LEMMA MthIs ==
    ASSUME NEW leaves, NEW size \in 0..MaxSize
    PROVE  \A n \in 1..size : \A lo \in Nat :
              Mth(leaves, size)[n][lo] = TreeStep(leaves, Mth(leaves, size), n, lo)
<1> DEFINE Is(g) == g = [n \in 1..size |-> [lo \in Nat |-> TreeStep(leaves, g, n, lo)]]
<1>1. Is(Mth(leaves, size))
  BY TreeExists, Zenon DEF Mth
<1> DEFINE f == Mth(leaves, size)
<1>2. f = [n \in 1..size |-> [lo \in Nat |-> TreeStep(leaves, f, n, lo)]]
  BY <1>1
<1> HIDE DEF f
<1>3. \A n \in 1..size : \A lo \in Nat : f[n][lo] = TreeStep(leaves, f, n, lo)
  <2> SUFFICES ASSUME NEW n \in 1..size, NEW lo \in Nat
               PROVE  f[n][lo] = TreeStep(leaves, f, n, lo)
    OBVIOUS
  <2>1. f[n] = [l \in Nat |-> TreeStep(leaves, f, n, l)]
    BY <1>2
  <2> QED
    BY <2>1
<1> QED
  BY <1>3 DEF f

LEMMA TreeIsMth ==
    ASSUME NEW leaves, NEW size \in Nat \ {0}, NEW from
    PROVE  Tree(leaves, from, size) = Mth(leaves, size)[size][from]
BY DEF Tree, Mth, TreeStep

LEMMA MthAgree ==
    ASSUME NEW leaves, NEW a \in 0..MaxSize, NEW b \in 0..MaxSize
    PROVE  \A n \in 1..a : n <= b =>
              \A lo \in Nat : Mth(leaves, a)[n][lo] = Mth(leaves, b)[n][lo]
<1> DEFINE f == Mth(leaves, a)
           g == Mth(leaves, b)
           T == {n \in Nat : n \in 1..a /\ n <= b => \A lo \in Nat : f[n][lo] = g[n][lo]}
<1>0. /\ \A n \in 1..a : \A lo \in Nat : f[n][lo] = TreeStep(leaves, f, n, lo)
      /\ \A n \in 1..b : \A lo \in Nat : g[n][lo] = TreeStep(leaves, g, n, lo)
  BY MthIs
<1> HIDE DEF f, g
<1>1. ASSUME NEW n \in Nat, \A i \in 0..(n - 1) : i \in T PROVE n \in T
  <2> SUFFICES ASSUME n \in 1..a, n <= b, NEW lo \in Nat PROVE f[n][lo] = g[n][lo]
    OBVIOUS
  <2>1. CASE n = 1
    BY <1>0, <2>1 DEF TreeStep
  <2>2. CASE n # 1
    <3> DEFINE k == SplitPoint(n)
    <3>1. k \in 1..(n - 1)
      BY <2>2, SplitInside, MaxSizeType
    <3>2. k \in T /\ n - k \in T
      BY <1>1, <3>1
    <3>3. f[k][lo] = g[k][lo] /\ f[n - k][lo + k] = g[n - k][lo + k]
      BY <3>1, <3>2
    <3> HIDE DEF k, T
    <3>4. f[n][lo] = Node(f[k][lo], f[n - k][lo + k])
      BY <1>0, <2>2 DEF TreeStep, k
    <3>5. g[n][lo] = Node(g[k][lo], g[n - k][lo + k])
      BY <1>0, <2>2 DEF TreeStep, k
    <3> QED
      BY <3>3, <3>4, <3>5
  <2> QED
    BY <2>1, <2>2
<1>2. \A n \in Nat : n \in T
  <2> HIDE DEF T
  <2> QED
    BY <1>1, StrongInduction
<1> QED
  BY <1>2 DEF f, g

\* The equations of the tree hash.
LEMMA TreeLeaf ==
    ASSUME NEW leaves, NEW lo \in Nat
    PROVE  Tree(leaves, lo, 1) = Hash(leaves[lo + 1])
<1>1. 1 \in 0..MaxSize
  BY MaxSizeType, Pow2Type DEF MaxSize
<1>2. Mth(leaves, 1)[1][lo] = TreeStep(leaves, Mth(leaves, 1), 1, lo)
  BY <1>1, MthIs
<1>3. TreeStep(leaves, Mth(leaves, 1), 1, lo) = Hash(leaves[lo + 1])
  BY DEF TreeStep
<1> QED
  BY <1>2, <1>3, TreeIsMth

LEMMA TreeNode ==
    ASSUME NEW leaves, NEW lo \in Nat, NEW n \in 2..MaxSize
    PROVE  LET k == SplitPoint(n)
           IN  Tree(leaves, lo, n) = Node(Tree(leaves, lo, k), Tree(leaves, lo + k, n - k))
<1> DEFINE k == SplitPoint(n)
<1>1. k \in 1..(n - 1) /\ n - k \in 1..(n - 1) /\ n \in 0..MaxSize
  BY SplitInside, MaxSizeType
<1>2. Mth(leaves, n)[n][lo] = Node(Mth(leaves, n)[k][lo], Mth(leaves, n)[n - k][lo + k])
  BY MthIs DEF TreeStep
<1> HIDE DEF k
<1>3. /\ Mth(leaves, n)[k][lo] = Mth(leaves, k)[k][lo]
      /\ Mth(leaves, n)[n - k][lo + k] = Mth(leaves, n - k)[n - k][lo + k]
  BY <1>1, MthAgree, MaxSizeType
<1>4. /\ Tree(leaves, lo, n) = Mth(leaves, n)[n][lo]
      /\ Tree(leaves, lo, k) = Mth(leaves, k)[k][lo]
      /\ Tree(leaves, lo + k, n - k) = Mth(leaves, n - k)[n - k][lo + k]
  BY <1>1, TreeIsMth
<1> QED
  BY <1>2, <1>3, <1>4 DEF k

LEMMA TreeIsHash ==
    ASSUME NEW leaves, NEW lo \in Nat, NEW n \in 1..MaxSize
    PROVE  /\ Tree(leaves, lo, n) # NoHash
           /\ Tree(leaves, lo, n) # EmptyRoot
<1>1. CASE n = 1
  BY <1>1, TreeLeaf DEF Hash, NoHash, EmptyRoot
<1>2. CASE n # 1
  BY <1>2, TreeNode, MaxSizeType DEF Node, NoHash, EmptyRoot
<1> QED
  BY <1>1, <1>2

\* Hashes are terms: equal ones are made of the same.
LEMMA NodeInjective ==
    ASSUME NEW a, NEW b, NEW c, NEW d, Node(a, b) = Node(c, d)
    PROVE  a = c /\ b = d
<1>1. Node(a, b)[2] = a /\ Node(a, b)[3] = b /\ Node(c, d)[2] = c /\ Node(c, d)[3] = d
  BY DEF Node
<1> QED
  BY <1>1

LEMMA HashInjective ==
    ASSUME NEW a, NEW b, Hash(a) = Hash(b)
    PROVE  a = b
<1>1. Hash(a)[2] = a /\ Hash(b)[2] = b
  BY DEF Hash
<1> QED
  BY <1>1

\* A root (merkle.go, Root) commits to the leaves, and to nothing else: two
\* trees of one size have one root exactly if they have the same leaves.
THEOREM TreeCommits ==
    ASSUME NEW A, NEW B
    PROVE  \A n \in 1..MaxSize : \A lo \in Nat :
              Tree(A, lo, n) = Tree(B, lo, n) <=> \A i \in 1..n : A[lo + i] = B[lo + i]
<1> DEFINE Same(lo, n) == \A i \in 1..n : A[lo + i] = B[lo + i]
           T == {n \in Nat : n \in 1..MaxSize =>
                    \A lo \in Nat : Tree(A, lo, n) = Tree(B, lo, n) <=> Same(lo, n)}
<1>1. ASSUME NEW n \in Nat, \A i \in 0..(n - 1) : i \in T PROVE n \in T
  <2> SUFFICES ASSUME n \in 1..MaxSize, NEW lo \in Nat
               PROVE  Tree(A, lo, n) = Tree(B, lo, n) <=> Same(lo, n)
    OBVIOUS
  <2>1. CASE n = 1
    <3>1. Same(lo, 1) <=> A[lo + 1] = B[lo + 1]
      OBVIOUS
    <3> QED
      BY <2>1, <3>1, TreeLeaf, HashInjective
  <2>2. CASE n # 1
    <3> DEFINE k == SplitPoint(n)
    <3>1. k \in 1..(n - 1) /\ n - k \in 1..(n - 1) /\ n \in 2..MaxSize
      BY <2>2, SplitInside, MaxSizeType
    <3>2. k \in T /\ n - k \in T
      <4> HIDE DEF T
      <4> QED
        BY <1>1, <3>1
    <3>3. /\ Tree(A, lo, n) = Node(Tree(A, lo, k), Tree(A, lo + k, n - k))
          /\ Tree(B, lo, n) = Node(Tree(B, lo, k), Tree(B, lo + k, n - k))
      BY <3>1, TreeNode
    <3> HIDE DEF k
    <3>4. /\ Tree(A, lo, k) = Tree(B, lo, k) <=> Same(lo, k)
          /\ Tree(A, lo + k, n - k) = Tree(B, lo + k, n - k) <=> Same(lo + k, n - k)
      <4> HIDE DEF Same
      <4>1. k \in 1..MaxSize /\ n - k \in 1..MaxSize /\ lo + k \in Nat
        BY <3>1, MaxSizeType
      <4> QED
        BY <3>2, <4>1
    <3>5. Same(lo, n) <=> Same(lo, k) /\ Same(lo + k, n - k)
      <4>1. ASSUME Same(lo, k), Same(lo + k, n - k), NEW i \in 1..n
            PROVE  A[lo + i] = B[lo + i]
        <5>1. CASE i <= k
          BY <3>1, <4>1, <5>1
        <5>2. CASE ~(i <= k)
          <6>1. i - k \in 1..(n - k) /\ lo + k + (i - k) = lo + i
            BY <3>1, <5>2
          <6> QED
            BY <4>1, <6>1
        <5> QED
          BY <5>1, <5>2
      <4>2. ASSUME Same(lo, n), NEW i \in 1..(n - k)
            PROVE  A[lo + k + i] = B[lo + k + i]
        <5>1. i + k \in 1..n /\ lo + (i + k) = lo + k + i
          BY <3>1
        <5> QED
          BY <4>2, <5>1
      <4> QED
        BY <3>1, <4>1, <4>2
    <3> HIDE DEF Same
    <3> QED
      BY <3>3, <3>4, <3>5, NodeInjective
  <2> QED
    BY <2>1, <2>2
<1>2. \A n \in Nat : n \in T
  <2> HIDE DEF T
  <2> QED
    BY <1>1, StrongInduction
<1> QED
  BY <1>2, MaxSizeType

----------------------------------------------------------------------------
\* The audit path.

PathStep(leaves, index, g, n, lo) ==
    IF n <= 1 THEN <<>>
    ELSE LET k == SplitPoint(n)
         IN IF index - lo < k
            THEN Append(g[k][lo], Tree(leaves, lo + k, n - k))
            ELSE Append(g[n - k][lo + k], Tree(leaves, lo, k))

IsPath(leaves, index, g, s) ==
    g = [n \in 0..s |-> [lo \in Nat |-> PathStep(leaves, index, g, n, lo)]]

Path(leaves, index) == CHOOSE g : IsPath(leaves, index, g, Len(leaves))

LEMMA PathExists ==
    ASSUME NEW leaves, NEW index, NEW size \in 0..MaxSize
    PROVE  \E g : IsPath(leaves, index, g, size)
<1> DEFINE Is(g, s) == IsPath(leaves, index, g, s)
           T == {s \in Nat : s <= MaxSize => \E g : Is(g, s)}
<1>1. 0 \in T
  <2>1. Is([n \in 0..0 |-> [lo \in Nat |-> <<>>]], 0)
    BY DEF IsPath, PathStep
  <2> QED
    BY <2>1
<1>2. ASSUME NEW s \in Nat, s \in T PROVE s + 1 \in T
  <2> SUFFICES ASSUME s + 1 <= MaxSize PROVE \E g : Is(g, s + 1)
    OBVIOUS
  <2>1. PICK g : Is(g, s)
    BY <1>2, MaxSizeType
  <2> DEFINE h == [n \in 0..(s + 1) |-> IF n = s + 1
                      THEN [lo \in Nat |-> PathStep(leaves, index, g, s + 1, lo)] ELSE g[n]]
  <2>2. ASSUME NEW n \in 0..(s + 1), NEW lo \in Nat
        PROVE  PathStep(leaves, index, h, n, lo) = PathStep(leaves, index, g, n, lo)
    <3>1. CASE n <= 1
      BY <3>1 DEF PathStep
    <3>2. CASE ~(n <= 1)
      <4> DEFINE k == SplitPoint(n)
      <4>1. k \in 1..(n - 1) /\ n - k \in 1..(n - 1)
        BY <3>2, SplitInside, MaxSizeType
      <4> HIDE DEF k
      <4>2. h[k] = g[k] /\ h[n - k] = g[n - k]
        BY <4>1
      <4> HIDE DEF h
      <4> QED
        BY <3>2, <4>2 DEF PathStep, k
    <3> QED
      BY <3>1, <3>2
  <2>3. ASSUME NEW n \in 0..(s + 1)
        PROVE  h[n] = [lo \in Nat |-> PathStep(leaves, index, h, n, lo)]
    <3>1. h[n] = [lo \in Nat |-> PathStep(leaves, index, g, n, lo)]
      BY <2>1, SMTT(30) DEF IsPath
    <3> HIDE DEF h
    <3> QED
      BY <2>2, <3>1
  <2>4. h = [n \in 0..(s + 1) |-> h[n]]
    OBVIOUS
  <2>5. Is(h, s + 1)
    <3> HIDE DEF h
    <3> QED
      BY <2>3, <2>4 DEF IsPath
  <2> HIDE DEF Is, h
  <2> QED
    BY <2>5
<1>3. size \in T
  <2> HIDE DEF T
  <2> QED
    BY <1>1, <1>2, SimpleInduction
<1> QED
  BY <1>3, MaxSizeType

LEMMA PathIs ==
    ASSUME NEW leaves, NEW index, Len(leaves) \in 0..MaxSize
    PROVE  \A n \in 0..Len(leaves) : \A lo \in Nat :
              Path(leaves, index)[n][lo] = PathStep(leaves, index, Path(leaves, index), n, lo)
<1> DEFINE f == Path(leaves, index)
<1>1. IsPath(leaves, index, f, Len(leaves))
  BY PathExists, Zenon DEF Path
<1> HIDE DEF f
<1>2. SUFFICES ASSUME NEW n \in 0..Len(leaves), NEW lo \in Nat
               PROVE  f[n][lo] = PathStep(leaves, index, f, n, lo)
  BY DEF f
<1>3. f[n] = [l \in Nat |-> PathStep(leaves, index, f, n, l)]
  BY <1>1 DEF IsPath
<1> QED
  BY <1>3

LEMMA InclusionProofIsPath ==
    ASSUME NEW leaves, NEW index
    PROVE  InclusionProof(leaves, index) = Path(leaves, index)[Len(leaves)][0]
BY DEF InclusionProof, Path, IsPath, PathStep

\* What a proof is made of.
Hashes(leaves) == {Tree(leaves, lo, n) : lo \in Nat, n \in Nat}

LEMMA TreeInHashes ==
    ASSUME NEW leaves, NEW lo \in Nat, NEW n \in Nat
    PROVE  Tree(leaves, lo, n) \in Hashes(leaves)
BY DEF Hashes

LEMMA PathType ==
    ASSUME NEW leaves, NEW index, Len(leaves) \in 0..MaxSize
    PROVE  \A n \in 0..Len(leaves) : \A lo \in Nat :
              Path(leaves, index)[n][lo] \in Seq(Hashes(leaves))
<1> DEFINE f == Path(leaves, index)
           T == {n \in Nat : n <= Len(leaves) =>
                    \A lo \in Nat : f[n][lo] \in Seq(Hashes(leaves))}
<1>1. ASSUME NEW n \in Nat, \A i \in 0..(n - 1) : i \in T PROVE n \in T
  <2> SUFFICES ASSUME n <= Len(leaves), NEW lo \in Nat PROVE f[n][lo] \in Seq(Hashes(leaves))
    OBVIOUS
  <2>0. f[n][lo] = PathStep(leaves, index, f, n, lo)
    BY PathIs, MaxSizeType
  <2> HIDE DEF f
  <2>1. CASE n <= 1
    BY <2>0, <2>1 DEF PathStep
  <2>2. CASE ~(n <= 1)
    <3> DEFINE k == SplitPoint(n)
    <3>1. /\ k \in 1..(n - 1) /\ n - k \in 1..(n - 1)
          /\ k \in Nat /\ n - k \in Nat /\ lo + k \in Nat
      BY <2>2, SplitInside, MaxSizeType
    <3>2. k \in T /\ n - k \in T
      BY <1>1, <3>1
    <3>3. f[k][lo] \in Seq(Hashes(leaves)) /\ f[n - k][lo + k] \in Seq(Hashes(leaves))
      BY <3>1, <3>2
    <3>4. Tree(leaves, lo, k) \in Hashes(leaves) /\ Tree(leaves, lo + k, n - k) \in Hashes(leaves)
      BY <3>1, TreeInHashes
    <3> HIDE DEF k, T
    <3> QED
      BY <2>0, <2>2, <3>3, <3>4 DEF PathStep, k
  <2> QED
    BY <2>1, <2>2
<1>2. \A n \in Nat : n \in T
  <2> HIDE DEF T
  <2> QED
    BY <1>1, StrongInduction
<1> QED
  BY <1>2, MaxSizeType

----------------------------------------------------------------------------
\* The root computed from an audit path.

UpStep(leaf, path, g, n, len, m) ==
    LET k     == SplitPoint(n)
        below == IF m < k THEN g[k][len - 1][m] ELSE g[n - k][len - 1][m - k]
    IN IF n = 1   THEN IF len = 0 THEN leaf ELSE NoHash
       ELSE IF len = 0 \/ below = NoHash THEN NoHash
       ELSE IF m < k THEN Node(below, path[len])
       ELSE Node(path[len], below)

UpRow(leaf, path, g, n) ==
    [len \in 0..Len(path) |-> [m \in Nat |-> UpStep(leaf, path, g, n, len, m)]]

IsUp(leaf, path, g, s) == g = [n \in 1..s |-> UpRow(leaf, path, g, n)]

Up(leaf, size, path) == CHOOSE g : IsUp(leaf, path, g, size)

LEMMA UpExists ==
    ASSUME NEW leaf, NEW path, NEW size \in 0..MaxSize, Len(path) \in Nat
    PROVE  \E g : IsUp(leaf, path, g, size)
<1> DEFINE Is(g, s) == IsUp(leaf, path, g, s)
           T == {s \in Nat : s <= MaxSize => \E g : Is(g, s)}
<1>1. 0 \in T
  <2>1. Is([n \in 1..0 |-> UpRow(leaf, path, 0, n)], 0)
    BY DEF IsUp
  <2> QED
    BY <2>1
<1>2. ASSUME NEW s \in Nat, s \in T PROVE s + 1 \in T
  <2> SUFFICES ASSUME s + 1 <= MaxSize PROVE \E g : Is(g, s + 1)
    OBVIOUS
  <2>1. PICK g : Is(g, s)
    BY <1>2, MaxSizeType
  <2> DEFINE h == [n \in 1..(s + 1) |-> IF n = s + 1 THEN UpRow(leaf, path, g, s + 1) ELSE g[n]]
  <2>2. ASSUME NEW n \in 1..(s + 1)
        PROVE  UpRow(leaf, path, h, n) = UpRow(leaf, path, g, n)
    <3>1. CASE n = 1
      BY <3>1 DEF UpRow, UpStep
    <3>2. CASE n # 1
      <4> DEFINE k == SplitPoint(n)
      <4>1. k \in 1..(n - 1) /\ n - k \in 1..(n - 1)
        BY <3>2, SplitInside, MaxSizeType
      <4> HIDE DEF k
      <4>2. h[k] = g[k] /\ h[n - k] = g[n - k]
        BY <4>1
      <4> HIDE DEF h
      <4>3. \A len, m : UpStep(leaf, path, h, n, len, m) = UpStep(leaf, path, g, n, len, m)
        BY <4>2 DEF UpStep, k
      <4> QED
        BY <4>3 DEF UpRow
    <3> QED
      BY <3>1, <3>2
  <2>3. ASSUME NEW n \in 1..(s + 1)
        PROVE  h[n] = UpRow(leaf, path, h, n)
    <3>1. h[n] = UpRow(leaf, path, g, n)
      BY <2>1 DEF IsUp
    <3> HIDE DEF h
    <3> QED
      BY <2>2, <3>1
  <2>4. h = [n \in 1..(s + 1) |-> h[n]]
    OBVIOUS
  <2>5. Is(h, s + 1)
    <3> HIDE DEF h
    <3> QED
      BY <2>3, <2>4 DEF IsUp
  <2> HIDE DEF Is, h
  <2> QED
    BY <2>5
<1>3. size \in T
  <2> HIDE DEF T
  <2> QED
    BY <1>1, <1>2, SimpleInduction
<1> QED
  BY <1>3, MaxSizeType

LEMMA UpIs ==
    ASSUME NEW leaf, NEW path, NEW size \in 0..MaxSize, Len(path) \in Nat
    PROVE  \A n \in 1..size : \A len \in 0..Len(path) : \A m \in Nat :
              Up(leaf, size, path)[n][len][m] = UpStep(leaf, path, Up(leaf, size, path), n, len, m)
<1> DEFINE f == Up(leaf, size, path)
<1>1. IsUp(leaf, path, f, size)
  BY UpExists, Zenon DEF Up
<1> HIDE DEF f
<1>2. SUFFICES ASSUME NEW n \in 1..size, NEW len \in 0..Len(path), NEW m \in Nat
               PROVE  f[n][len][m] = UpStep(leaf, path, f, n, len, m)
  BY DEF f
<1>3. f[n] = UpRow(leaf, path, f, n)
  BY <1>1 DEF IsUp
<1>4. f[n][len] = [x \in Nat |-> UpStep(leaf, path, f, n, len, x)]
  BY <1>3 DEF UpRow
<1> QED
  BY <1>4

LEMMA ComputeRootIsUp ==
    ASSUME NEW leaf, NEW path, NEW size, NEW index
    PROVE  ComputeRoot(leaf, index, size, path) = Up(leaf, size, path)[size][Len(path)][index]
BY DEF ComputeRoot, Up, IsUp, UpRow, UpStep

\* An audit path, whoever made it, that verifyInclusion (verify.ts) accepts
\* for a leaf, an index and the root of a tree: that leaf is at that index.
THEOREM InclusionSound ==
    ASSUME NEW leaves, NEW size \in 1..MaxSize, NEW h, NEW index, NEW path,
           Len(path) \in Nat,
           VerifyInclusion(Hash(h), index, size, path, Tree(leaves, 0, size))
    PROVE  index \in 0..(size - 1) /\ leaves[index + 1] = h
<1> DEFINE f == Up(Hash(h), size, path)
           T == {n \in Nat : n \in 1..size =>
                    \A lo \in Nat, len \in 0..Len(path), m \in 0..(n - 1) :
                       f[n][len][m] = Tree(leaves, lo, n) => leaves[lo + m + 1] = h}
<1>0. \A n \in 1..size : \A len \in 0..Len(path) : \A m \in Nat :
         f[n][len][m] = UpStep(Hash(h), path, f, n, len, m)
  BY UpIs, MaxSizeType
<1> HIDE DEF f
<1>1. ASSUME NEW n \in Nat, \A i \in 0..(n - 1) : i \in T PROVE n \in T
  <2> SUFFICES ASSUME n \in 1..size, NEW lo \in Nat, NEW len \in 0..Len(path),
                      NEW m \in 0..(n - 1), f[n][len][m] = Tree(leaves, lo, n)
               PROVE  leaves[lo + m + 1] = h
    OBVIOUS
  <2>0. f[n][len][m] = UpStep(Hash(h), path, f, n, len, m)
    BY <1>0
  <2>1. f[n][len][m] # NoHash
    BY TreeIsHash, MaxSizeType
  <2>2. CASE n = 1
    <3>1. f[n][len][m] = Hash(h) /\ m = 0
      BY <2>0, <2>1, <2>2 DEF UpStep
    <3>2. Hash(h) = Hash(leaves[lo + 1])
      BY <2>2, <3>1, TreeLeaf
    <3> QED
      BY <3>1, <3>2, HashInjective
  <2>3. CASE n # 1
    <3> DEFINE k     == SplitPoint(n)
               below == IF m < k THEN f[k][len - 1][m] ELSE f[n - k][len - 1][m - k]
    <3>1. k \in 1..(n - 1) /\ n - k \in 1..(n - 1) /\ n \in 2..MaxSize
      BY <2>3, SplitInside, MaxSizeType
    <3>2. k \in T /\ n - k \in T
      <4> HIDE DEF T
      <4> QED
        BY <1>1, <3>1
    <3>3. Tree(leaves, lo, n) = Node(Tree(leaves, lo, k), Tree(leaves, lo + k, n - k))
      BY <3>1, TreeNode
    <3>4. /\ len # 0
          /\ f[n][len][m] = IF m < k THEN Node(below, path[len]) ELSE Node(path[len], below)
      BY <2>0, <2>1, <2>3 DEF UpStep
    <3> HIDE DEF k
    <3>5. CASE m < k
      <4>1. f[k][len - 1][m] = Tree(leaves, lo, k)
        BY <3>3, <3>4, <3>5, NodeInjective
      <4> DEFINE ll == len - 1
      <4>2. k \in 1..size /\ ll \in 0..Len(path) /\ m \in 0..(k - 1)
        BY <3>1, <3>4, <3>5
      <4> HIDE DEF ll
      <4> QED
        BY <3>2, <4>1, <4>2 DEF ll
    <3>6. CASE ~(m < k)
      <4>1. f[n - k][len - 1][m - k] = Tree(leaves, lo + k, n - k)
        BY <3>3, <3>4, <3>6, NodeInjective
      <4>2. leaves[(lo + k) + (m - k) + 1] = h
        <5>1. /\ n - k \in Nat /\ n - k \in 1..size /\ lo + k \in Nat
              /\ len - 1 \in 0..Len(path) /\ m - k \in 0..((n - k) - 1)
          <6>1. /\ n \in Nat /\ n \in 1..size /\ size \in Nat /\ lo \in Nat
                /\ len \in 0..Len(path) /\ Len(path) \in Nat /\ m \in 0..(n - 1)
                /\ k \in 1..(n - 1) /\ len # 0 /\ ~(m < k)
            BY <3>1, <3>4, <3>6, MaxSizeType
          <6> QED
            BY ONLY <6>1
        <5> DEFINE nn == n - k
                   ll == len - 1
                   mm == m - k
                   oo == lo + k
        <5>2. nn \in T
          BY <3>2
        <5>3. f[nn][ll][mm] = Tree(leaves, oo, nn)
          BY <4>1
        <5> HIDE DEF nn, ll, mm, oo
        <5>4. leaves[oo + mm + 1] = h
          BY <5>1, <5>2, <5>3 DEF nn, ll, mm, oo
        <5> QED
          BY <5>4 DEF oo, mm
      <4> QED
        BY <3>1, <4>2
    <3> QED
      BY <3>5, <3>6
  <2> QED
    BY <2>2, <2>3
<1>2. \A n \in Nat : n \in T
  <2> HIDE DEF T
  <2> QED
    BY <1>1, StrongInduction
<1>3. index \in 0..(size - 1) /\ f[size][Len(path)][index] = Tree(leaves, 0, size)
  BY ComputeRootIsUp DEF VerifyInclusion, f
<1>4. size \in T
  BY <1>2
<1> QED
  BY <1>3, <1>4

\* The audit path the gateway makes (merkle.go, InclusionProof), for any leaf
\* of any tree, is accepted by the browser's verifyInclusion (verify.ts).
THEOREM InclusionComplete ==
    ASSUME NEW leaves, Len(leaves) \in 1..MaxSize, NEW index \in 0..(Len(leaves) - 1)
    PROVE  VerifyInclusion(Hash(leaves[index + 1]), index, Len(leaves),
                           InclusionProof(leaves, index), Root(leaves))
<1> DEFINE size  == Len(leaves)
           proof == InclusionProof(leaves, index)
           leaf  == Hash(leaves[index + 1])
           p == Path(leaves, index)
           f == Up(leaf, size, proof)
           Prefix(q) == Len(q) <= Len(proof) /\ \A i \in 1..Len(q) : q[i] = proof[i]
           T == {n \in Nat : n \in 1..size =>
                    \A lo \in Nat : lo <= index /\ index < lo + n /\ Prefix(p[n][lo])
                       => f[n][Len(p[n][lo])][index - lo] = Tree(leaves, lo, n)}
<1>0. /\ \A n \in 0..size : \A lo \in Nat : p[n][lo] \in Seq(Hashes(leaves))
      /\ \A n \in 0..size : \A lo \in Nat : p[n][lo] = PathStep(leaves, index, p, n, lo)
      /\ proof = p[size][0]
  BY PathIs, PathType, InclusionProofIsPath, MaxSizeType
<1>1. Len(proof) \in Nat
  <2>1. proof \in Seq(Hashes(leaves))
    BY <1>0
  <2> HIDE DEF proof
  <2> QED
    BY <2>1
<1>2. \A n \in 1..size : \A len \in 0..Len(proof) : \A m \in Nat :
         f[n][len][m] = UpStep(leaf, proof, f, n, len, m)
  BY <1>1, UpIs, MaxSizeType
<1> HIDE DEF f, p, proof, leaf
<1>3. ASSUME NEW n \in Nat, \A i \in 0..(n - 1) : i \in T PROVE n \in T
  <2> SUFFICES ASSUME n \in 1..size, NEW lo \in Nat, lo <= index, index < lo + n, Prefix(p[n][lo])
               PROVE  f[n][Len(p[n][lo])][index - lo] = Tree(leaves, lo, n)
    OBVIOUS
  <2> DEFINE q == p[n][lo]
             m == index - lo
  <2>0. /\ q = PathStep(leaves, index, p, n, lo) /\ Len(q) \in 0..Len(proof) /\ m \in 0..(n - 1)
        /\ f[n][Len(q)][m] = UpStep(leaf, proof, f, n, Len(q), m)
    <3>1. q \in Seq(Hashes(leaves)) /\ q = PathStep(leaves, index, p, n, lo)
      BY <1>0
    <3>2. m \in 0..(n - 1)
      OBVIOUS
    <3> HIDE DEF q, m
    <3>3. Len(q) \in 0..Len(proof)
      BY <1>1, <3>1 DEF q
    <3> QED
      BY <1>2, <3>1, <3>2, <3>3
  <2>1. CASE n = 1
    <3>1. q = <<>> /\ Len(q) = 0 /\ lo = index
      BY <2>0, <2>1 DEF PathStep
    <3> HIDE DEF q, m
    <3>2. f[n][Len(q)][m] = leaf
      BY <2>0, <2>1, <3>1 DEF UpStep
    <3> QED
      BY <2>1, <3>1, <3>2, TreeLeaf DEF leaf, q, m
  <2>2. CASE n # 1
    <3> DEFINE k == SplitPoint(n)
    <3>1. /\ k \in 1..(n - 1) /\ n - k \in 1..(n - 1) /\ n \in 2..MaxSize
          /\ k \in Nat /\ n - k \in Nat /\ lo + k \in Nat
      BY <2>2, SplitInside, MaxSizeType, SMTT(30)
    <3>2. k \in T /\ n - k \in T
      <4> HIDE DEF T
      <4> QED
        BY <1>3, <3>1
    <3>3. Tree(leaves, lo, n) = Node(Tree(leaves, lo, k), Tree(leaves, lo + k, n - k))
      BY <3>1, TreeNode
    <3>4. /\ Tree(leaves, lo, k) # NoHash /\ Tree(leaves, lo + k, n - k) # NoHash
          /\ Tree(leaves, lo, k) \in Hashes(leaves) /\ Tree(leaves, lo + k, n - k) \in Hashes(leaves)
      BY <3>1, TreeIsHash, TreeInHashes, MaxSizeType
    <3>5. ASSUME NEW r \in Seq(Hashes(leaves)), NEW s \in Hashes(leaves), q = Append(r, s)
          PROVE  /\ Len(q) = Len(r) + 1 /\ Len(r) \in Nat /\ Prefix(r)
                 /\ proof[Len(q)] = s
      <4>1. Len(q) = Len(r) + 1 /\ q[Len(q)] = s /\ Len(r) \in Nat
        BY <3>5
      <4>2. \A i \in 1..Len(r) : q[i] = r[i]
        BY <3>5
      <4>3. Prefix(q)
        OBVIOUS
      <4> HIDE DEF q
      <4> QED
        BY <1>1, <4>1, <4>2, <4>3
    <3>6. CASE m < k
      <4>1. p[k][lo] \in Seq(Hashes(leaves)) /\ q = Append(p[k][lo], Tree(leaves, lo + k, n - k))
        <5>1. p[k][lo] \in Seq(Hashes(leaves))
          BY <1>0, <3>1, SMTT(30)
        <5> HIDE DEF q
        <5> QED
          BY <2>0, <2>2, <3>6, <5>1 DEF PathStep
      <4>2. /\ Len(q) = Len(p[k][lo]) + 1 /\ Len(p[k][lo]) \in Nat /\ Prefix(p[k][lo])
            /\ proof[Len(q)] = Tree(leaves, lo + k, n - k)
        BY <3>4, <3>5, <4>1
      <4>3. f[k][Len(q) - 1][m] = Tree(leaves, lo, k)
        <5> HIDE DEF Prefix, k, q
        <5>1. f[k][Len(p[k][lo])][index - lo] = Tree(leaves, lo, k)
          BY <3>1, <3>2, <3>6, <4>2
        <5> QED
          BY <4>2, <5>1
      <4> HIDE DEF q, m
      <4> QED
        BY <2>0, <2>2, <3>3, <3>4, <3>6, <4>2, <4>3 DEF UpStep, q, m
    <3>7. CASE ~(m < k)
      <4>1. p[n - k][lo + k] \in Seq(Hashes(leaves)) /\ q = Append(p[n - k][lo + k], Tree(leaves, lo, k))
        <5> HIDE DEF k, q
        <5>1. p[n - k][lo + k] \in Seq(Hashes(leaves))
          <6> DEFINE nn == n - k
                     oo == lo + k
          <6>1. nn \in 0..size /\ oo \in Nat
            BY <3>1
          <6> HIDE DEF nn, oo
          <6>2. p[nn][oo] \in Seq(Hashes(leaves))
            BY <1>0, <6>1
          <6> QED
            BY <6>2 DEF nn, oo
        <5> QED
          BY <2>0, <2>2, <3>7, <5>1 DEF PathStep, k
      <4>2. /\ Len(q) = Len(p[n - k][lo + k]) + 1 /\ Len(p[n - k][lo + k]) \in Nat
            /\ Prefix(p[n - k][lo + k])
            /\ proof[Len(q)] = Tree(leaves, lo, k)
        BY <3>4, <3>5, <4>1
      <4>3. f[n - k][Len(q) - 1][m - k] = Tree(leaves, lo + k, n - k)
        <5> HIDE DEF Prefix, k, q
        <5>1. f[n - k][Len(p[n - k][lo + k])][index - (lo + k)] = Tree(leaves, lo + k, n - k)
          BY <3>1, <3>2, <3>7, <4>2
        <5>2. index - (lo + k) = m - k
          BY <3>1
        <5> QED
          BY <4>2, <5>1, <5>2
      <4> HIDE DEF q, m
      <4> QED
        BY <2>0, <2>2, <3>3, <3>4, <3>7, <4>2, <4>3 DEF UpStep, q, m
    <3> QED
      BY <3>6, <3>7
  <2> QED
    BY <2>1, <2>2
<1>4. \A n \in Nat : n \in T
  <2> HIDE DEF T
  <2> QED
    BY <1>3, StrongInduction
<1>5. f[size][Len(proof)][index - 0] = Tree(leaves, 0, size)
  <2>1. Prefix(p[size][0])
    BY <1>0, <1>1
  <2> HIDE DEF Prefix
  <2> QED
    BY <1>0, <1>4, <2>1
<1> QED
  BY <1>5, ComputeRootIsUp DEF VerifyInclusion, Root, f, proof, leaf

----------------------------------------------------------------------------
\* Bits.

LEMMA DivisionUnique ==
    ASSUME NEW p \in Nat \ {0}, NEW q \in Nat, NEW r \in 0..(p - 1)
    PROVE  (p * q + r) \div p = q
OBVIOUS

LEMMA Division ==
    ASSUME NEW x \in Nat, NEW p \in Nat \ {0}
    PROVE  \E q \in Nat, r \in 0..(p - 1) : x = p * q + r /\ x \div p = q
<1>1. x = p * (x \div p) + (x % p) /\ x \div p \in Nat /\ x % p \in 0..(p - 1)
  OBVIOUS
<1> QED
  BY <1>1

Bit(x, i) == (x \div Pow2[i]) % 2 = 1

LEMMA BitsAre ==
    ASSUME NEW x, NEW i
    PROVE  i \in BitsOf(x) <=> i \in 0..29 /\ Bit(x, i)
BY DEF BitsOf, Bit

\* A number below 2^b has its bits below b.
LEMMA BitsBelow ==
    ASSUME NEW b \in 0..30, NEW x \in Nat, x < Pow2[b]
    PROVE  \A i \in BitsOf(x) : i < b
<1> SUFFICES ASSUME NEW i \in BitsOf(x), ~(i < b) PROVE FALSE
  OBVIOUS
<1>1. i \in 0..29 /\ Bit(x, i)
  BY BitsAre
<1>2. Pow2[i] \in Nat \ {0} /\ x < Pow2[i]
  <2>1. Pow2[b] <= Pow2[i]
    BY <1>1, Pow2Monotone, Pow2Type
  <2> QED
    BY <1>1, <2>1, Pow2Type
<1>3. x \div Pow2[i] = 0
  BY <1>2
<1> QED
  BY <1>1, <1>3 DEF Bit

\* Lower bits do not see what is added above them.
LEMMA LowerBits ==
    ASSUME NEW b \in 0..30, NEW y \in Nat, NEW i \in 0..29, i < b
    PROVE  Bit(Pow2[b] + y, i) <=> Bit(y, i)
<1> DEFINE p == Pow2[i]
<1>1. PICK q \in Nat \ {0} : Pow2[b] = p * (2 * q)
  BY Pow2Divides
<1>2. p \in Nat \ {0}
  BY Pow2Type
<1> HIDE DEF p
<1>3. PICK d \in Nat, r \in 0..(p - 1) : y = p * d + r /\ y \div p = d
  BY <1>2, Division
<1>4. p * (2 * q) + (p * d + r) = p * (2 * q + d) + r
  BY <1>2
<1>5. (Pow2[b] + y) \div p = 2 * q + d
  <2>1. 2 * q + d \in Nat
    OBVIOUS
  <2>2. Pow2[b] + y = p * (2 * q + d) + r
    BY <1>1, <1>3, <1>4
  <2> QED
    BY <1>2, <2>1, <2>2, DivisionUnique
<1>6. (2 * q + d) % 2 = d % 2
  OBVIOUS
<1> QED
  BY <1>3, <1>5, <1>6 DEF Bit, p

LEMMA TopBit ==
    ASSUME NEW b \in 0..29, NEW y \in Nat, y < Pow2[b]
    PROVE  BitsOf(Pow2[b] + y) = {b} \union BitsOf(y)
<1> DEFINE p == Pow2[b]
<1>1. p \in Nat \ {0} /\ Pow2[b + 1] = 2 * p
  BY Pow2Type, Pow2Def
<1>2. \A i \in BitsOf(p + y) : i < b + 1
  <2>1. p + y < Pow2[b + 1]
    BY <1>1
  <2> QED
    BY <1>1, <2>1, BitsBelow
<1>3. Bit(p + y, b)
  <2>1. (p * 1 + y) \div p = 1
    BY <1>1, DivisionUnique
  <2>2. (p + y) \div p = 1
    BY <1>1, <2>1
  <2> QED
    BY <2>2 DEF Bit
<1>4. \A i \in BitsOf(y) : i < b
  BY BitsBelow
<1>5. \A i \in 0..29 : i < b => (Bit(p + y, i) <=> Bit(y, i))
  BY LowerBits
<1> HIDE DEF p
<1>6. ASSUME NEW i PROVE i \in BitsOf(p + y) <=> i = b \/ i \in BitsOf(y)
  <2>1. CASE i \in 0..29
    <3>1. i < b \/ i = b \/ i > b
      BY <2>1
    <3> QED
      BY <1>2, <1>3, <1>4, <1>5, <2>1, <3>1, BitsAre
  <2>2. CASE i \notin 0..29
    BY <2>2, BitsAre
  <2> QED
    BY <2>1, <2>2
<1> QED
  BY <1>6 DEF p

LEMMA BitsZero == BitsOf(0) = {}
<1> SUFFICES ASSUME NEW i \in BitsOf(0) PROVE FALSE
  OBVIOUS
<1>1. 0 < Pow2[0]
  BY Pow2Def
<1>2. i < 0 /\ i \in 0..29
  BY <1>1, BitsBelow, BitsAre
<1> QED
  BY <1>2

LEMMA BitsPower ==
    ASSUME NEW b \in 0..29
    PROVE  BitsOf(Pow2[b]) = {b}
<1>1. 0 < Pow2[b] /\ Pow2[b] + 0 = Pow2[b]
  BY Pow2Type
<1> QED
  BY <1>1, TopBit, BitsZero

\* All bits below b are set in 2^b - 1.
LEMMA BitsAllOnes ==
    \A b \in 0..30 : BitsOf(Pow2[b] - 1) = 0..(b - 1)
<1> DEFINE T == {b \in Nat : b \in 0..30 => BitsOf(Pow2[b] - 1) = 0..(b - 1)}
<1>1. 0 \in T
  <2>1. Pow2[0] - 1 = 0 /\ 0..(0 - 1) = {}
    BY Pow2Def
  <2> QED
    BY <2>1, BitsZero
<1>2. ASSUME NEW b \in Nat, b \in T PROVE b + 1 \in T
  <2> SUFFICES ASSUME b + 1 \in 0..30 PROVE BitsOf(Pow2[b + 1] - 1) = 0..b
    OBVIOUS
  <2>1. b \in 0..29 /\ Pow2[b] \in Nat \ {0}
    BY Pow2Type
  <2>2. Pow2[b + 1] - 1 = Pow2[b] + (Pow2[b] - 1)
    BY <2>1, Pow2Def
  <2>3. BitsOf(Pow2[b] + (Pow2[b] - 1)) = {b} \union BitsOf(Pow2[b] - 1)
    BY <2>1, TopBit
  <2>4. BitsOf(Pow2[b] - 1) = 0..(b - 1)
    BY <1>2, <2>1
  <2>5. {b} \union 0..(b - 1) = 0..b
    OBVIOUS
  <2> QED
    BY <2>2, <2>3, <2>4, <2>5
<1>3. \A n \in Nat : n \in T
  <2> HIDE DEF T
  <2> QED
    BY <1>1, <1>2, SimpleInduction
<1> QED
  BY <1>3

LEMMA BitsSome ==
    ASSUME NEW x \in 1..(MaxSize - 1)
    PROVE  /\ BitsOf(x) # {} /\ BitsOf(x) \subseteq 0..29
           /\ TrailingZeros(x) \in BitsOf(x)
           /\ \A i \in BitsOf(x) : TrailingZeros(x) <= i
<1>1. x + 1 \in 2..MaxSize
  BY MaxSizeType
<1>2. PICK b \in 0..29 : Pow2[b] < x + 1 /\ x + 1 <= 2 * Pow2[b]
  BY <1>1, SplitPower
<1>3. x - Pow2[b] \in Nat /\ x - Pow2[b] < Pow2[b] /\ x = Pow2[b] + (x - Pow2[b])
  BY <1>2, Pow2Type
<1>4. b \in BitsOf(x)
  BY <1>3, TopBit
<1>5. BitsOf(x) \subseteq 0..29 /\ 0..29 \subseteq Nat
  BY DEF BitsOf
<1> QED
  BY <1>4, <1>5, MinFact DEF TrailingZeros

----------------------------------------------------------------------------
\* The shape of a consistency proof, as its verifier works it out: how many
\* siblings lie between the subtree both trees share and the roots, and
\* which of them are on the left.

Differ(x, y) == (BitsOf(x) \ BitsOf(y)) \union (BitsOf(y) \ BitsOf(x))
TopOf(S)     == IF S = {} THEN 0 ELSE Max(S) + 1

Top(m, n)    == DifferingBits(m - 1, n - 1)
Inner(m, n)  == Top(m, n) - TrailingZeros(m)
Border(m, n) == OnesAbove(m - 1, Top(m, n))
Levels(m, n) == Inner(m, n) + Border(m, n)
Lefts(m, n)  == {i \in 1..Levels(m, n) :
                    i > Inner(m, n) \/ i - 1 + TrailingZeros(m) \in BitsOf(m - 1)}

LEMMA TopIs ==
    ASSUME NEW m, NEW n
    PROVE  Top(m, n) = TopOf(Differ(m - 1, n - 1))
BY DEF Top, DifferingBits, TopOf, Differ

LEMMA TopFact ==
    ASSUME NEW b \in Nat, NEW S \in SUBSET (0..(b - 1))
    PROVE  /\ TopOf(S) \in 0..b
           /\ \A i \in S : i < TopOf(S)
           /\ TopOf(S) # 0 => TopOf(S) - 1 \in S
<1>1. CASE S = {}
  BY <1>1 DEF TopOf
<1>2. CASE S # {}
  <2>1. S \subseteq Nat /\ \A i \in S : i <= b
    OBVIOUS
  <2>2. Max(S) \in S /\ \A i \in S : Max(S) >= i
    BY <1>2, <2>1, MaxFact
  <2>3. TopOf(S) = Max(S) + 1
    BY <1>2 DEF TopOf
  <2>4. Max(S) \in 0..(b - 1)
    BY <2>2
  <2> QED
    BY <2>1, <2>2, <2>3, <2>4
<1> QED
  BY <1>1, <1>2

LEMMA TopExactly ==
    ASSUME NEW b \in Nat, NEW S \in SUBSET (0..b), b \in S
    PROVE  TopOf(S) = b + 1
<1>1. TopOf(S) \in 0..(b + 1) /\ b < TopOf(S)
  BY TopFact
<1> QED
  BY <1>1

LEMMA BitsFinite ==
    ASSUME NEW x, NEW t
    PROVE  /\ BitsOf(x) \subseteq 0..29
           /\ IsFiniteSet({i \in BitsOf(x) : i >= t})
           /\ OnesAbove(x, t) \in Nat
<1>1. BitsOf(x) \subseteq 0..29
  BY DEF BitsOf
<1>2. IsFiniteSet(0..29)
  <2>1. \A a, c \in Int : IsFiniteSet(a..c)
    BY FS_Interval
  <2>2. 0 \in Int /\ 29 \in Int
    OBVIOUS
  <2> QED
    BY <2>1, <2>2, Zenon
<1>3. IsFiniteSet({i \in BitsOf(x) : i >= t})
  BY <1>1, <1>2, FS_Subset
<1> QED
  BY <1>1, <1>3, FS_CardinalityType DEF OnesAbove

\* The old tree ends inside the left half.
LEMMA LevelsRight ==
    ASSUME NEW n \in 2..MaxSize, NEW m \in 1..(SplitPoint(n) - 1)
    PROVE  LET k == SplitPoint(n)
           IN  /\ Levels(m, n) = Levels(m, k) + 1
               /\ Lefts(m, n) = Lefts(m, k)
               /\ Inner(m, n) \in Nat \ {0}
<1> DEFINE k == SplitPoint(n)
           z == TrailingZeros(m)
           Y == BitsOf(m - 1)
<1>1. PICK b \in 0..29 : k = Pow2[b] /\ k < n /\ n <= 2 * k
  BY SplitPower
<1>2. k \in Nat \ {0} /\ k <= MaxSize /\ n \in Nat
  BY <1>1, Pow2Type, MaxSizeType
<1> HIDE DEF k
<1>m. m \in 1..(k - 1)
  BY DEF k
<1>3. BitsOf(n - 1) = {b} \union BitsOf((n - 1) - k)
  <2>1. (n - 1) - k \in Nat /\ (n - 1) - k < k /\ k + ((n - 1) - k) = n - 1
    BY <1>1, <1>2
  <2> QED
    BY <1>1, <2>1, TopBit
<1>4. \A i \in BitsOf((n - 1) - k) : i \in 0..(b - 1)
  <2>1. (n - 1) - k \in Nat /\ (n - 1) - k < k
    BY <1>1, <1>2
  <2>2. \A i \in BitsOf((n - 1) - k) : i < b
    BY <1>1, <2>1, BitsBelow
  <2> QED
    BY <2>2, BitsAre
<1>5. BitsOf(k - 1) = 0..(b - 1)
  <2>1. b \in 0..30
    OBVIOUS
  <2> QED
    BY <1>1, <2>1, BitsAllOnes
<1>6. Y \subseteq 0..(b - 1)
  <2>1. m - 1 \in Nat /\ m - 1 < Pow2[b]
    BY <1>1, <1>2, <1>m
  <2>2. \A i \in Y : i < b
    BY <2>1, BitsBelow
  <2> QED
    BY <2>2, BitsAre
<1>7. z \in 0..(b - 1)
  <2>1. m \in 1..(MaxSize - 1) /\ m < Pow2[b]
    BY <1>1, <1>2, <1>m, MaxSizeType
  <2>2. z \in BitsOf(m)
    BY <2>1, BitsSome
  <2>3. z < b
    BY <2>1, <2>2, BitsBelow
  <2> QED
    BY <2>2, <2>3, BitsAre
<1> HIDE DEF z, Y
<1>8. Top(m, n) = b + 1
  <2>1. Differ(m - 1, n - 1) \subseteq 0..b /\ b \in Differ(m - 1, n - 1)
    BY <1>3, <1>4, <1>6 DEF Differ, Y
  <2> QED
    BY <2>1, TopExactly, TopIs
<1>9. Border(m, n) = 0
  <2>1. {i \in Y : i >= b + 1} = {}
    <3> SUFFICES ASSUME NEW i \in Y, i >= b + 1 PROVE FALSE
      OBVIOUS
    <3>1. i \in 0..(b - 1)
      BY <1>6
    <3> QED
      BY <3>1
  <2> QED
    BY <1>8, <2>1, FS_EmptySet DEF Border, OnesAbove, Y
<1> DEFINE S == (0..(b - 1)) \ Y
           t == TopOf(S)
<1>10. Top(m, k) = t
  <2>1. Differ(m - 1, k - 1) = S
    BY <1>5, <1>6 DEF Differ, Y
  <2> HIDE DEF S
  <2> QED
    BY <2>1, TopIs
<1>11. t \in 0..b /\ \A i \in 0..(b - 1) : i >= t => i \in Y
  <2>1. S \in SUBSET (0..(b - 1))
    OBVIOUS
  <2>2. t \in 0..b /\ \A i \in S : i < t
    <3> HIDE DEF S
    <3> QED
      BY <2>1, TopFact
  <2> HIDE DEF t
  <2> QED
    BY <2>2
<1> HIDE DEF t
<1>12. Border(m, k) = b - t
  <2>1. {i \in Y : i >= t} = t..(b - 1)
    <3>1. ASSUME NEW i \in Y, i >= t PROVE i \in t..(b - 1)
      <4>1. i \in 0..(b - 1)
        BY <1>6
      <4> QED
        BY <1>11, <3>1, <4>1
    <3>2. ASSUME NEW i \in t..(b - 1) PROVE i \in Y /\ i >= t
      <4>1. i \in 0..(b - 1) /\ i >= t
        BY <1>11
      <4> QED
        BY <1>11, <4>1
    <3> QED
      BY <3>1, <3>2
  <2>2. Cardinality(t..(b - 1)) = b - t
    <3>1. CASE t = b
      <4>1. t..(b - 1) = {}
        BY <3>1
      <4> QED
        BY <3>1, <4>1, FS_EmptySet
    <3>2. CASE t # b
      <4>1. Cardinality(t..(b - 1)) = (b - 1) - t + 1
        BY <1>11, <3>2, FS_Interval
      <4> QED
        BY <1>11, <4>1
    <3> QED
      BY <3>1, <3>2
  <2> QED
    BY <1>10, <2>1, <2>2 DEF Border, OnesAbove, Y
<1>13. Inner(m, n) = b + 1 - z /\ Inner(m, k) = t - z
  <2>1. Inner(m, n) = (b + 1) - z
    BY <1>8 DEF Inner, z
  <2>2. Inner(m, k) = t - z
    BY <1>10 DEF Inner, z
  <2>3. (b + 1) - z = b + 1 - z
    BY <1>7
  <2> QED
    BY <2>1, <2>2, <2>3
<1>14. Levels(m, n) = b + 1 - z /\ Levels(m, k) = b - z
  BY <1>7, <1>9, <1>11, <1>12, <1>13 DEF Levels
<1>15. Lefts(m, n) = Lefts(m, k)
  <2>1. Lefts(m, n) = {i \in 1..(b + 1 - z) : i > b + 1 - z \/ i - 1 + z \in Y}
    BY <1>13, <1>14 DEF Lefts, z, Y
  <2>2. Lefts(m, k) = {i \in 1..(b - z) : i > t - z \/ i - 1 + z \in Y}
    BY <1>13, <1>14 DEF Lefts, z, Y
  <2>3. ASSUME NEW i, i \in Lefts(m, n) PROVE i \in Lefts(m, k)
    <3>1. i \in 1..(b + 1 - z) /\ i - 1 + z \in Y
      BY <1>7, <2>1, <2>3
    <3>2. i - 1 + z \in 0..(b - 1)
      BY <1>6, <3>1
    <3> QED
      BY <1>7, <2>2, <3>1, <3>2
  <2>4. ASSUME NEW i, i \in Lefts(m, k) PROVE i \in Lefts(m, n)
    <3>1. i \in 1..(b - z) /\ (i > t - z \/ i - 1 + z \in Y)
      BY <2>2, <2>4
    <3>2. i - 1 + z \in 0..(b - 1) /\ (i > t - z => i - 1 + z >= t)
      BY <1>7, <1>11, <3>1
    <3> QED
      BY <1>7, <1>11, <2>1, <3>1, <3>2
  <2> QED
    BY <2>3, <2>4
<1> QED
  BY <1>7, <1>13, <1>14, <1>15 DEF k

\* The old tree is the left half.
LEMMA LevelsSame ==
    ASSUME NEW n \in 2..MaxSize
    PROVE  LET k == SplitPoint(n)
           IN  Levels(k, n) = 1 /\ Lefts(k, n) = {} /\ Inner(k, n) \in Nat \ {0}
<1> DEFINE k == SplitPoint(n)
<1>1. PICK b \in 0..29 : k = Pow2[b] /\ k < n /\ n <= 2 * k
  BY SplitPower
<1>2. k \in Nat \ {0} /\ k <= MaxSize /\ n \in Nat
  BY <1>1, Pow2Type, MaxSizeType
<1> HIDE DEF k
<1>3. BitsOf(n - 1) = {b} \union BitsOf((n - 1) - k) /\ \A i \in BitsOf((n - 1) - k) : i \in 0..(b - 1)
  <2>1. (n - 1) - k \in Nat /\ (n - 1) - k < k /\ k + ((n - 1) - k) = n - 1
    BY <1>1, <1>2
  <2>2. \A i \in BitsOf((n - 1) - k) : i < b
    BY <1>1, <2>1, BitsBelow
  <2>3. BitsOf(k + ((n - 1) - k)) = {b} \union BitsOf((n - 1) - k)
    BY <1>1, <2>1, TopBit
  <2>4. \A i \in BitsOf((n - 1) - k) : i \in 0..(b - 1)
    BY <2>2, BitsAre
  <2> QED
    BY <2>1, <2>3, <2>4
<1>4. BitsOf(k - 1) = 0..(b - 1)
  <2>1. b \in 0..30
    OBVIOUS
  <2> QED
    BY <1>1, <2>1, BitsAllOnes
<1>5. TrailingZeros(k) = b
  <2>1. k \in 1..(MaxSize - 1)
    BY <1>1, <1>2, MaxSizeType
  <2>2. BitsOf(k) = {b}
    BY <1>1, BitsPower
  <2> QED
    BY <2>1, <2>2, BitsSome
<1>6. Top(k, n) = b + 1
  <2>1. Differ(k - 1, n - 1) \subseteq 0..b /\ b \in Differ(k - 1, n - 1)
    BY <1>3, <1>4 DEF Differ
  <2> QED
    BY <2>1, TopExactly, TopIs
<1>7. Inner(k, n) = 1
  BY <1>5, <1>6 DEF Inner
<1>8. Border(k, n) = 0
  <2>1. {i \in BitsOf(k - 1) : i >= b + 1} = {}
    BY <1>4
  <2> QED
    BY <1>6, <2>1, FS_EmptySet DEF Border, OnesAbove
<1>9. Levels(k, n) = 1
  BY <1>7, <1>8 DEF Levels
<1>10. Lefts(k, n) = {}
  <2> SUFFICES ASSUME NEW i \in Lefts(k, n) PROVE FALSE
    OBVIOUS
  <2>1. i \in 1..1 /\ (i > 1 \/ i - 1 + b \in 0..(b - 1))
    BY <1>4, <1>5, <1>7, <1>9 DEF Lefts
  <2> QED
    BY <2>1
<1> QED
  BY <1>7, <1>9, <1>10 DEF k

\* The old tree reaches into the right half.
LEMMA LevelsLeft ==
    ASSUME NEW n \in 2..MaxSize, NEW m \in (SplitPoint(n) + 1)..(n - 1)
    PROVE  LET k == SplitPoint(n)
           IN  /\ Levels(m, n) = Levels(m - k, n - k) + 1
               /\ Inner(m, n) = Inner(m - k, n - k)
               /\ Levels(m - k, n - k) \in Nat
                     => Lefts(m, n) = Lefts(m - k, n - k) \union {Levels(m, n)}
               /\ ~IsPower(m)
<1> DEFINE k == SplitPoint(n)
           z == TrailingZeros(m)
           Y == BitsOf(m - k - 1)
           t == Top(m, n)
<1>1. PICK b \in 0..29 : k = Pow2[b] /\ k < n /\ n <= 2 * k
  BY SplitPower
<1>2. k \in Nat \ {0} /\ k <= MaxSize /\ n \in Nat
  BY <1>1, Pow2Type, MaxSizeType
<1> HIDE DEF k
<1>m. m \in (k + 1)..(n - 1)
  BY DEF k
<1>3. /\ m - k - 1 \in Nat /\ m - k - 1 < k /\ k + (m - k - 1) = m - 1
      /\ n - k - 1 \in Nat /\ n - k - 1 < k /\ k + (n - k - 1) = n - 1
      /\ m - k \in Nat \ {0} /\ m - k < k /\ k + (m - k) = m
  BY <1>1, <1>2, <1>m
<1>4. /\ BitsOf(m - 1) = {b} \union Y
      /\ BitsOf(n - 1) = {b} \union BitsOf(n - k - 1)
      /\ BitsOf(m) = {b} \union BitsOf(m - k)
  <2>1. BitsOf(k + (m - k - 1)) = {b} \union Y
    BY <1>1, <1>3, TopBit
  <2>2. BitsOf(k + (n - k - 1)) = {b} \union BitsOf(n - k - 1)
    BY <1>1, <1>3, TopBit
  <2>3. BitsOf(k + (m - k)) = {b} \union BitsOf(m - k)
    BY <1>1, <1>3, TopBit
  <2> QED
    BY <1>3, <2>1, <2>2, <2>3
<1>5. Y \subseteq 0..(b - 1) /\ BitsOf(n - k - 1) \subseteq 0..(b - 1) /\ BitsOf(m - k) \subseteq 0..(b - 1)
  <2>1. ASSUME NEW x \in Nat, x < k PROVE BitsOf(x) \subseteq 0..(b - 1)
    BY <1>1, <2>1, BitsBelow, BitsAre
  <2> QED
    BY <1>3, <2>1
<1>6. z = TrailingZeros(m - k) /\ z \in Nat
  <2>1. m \in 1..(MaxSize - 1) /\ m - k \in 1..(MaxSize - 1)
    BY <1>1, <1>2, <1>3, <1>m, MaxSizeType
  <2>2. /\ z \in BitsOf(m) /\ \A i \in BitsOf(m) : z <= i
        /\ BitsOf(m) \subseteq 0..29
    BY <2>1, BitsSome
  <2> DEFINE y == TrailingZeros(m - k)
  <2>3. y \in BitsOf(m - k) /\ \A i \in BitsOf(m - k) : y <= i
    BY <2>1, BitsSome
  <2> HIDE DEF y, z
  <2> QED
    BY <1>4, <1>5, <2>2, <2>3 DEF y
<1>7. Differ(m - 1, n - 1) = Differ(m - k - 1, n - k - 1)
  BY <1>4, <1>5 DEF Differ
<1>8. t = Top(m - k, n - k) /\ t \in 0..b
  <2>1. t = Top(m - k, n - k)
    BY <1>7, TopIs
  <2>2. Differ(m - k - 1, n - k - 1) \in SUBSET (0..(b - 1))
    BY <1>5 DEF Differ
  <2> QED
    BY <1>7, <2>2, TopFact, TopIs
<1> HIDE DEF t, z, Y
<1>9. Inner(m, n) = t - z /\ Inner(m - k, n - k) = t - z
  BY <1>6, <1>8 DEF Inner, t, z
<1>10. Border(m - k, n - k) \in Nat /\ Border(m, n) = Border(m - k, n - k) + 1
  <2> DEFINE C == {i \in Y : i >= t}
  <2>1. {i \in {b} \union Y : i >= t} = C \union {b} /\ b \notin C
    BY <1>5, <1>8
  <2>2. IsFiniteSet(C)
    BY BitsFinite DEF Y
  <2>3. Cardinality(C \union {b}) = Cardinality(C) + 1 /\ Cardinality(C) \in Nat
    <3> HIDE DEF C
    <3> QED
      BY <2>1, <2>2, FS_AddElement, FS_CardinalityType
  <2>4. Border(m, n) = Cardinality(C \union {b})
    BY <1>4, <2>1 DEF Border, OnesAbove, t
  <2>5. Border(m - k, n - k) = Cardinality(C)
    BY <1>8 DEF Border, OnesAbove, Y
  <2> HIDE DEF C
  <2> QED
    BY <2>3, <2>4, <2>5
<1> DEFINE a == t - z
           c == Border(m - k, n - k)
<1>11. Levels(m, n) = a + c + 1 /\ Levels(m - k, n - k) = a + c /\ a \in Int /\ c \in Nat
  BY <1>6, <1>8, <1>9, <1>10 DEF Levels
<1>12. ASSUME a + c \in Nat
       PROVE  Lefts(m, n) = Lefts(m - k, n - k) \union {Levels(m, n)}
  <2>1. Lefts(m, n) = {i \in 1..(a + c + 1) : i > a \/ i - 1 + z \in {b} \union Y}
    BY <1>4, <1>9, <1>11 DEF Lefts, z
  <2>2. Lefts(m - k, n - k) = {i \in 1..(a + c) : i > a \/ i - 1 + z \in Y}
    BY <1>6, <1>9, <1>11 DEF Lefts, Y
  <2>3. \A i \in 1..(a + c + 1) : i <= a => i - 1 + z # b
    BY <1>6, <1>8
  <2>4. a \in Int /\ c \in Nat /\ a + c + 1 = (a + c) + 1 /\ a + c \in Nat
    BY <1>11, <1>12
  <2> HIDE DEF a, c
  <2>5. a + c + 1 \in 1..(a + c + 1) /\ a + c + 1 > a
    BY <2>4
  <2>6. ASSUME NEW i \in Lefts(m, n) PROVE i \in Lefts(m - k, n - k) \union {a + c + 1}
    <3>1. i \in 1..(a + c + 1) /\ (i > a \/ i - 1 + z \in Y \/ i - 1 + z = b)
      BY <2>1
    <3>2. CASE i = a + c + 1
      BY <3>2
    <3>3. CASE i # a + c + 1
      <4>1. i \in 1..(a + c)
        BY <2>4, <3>1, <3>3
      <4> QED
        BY <2>2, <2>3, <2>4, <3>1, <4>1
    <3> QED
      BY <3>2, <3>3
  <2>7. ASSUME NEW i \in Lefts(m - k, n - k) PROVE i \in Lefts(m, n)
    <3>1. i \in 1..(a + c) /\ (i > a \/ i - 1 + z \in Y)
      BY <2>2
    <3>2. i \in 1..(a + c + 1)
      BY <2>4, <3>1
    <3> QED
      BY <2>1, <3>1, <3>2
  <2>8. a + c + 1 \in Lefts(m, n)
    BY <2>1, <2>5
  <2> QED
    BY <1>11, <2>6, <2>7, <2>8
<1>13. ~IsPower(m)
  <2> SUFFICES ASSUME NEW d \in 0..30, m = Pow2[d] PROVE FALSE
    BY DEF IsPower
  <2>1. Pow2[b] < Pow2[d] /\ Pow2[d] < 2 * Pow2[b]
    BY <1>1, <1>2, <1>m
  <2> QED
    BY <2>1, Pow2Monotone, Pow2Type, SMTT(30)
<1> QED
  BY <1>9, <1>11, <1>12, <1>13 DEF k

\* All of it is a number.
LEMMA LevelsType ==
    \A n \in 2..MaxSize : \A m \in 1..(n - 1) :
       Inner(m, n) \in Nat \ {0} /\ Levels(m, n) \in Nat \ {0}
<1> DEFINE T == {n \in Nat : n \in 2..MaxSize =>
                    \A m \in 1..(n - 1) : Inner(m, n) \in Nat \ {0} /\ Levels(m, n) \in Nat \ {0}}
<1>1. ASSUME NEW n \in Nat, \A i \in 0..(n - 1) : i \in T PROVE n \in T
  <2> SUFFICES ASSUME n \in 2..MaxSize, NEW m \in 1..(n - 1)
               PROVE  Inner(m, n) \in Nat \ {0} /\ Levels(m, n) \in Nat \ {0}
    OBVIOUS
  <2>1. Border(m, n) \in Nat
    BY BitsFinite DEF Border
  <2>2. SUFFICES Inner(m, n) \in Nat \ {0}
    BY <2>1 DEF Levels
  <2> DEFINE k == SplitPoint(n)
  <2>3. k \in 1..(n - 1) /\ n - k \in 1..(n - 1)
    BY SplitInside
  <2>4. CASE m < k
    <3>1. m \in 1..(SplitPoint(n) - 1)
      BY <2>3, <2>4
    <3> QED
      BY <3>1, LevelsRight
  <2>5. CASE m = k
    BY <2>5, LevelsSame
  <2>6. CASE m > k
    <3>1. m \in (SplitPoint(n) + 1)..(n - 1)
      BY <2>3, <2>6
    <3>2. Inner(m, n) = Inner(m - k, n - k)
      BY <3>1, LevelsLeft
    <3>3. n - k \in T
      <4> HIDE DEF T
      <4> QED
        BY <1>1, <2>3
    <3>4. n - k \in 2..MaxSize /\ m - k \in 1..((n - k) - 1)
      BY <2>3, <2>6, <3>1, MaxSizeType
    <3> DEFINE nn == n - k
               mm == m - k
    <3>5. nn \in T /\ nn \in 2..MaxSize /\ mm \in 1..(nn - 1)
      BY <3>3, <3>4
    <3> HIDE DEF nn, mm
    <3>6. Inner(mm, nn) \in Nat \ {0}
      BY <3>5
    <3> QED
      BY <3>2, <3>6 DEF nn, mm
  <2> QED
    BY <2>3, <2>4, <2>5, <2>6
<1>2. \A n \in Nat : n \in T
  <2> HIDE DEF T
  <2> QED
    BY <1>1, StrongInduction
<1> QED
  BY <1>2, MaxSizeType
\* The same where nothing is left to climb: the old tree is all of it.
Rungs(m, n) == IF m = n THEN 0 ELSE Levels(m, n)
Left(m, n)  == IF m = n THEN {} ELSE Lefts(m, n)

LEMMA RungsType ==
    ASSUME NEW n \in 1..MaxSize, NEW m \in 1..n
    PROVE  Rungs(m, n) \in Nat /\ Left(m, n) \subseteq 1..Rungs(m, n)
<1>1. CASE m = n
  BY <1>1 DEF Rungs, Left
<1>2. CASE m # n
  <2>1. n \in 2..MaxSize /\ m \in 1..(n - 1)
    BY <1>2, MaxSizeType
  <2>2. Levels(m, n) \in Nat
    BY <2>1, LevelsType
  <2>3. Lefts(m, n) \subseteq 1..Levels(m, n)
    BY DEF Lefts
  <2> QED
    BY <1>2, <2>2, <2>3 DEF Rungs, Left
<1> QED
  BY <1>1, <1>2

LEMMA RungsRight ==
    ASSUME NEW n \in 2..MaxSize, NEW m \in 1..SplitPoint(n)
    PROVE  LET k == SplitPoint(n)
           IN  Rungs(m, n) = Rungs(m, k) + 1 /\ Left(m, n) = Left(m, k)
<1> DEFINE k == SplitPoint(n)
<1>1. k \in 1..(n - 1)
  BY SplitInside
<1>2. CASE m = k
  BY <1>1, <1>2, LevelsSame DEF Rungs, Left
<1>3. CASE m # k
  <2>1. m \in 1..(SplitPoint(n) - 1) /\ m # n
    BY <1>1, <1>3
  <2>2. Levels(m, n) = Levels(m, k) + 1 /\ Lefts(m, n) = Lefts(m, k)
    BY <2>1, LevelsRight
  <2> QED
    BY <1>3, <2>1, <2>2 DEF Rungs, Left
<1> QED
  BY <1>2, <1>3

LEMMA RungsLeft ==
    ASSUME NEW n \in 2..MaxSize, NEW m \in (SplitPoint(n) + 1)..n
    PROVE  LET k == SplitPoint(n)
           IN  m # n => /\ Rungs(m, n) = Rungs(m - k, n - k) + 1
                        /\ Left(m, n) = Left(m - k, n - k) \union {Rungs(m, n)}
                        /\ ~IsPower(m)
<1> SUFFICES ASSUME m # n
             PROVE  LET k == SplitPoint(n)
                    IN  /\ Rungs(m, n) = Rungs(m - k, n - k) + 1
                        /\ Left(m, n) = Left(m - k, n - k) \union {Rungs(m, n)}
                        /\ ~IsPower(m)
  OBVIOUS
<1> DEFINE k == SplitPoint(n)
           mm == m - k
           nn == n - k
<1>1. k \in 1..(n - 1) /\ m \in (k + 1)..(n - 1)
  BY SplitInside
<1>2. nn \in 2..MaxSize /\ mm \in 1..(nn - 1) /\ mm # nn
  BY <1>1, MaxSizeType
<1>3. /\ Levels(m, n) = Levels(mm, nn) + 1
      /\ Levels(mm, nn) \in Nat => Lefts(m, n) = Lefts(mm, nn) \union {Levels(m, n)}
      /\ ~IsPower(m)
  BY <1>1, LevelsLeft
<1> HIDE DEF mm, nn
<1>4. Levels(mm, nn) \in Nat
  BY <1>2, LevelsType
<1>5. /\ Rungs(m, n) = Rungs(mm, nn) + 1
      /\ Left(m, n) = Left(mm, nn) \union {Rungs(m, n)}
      /\ ~IsPower(m)
  BY <1>2, <1>3, <1>4 DEF Rungs, Left
<1> QED
  BY <1>5 DEF mm, nn

----------------------------------------------------------------------------
\* The two roots computed from a consistency proof.

ClimbStep(seed, proof, start, lefts, newTree, g, i) ==
    IF i = 0 THEN seed
    ELSE IF i \in lefts THEN Node(proof[start + i], g[i - 1])
    ELSE IF newTree     THEN Node(g[i - 1], proof[start + i])
    ELSE g[i - 1]

IsClimb(seed, proof, start, lefts, newTree, g, s) ==
    g = [i \in 0..s |-> ClimbStep(seed, proof, start, lefts, newTree, g, i)]

Climbed(seed, proof, start, lefts, newTree) ==
    CHOOSE g : IsClimb(seed, proof, start, lefts, newTree, g, Len(proof) - start)

LEMMA ClimbExists ==
    ASSUME NEW seed, NEW proof, NEW start, NEW lefts, NEW newTree, NEW size \in Nat
    PROVE  \E g : IsClimb(seed, proof, start, lefts, newTree, g, size)
<1> DEFINE Step(g, i) == ClimbStep(seed, proof, start, lefts, newTree, g, i)
           Is(g, s) == g = [i \in 0..s |-> Step(g, i)]
           T == {s \in Nat : \E g : Is(g, s)}
<1>1. 0 \in T
  <2>1. Is([i \in 0..0 |-> seed], 0)
    BY DEF ClimbStep
  <2> QED
    BY <2>1
<1>2. ASSUME NEW s \in Nat, s \in T PROVE s + 1 \in T
  <2>1. PICK g : Is(g, s)
    BY <1>2
  <2> DEFINE h == [i \in 0..(s + 1) |-> IF i = s + 1 THEN Step(g, s + 1) ELSE g[i]]
  <2>2. ASSUME NEW i \in 0..(s + 1) PROVE Step(h, i) = Step(g, i)
    <3>1. i # 0 => h[i - 1] = g[i - 1]
      OBVIOUS
    <3> HIDE DEF h
    <3> QED
      BY <3>1 DEF ClimbStep
  <2>3. ASSUME NEW i \in 0..(s + 1) PROVE h[i] = Step(h, i)
    <3>1. h[i] = Step(g, i)
      BY <2>1
    <3> HIDE DEF h, Step
    <3> QED
      BY <2>2, <3>1
  <2>4. h = [i \in 0..(s + 1) |-> h[i]]
    OBVIOUS
  <2>5. Is(h, s + 1)
    <3> HIDE DEF h, Step
    <3> QED
      BY <2>3, <2>4
  <2> HIDE DEF Is, h
  <2> QED
    BY <2>5
<1>3. size \in T
  <2> HIDE DEF T
  <2> QED
    BY <1>1, <1>2, SimpleInduction
<1> QED
  BY <1>3 DEF IsClimb

LEMMA ClimbedIs ==
    ASSUME NEW seed, NEW proof, NEW start, NEW lefts, NEW newTree, Len(proof) - start \in Nat
    PROVE  \A i \in 0..(Len(proof) - start) :
              Climbed(seed, proof, start, lefts, newTree)[i]
                 = ClimbStep(seed, proof, start, lefts, newTree,
                             Climbed(seed, proof, start, lefts, newTree), i)
<1> DEFINE f == Climbed(seed, proof, start, lefts, newTree)
<1>1. IsClimb(seed, proof, start, lefts, newTree, f, Len(proof) - start)
  BY ClimbExists, Zenon DEF Climbed
<1> HIDE DEF f
<1>2. \A i \in 0..(Len(proof) - start) : f[i] = ClimbStep(seed, proof, start, lefts, newTree, f, i)
  BY <1>1 DEF IsClimb
<1> QED
  BY <1>2 DEF f

LEMMA ClimbIsClimbed ==
    ASSUME NEW seed, NEW proof, NEW start, NEW lefts, NEW newTree
    PROVE  Climb(seed, proof, start, lefts, newTree)
             = Climbed(seed, proof, start, lefts, newTree)[Len(proof) - start]
BY DEF Climb, Climbed, IsClimb, ClimbStep

\* The number of siblings the verifier wants, and whether it starts from
\* the old root.
IsKnown(old) == old = Pow2[TrailingZeros(old)]
Start(old)   == IF IsKnown(old) THEN 0 ELSE 1

LEMMA KnownIsPower ==
    ASSUME NEW old \in 1..(MaxSize - 1)
    PROVE  IsKnown(old) <=> IsPower(old)
<1>1. TrailingZeros(old) \in 0..29
  BY BitsSome
<1>2. ASSUME NEW b \in 0..30, old = Pow2[b] PROVE TrailingZeros(old) = b
  <2>1. b \in 0..29
    BY <1>2 DEF MaxSize
  <2>2. BitsOf(old) = {b}
    BY <1>2, <2>1, BitsPower
  <2> QED
    BY <2>2, BitsSome
<1> QED
  BY <1>1, <1>2 DEF IsKnown, IsPower

\* What the verifier accepts when the trees differ in size.
LEMMA VerifyIs ==
    ASSUME NEW old, NEW new, NEW proof, NEW rootOld, NEW rootNew, old # new,
           NEW seed, seed = IF IsKnown(old) THEN rootOld ELSE proof[1]
    PROVE  VerifyConsistency(old, new, proof, rootOld, rootNew)
             <=> /\ old \in 1..new
                 /\ proof # <<>>
                 /\ Len(proof) = Start(old) + Inner(old, new) + Border(old, new)
                 /\ Climb(seed, proof, Start(old), Lefts(old, new), FALSE) = rootOld
                 /\ Climb(seed, proof, Start(old), Lefts(old, new), TRUE) = rootNew
BY DEF VerifyConsistency, IsKnown, Start, Lefts, Levels, Inner, Border, Top

LEMMA VerifyGives ==
    ASSUME NEW old, NEW new, NEW proof, NEW rootOld, NEW rootNew, old # new,
           VerifyConsistency(old, new, proof, rootOld, rootNew)
    PROVE  LET seed == IF IsKnown(old) THEN rootOld ELSE proof[1]
           IN  /\ Len(proof) = Start(old) + Inner(old, new) + Border(old, new)
               /\ Climb(seed, proof, Start(old), Lefts(old, new), FALSE) = rootOld
               /\ Climb(seed, proof, Start(old), Lefts(old, new), TRUE) = rootNew
BY DEF VerifyConsistency, IsKnown, Start, Lefts, Levels, Inner, Border, Top

\* f and g climb along the siblings p, f to the root of the old tree and g
\* to that of the new one.
Climbing(f, g, p, lefts, L) ==
    /\ L \in Nat
    /\ f[0] = g[0]
    /\ \A i \in 1..L : i \in lefts    => f[i] = Node(p[i], f[i - 1]) /\ g[i] = Node(p[i], g[i - 1])
    /\ \A i \in 1..L : i \notin lefts => f[i] = f[i - 1] /\ g[i] = Node(g[i - 1], p[i])

\* The siblings of the subtree of n leaves are the first ones of p.
Covers(lefts, L, m, n) ==
    /\ Rungs(m, n) <= L
    /\ \A i \in 1..Rungs(m, n) : i \in lefts <=> i \in Left(m, n)

LEMMA CoversRight ==
    ASSUME NEW lefts, NEW L \in Nat, NEW n \in 2..MaxSize, NEW m \in 1..SplitPoint(n),
           Covers(lefts, L, m, n)
    PROVE  /\ Rungs(m, n) \in 1..L /\ Rungs(m, n) \notin lefts
           /\ Rungs(m, n) - 1 = Rungs(m, SplitPoint(n))
           /\ Covers(lefts, L, m, SplitPoint(n))
<1> DEFINE k == SplitPoint(n)
           r == Rungs(m, k)
<1>1. k \in 1..MaxSize /\ m \in 1..k
  BY SplitInside, MaxSizeType
<1>2. r \in Nat /\ Left(m, k) \subseteq 1..r
  BY <1>1, RungsType
<1>3. Rungs(m, n) = r + 1 /\ Left(m, n) = Left(m, k)
  BY RungsRight
<1> HIDE DEF k, r
<1>4. r + 1 <= L /\ \A i \in 1..(r + 1) : i \in lefts <=> i \in Left(m, k)
  BY <1>3 DEF Covers
<1>5. r + 1 \in 1..(r + 1) /\ r + 1 \notin Left(m, k)
  BY <1>2
<1>6. Covers(lefts, L, m, k)
  BY <1>2, <1>4 DEF Covers, r
<1> QED
  BY <1>2, <1>3, <1>4, <1>5, <1>6 DEF k, r

LEMMA CoversLeft ==
    ASSUME NEW lefts, NEW L \in Nat, NEW n \in 2..MaxSize, NEW m \in (SplitPoint(n) + 1)..n,
           m # n, Covers(lefts, L, m, n)
    PROVE  LET k == SplitPoint(n)
           IN  /\ Rungs(m, n) \in 1..L /\ Rungs(m, n) \in lefts
               /\ Rungs(m, n) - 1 = Rungs(m - k, n - k)
               /\ Covers(lefts, L, m - k, n - k)
               /\ ~IsPower(m)
<1> DEFINE k == SplitPoint(n)
           mm == m - k
           nn == n - k
           r == Rungs(mm, nn)
<1>1. nn \in 1..MaxSize /\ mm \in 1..nn
  BY SplitInside, MaxSizeType
<1>2. Rungs(m, n) = r + 1 /\ Left(m, n) = Left(mm, nn) \union {r + 1} /\ ~IsPower(m)
  BY RungsLeft
<1> HIDE DEF mm, nn
<1>3. r \in Nat /\ Left(mm, nn) \subseteq 1..r
  BY <1>1, RungsType
<1> HIDE DEF r
<1>4. r + 1 <= L /\ \A i \in 1..(r + 1) : i \in lefts <=> i \in Left(mm, nn) \union {r + 1}
  BY <1>2 DEF Covers
<1>5. Covers(lefts, L, mm, nn)
  <2>1. ASSUME NEW i \in 1..r PROVE i \in lefts <=> i \in Left(mm, nn)
    BY <1>3, <1>4
  <2> QED
    BY <1>3, <1>4, <2>1 DEF Covers, r
<1> QED
  BY <1>2, <1>3, <1>4, <1>5 DEF mm, nn, r

\* The split point of a tree that reaches into the right half.
LEMMA SameSplit ==
    ASSUME NEW n \in 2..MaxSize, NEW m \in (SplitPoint(n) + 1)..n
    PROVE  SplitPoint(m) = SplitPoint(n) /\ m \in 2..MaxSize
<1>1. PICK b \in 0..29 : SplitPoint(n) = Pow2[b] /\ Pow2[b] < n /\ n <= 2 * Pow2[b]
  BY SplitPower
<1>2. Pow2[b] \in Nat \ {0}
  BY Pow2Type
<1>3. m \in 2..MaxSize /\ Pow2[b] < m /\ m <= 2 * Pow2[b]
  BY <1>1, <1>2, MaxSizeType
<1> QED
  BY <1>1, <1>3, SplitUnique

\* What climbs to the roots of two trees climbs from the same leaves.
LEMMA ClimbSound ==
    ASSUME NEW A, NEW B, NEW f, NEW g, NEW p, NEW lefts, NEW L,
           Climbing(f, g, p, lefts, L)
    PROVE  \A n \in 1..MaxSize : \A lo \in Nat, m \in 1..n :
              /\ Covers(lefts, L, m, n)
              /\ f[Rungs(m, n)] = Tree(A, lo, m)
              /\ g[Rungs(m, n)] = Tree(B, lo, n)
              => \A i \in 1..m : A[lo + i] = B[lo + i]
<1> DEFINE Same(lo, m) == \A i \in 1..m : A[lo + i] = B[lo + i]
           T == {n \in Nat : n \in 1..MaxSize =>
                   \A lo \in Nat, m \in 1..n :
                      /\ Covers(lefts, L, m, n)
                      /\ f[Rungs(m, n)] = Tree(A, lo, m)
                      /\ g[Rungs(m, n)] = Tree(B, lo, n)
                      => Same(lo, m)}
<1>0. \A n \in 1..MaxSize : \A lo \in Nat : Tree(A, lo, n) = Tree(B, lo, n) => Same(lo, n)
  BY TreeCommits
<1> HIDE DEF Same
<1>1. ASSUME NEW n \in Nat, \A i \in 0..(n - 1) : i \in T PROVE n \in T
  <2> SUFFICES ASSUME n \in 1..MaxSize, NEW lo \in Nat, NEW m \in 1..n,
                      Covers(lefts, L, m, n),
                      f[Rungs(m, n)] = Tree(A, lo, m), g[Rungs(m, n)] = Tree(B, lo, n)
               PROVE  Same(lo, m)
    OBVIOUS
  <2> DEFINE l == Rungs(m, n)
  <2>1. f[l] = Tree(A, lo, m) /\ g[l] = Tree(B, lo, n)
    OBVIOUS
  <2>2. CASE m = n
    <3>1. l = 0
      BY <2>2 DEF Rungs
    <3>2. f[0] = g[0]
      BY DEF Climbing
    <3> HIDE DEF l
    <3>3. Tree(A, lo, n) = Tree(B, lo, n)
      BY <2>1, <2>2, <3>1, <3>2
    <3> QED
      BY <1>0, <2>2, <3>3
  <2>3. CASE m # n
    <3> DEFINE k == SplitPoint(n)
    <3>1. /\ n \in 2..MaxSize /\ k \in 1..(n - 1) /\ n - k \in 1..(n - 1)
          /\ k \in Nat /\ n - k \in Nat /\ lo + k \in Nat /\ L \in Nat /\ k \in 1..MaxSize
      BY <2>3, SplitInside, MaxSizeType DEF Climbing
    <3>2. k \in T /\ n - k \in T
      <4> HIDE DEF T
      <4> QED
        BY <1>1, <3>1
    <3>3. Tree(B, lo, n) = Node(Tree(B, lo, k), Tree(B, lo + k, n - k))
      BY <3>1, TreeNode
    <3>4. CASE m <= k
      <4>1. l \in 1..L /\ l \notin lefts /\ l - 1 = Rungs(m, k) /\ Covers(lefts, L, m, k)
        BY <3>1, <3>4, CoversRight
      <4> HIDE DEF l
      <4>2. f[l] = f[l - 1] /\ g[l] = Node(g[l - 1], p[l])
        BY <4>1 DEF Climbing
      <4>3. Node(g[l - 1], p[l]) = Node(Tree(B, lo, k), Tree(B, lo + k, n - k))
        BY <2>1, <3>3, <4>2
      <4>4. f[Rungs(m, k)] = Tree(A, lo, m) /\ g[Rungs(m, k)] = Tree(B, lo, k)
        BY <2>1, <4>1, <4>2, <4>3, NodeInjective
      <4>5. m \in 1..k
        BY <3>1, <3>4
      <4> HIDE DEF k
      <4> QED
        BY <3>1, <3>2, <4>1, <4>4, <4>5
    <3>5. CASE ~(m <= k)
      <4> DEFINE mm == m - k
                 nn == n - k
                 oo == lo + k
      <4>1. /\ mm \in 1..nn /\ nn \in 1..MaxSize /\ nn \in Nat /\ oo \in Nat
            /\ m \in (SplitPoint(n) + 1)..n
        BY <3>1, <3>5, MaxSizeType
      <4>2. /\ l \in 1..L /\ l \in lefts /\ l - 1 = Rungs(mm, nn)
            /\ Covers(lefts, L, mm, nn)
        BY <2>3, <3>1, <4>1, CoversLeft
      <4>3. SplitPoint(m) = k /\ m \in 2..MaxSize
        BY <3>1, <4>1, SameSplit
      <4>4. Tree(A, lo, m) = Node(Tree(A, lo, k), Tree(A, oo, mm))
        BY <4>3, TreeNode
      <4>5. nn \in T /\ Tree(B, lo, n) = Node(Tree(B, lo, k), Tree(B, oo, nn))
        BY <3>2, <3>3
      <4> HIDE DEF l, mm, nn, oo
      <4>6. f[l] = Node(p[l], f[l - 1]) /\ g[l] = Node(p[l], g[l - 1])
        BY <4>2 DEF Climbing
      <4>7. Node(p[l], f[l - 1]) = Node(Tree(A, lo, k), Tree(A, oo, mm))
        BY <2>1, <4>4, <4>6
      <4>8. Node(p[l], g[l - 1]) = Node(Tree(B, lo, k), Tree(B, oo, nn))
        BY <2>1, <4>5, <4>6
      <4>9. p[l] = Tree(A, lo, k) /\ f[l - 1] = Tree(A, oo, mm)
        BY <4>7, NodeInjective
      <4>10. p[l] = Tree(B, lo, k) /\ g[l - 1] = Tree(B, oo, nn)
        BY <4>8, NodeInjective
      <4>11. Same(lo, k)
        BY <1>0, <3>1, <4>9, <4>10
      <4>12. Same(oo, mm)
        BY <4>1, <4>2, <4>5, <4>9, <4>10
      <4>13. ASSUME NEW i \in 1..m PROVE A[lo + i] = B[lo + i]
        <5>1. CASE i <= k
          BY <3>1, <4>11, <5>1 DEF Same
        <5>2. CASE ~(i <= k)
          <6>1. i - k \in 1..mm /\ oo + (i - k) = lo + i
            BY <3>1, <5>2 DEF mm, oo
          <6> QED
            BY <4>12, <6>1 DEF Same
        <5> QED
          BY <5>1, <5>2
      <4> QED
        BY <4>13 DEF Same
    <3> QED
      BY <3>4, <3>5
  <2> QED
    BY <2>2, <2>3
<1>2. \A n \in Nat : n \in T
  <2> HIDE DEF T
  <2> QED
    BY <1>1, StrongInduction
<1>3. \A n \in 1..MaxSize : n \in Nat
  BY MaxSizeType
<1> QED
  BY <1>2, <1>3 DEF Same

\* The verifier climbs along the siblings of its proof.
Climbs(f, g, p, seed, proof, start, lefts, L) ==
    /\ Climbing(f, g, p, lefts, L)
    /\ f[0] = seed
    /\ Climb(seed, proof, start, lefts, FALSE) = f[L]
    /\ Climb(seed, proof, start, lefts, TRUE) = g[L]
    /\ \A i \in 1..L : p[i] = proof[start + i]

LEMMA VerifierClimbs ==
    ASSUME NEW old, NEW new \in 1..MaxSize, old \in 1..(new - 1), NEW seed, NEW proof,
           NEW start \in 0..1, Len(proof) = start + Levels(old, new)
    PROVE  /\ Covers(Lefts(old, new), Rungs(old, new), old, new)
           /\ \E f, g, p : Climbs(f, g, p, seed, proof, start, Lefts(old, new), Rungs(old, new))
<1> DEFINE lefts == Lefts(old, new)
           L     == Rungs(old, new)
           f     == Climbed(seed, proof, start, lefts, FALSE)
           g     == Climbed(seed, proof, start, lefts, TRUE)
           p     == [i \in 1..L |-> proof[start + i]]
<1>1. L = Levels(old, new) /\ lefts = Left(old, new)
  BY DEF Rungs, Left
<1>2. L \in Nat
  BY <1>1, LevelsType, MaxSizeType
<1>3. Len(proof) - start = L
  BY <1>1, <1>2
<1>4. /\ Climb(seed, proof, start, lefts, FALSE) = f[L]
      /\ Climb(seed, proof, start, lefts, TRUE) = g[L]
  BY <1>3, ClimbIsClimbed
<1>5. /\ \A i \in 0..L : f[i] = ClimbStep(seed, proof, start, lefts, FALSE, f, i)
      /\ \A i \in 0..L : g[i] = ClimbStep(seed, proof, start, lefts, TRUE, g, i)
  <2> HIDE DEF L, f, g, lefts
  <2>1. Len(proof) - start \in Nat
    BY <1>2, <1>3
  <2>2. \A i \in 0..(Len(proof) - start) : f[i] = ClimbStep(seed, proof, start, lefts, FALSE, f, i)
    BY <2>1, ClimbedIs, ZenonT(40) DEF f
  <2>3. \A i \in 0..(Len(proof) - start) : g[i] = ClimbStep(seed, proof, start, lefts, TRUE, g, i)
    BY <2>1, ClimbedIs, ZenonT(40) DEF g
  <2> QED
    BY <1>3, <2>2, <2>3
<1>6. Covers(lefts, L, old, new)
  BY <1>1, <1>2 DEF Covers
<1> HIDE DEF L, f, g, lefts
<1>7. f[0] = seed /\ g[0] = seed
  <2>1. 0 \in 0..L
    BY <1>2
  <2>2. /\ f[0] = ClimbStep(seed, proof, start, lefts, FALSE, f, 0)
        /\ g[0] = ClimbStep(seed, proof, start, lefts, TRUE, g, 0)
    BY <1>5, <2>1
  <2> QED
    BY <2>2 DEF ClimbStep
<1>8. ASSUME NEW i \in 1..L
      PROVE  /\ i \in lefts    => f[i] = Node(p[i], f[i - 1]) /\ g[i] = Node(p[i], g[i - 1])
             /\ i \notin lefts => f[i] = f[i - 1] /\ g[i] = Node(g[i - 1], p[i])
  <2>1. i \in 0..L /\ i # 0 /\ p[i] = proof[start + i]
    BY <1>2
  <2> HIDE DEF p
  <2> QED
    BY <1>5, <2>1 DEF ClimbStep
<1>9. Climbing(f, g, p, lefts, L)
  <2> HIDE DEF p
  <2> QED
    BY <1>2, <1>7, <1>8 DEF Climbing
<1> QED
  <2>1. \A i \in 1..L : p[i] = proof[start + i]
    OBVIOUS
  <2> HIDE DEF p
  <2>2. Climbs(f, g, p, seed, proof, start, lefts, L)
    BY <1>4, <1>7, <1>9, <2>1 DEF Climbs
  <2>3. \E ff, gg, pp : Climbs(ff, gg, pp, seed, proof, start, lefts, L)
    BY <2>2
  <2> QED
    BY <1>6, <2>3 DEF L, lefts

\* A consistency proof, whoever made it, that verifyConsistency (verify.ts)
\* accepts for the roots of two trees: the old one is the beginning of the
\* new one.
THEOREM ConsistencySound ==
    ASSUME NEW A, NEW B, NEW old, NEW new \in 1..MaxSize, NEW proof,
           VerifyConsistency(old, new, proof, Tree(A, 0, old), Tree(B, 0, new))
    PROVE  old \in 1..new /\ \A i \in 1..old : A[i] = B[i]
<1>1. old \in 1..new
  BY DEF VerifyConsistency
<1>2. \A i \in 1..old : A[0 + i] = B[0 + i]
  <2>1. CASE old = new
    <3>1. Tree(A, 0, old) = Tree(B, 0, old)
      BY <2>1 DEF VerifyConsistency
    <3>2. 0 \in Nat /\ old \in 1..MaxSize
      BY <2>1
    <3> QED
      BY <3>1, <3>2, TreeCommits, ZenonT(40)
  <2>2. CASE old # new
    <3> DEFINE start == Start(old)
               seed  == IF IsKnown(old) THEN Tree(A, 0, old) ELSE proof[1]
               lefts == Lefts(old, new)
               L     == Rungs(old, new)
    <3>1. /\ Len(proof) = start + Inner(old, new) + Border(old, new)
          /\ Climb(seed, proof, start, lefts, FALSE) = Tree(A, 0, old)
          /\ Climb(seed, proof, start, lefts, TRUE) = Tree(B, 0, new)
      BY <2>2, VerifyGives
    <3>2. old \in 1..(new - 1) /\ new \in 2..MaxSize /\ start \in 0..1
      BY <1>1, <2>2, MaxSizeType DEF Start
    <3>3. Len(proof) = start + Levels(old, new)
      <4>1. Inner(old, new) \in Nat /\ Border(old, new) \in Nat
        BY <3>2, LevelsType, BitsFinite DEF Border
      <4> HIDE DEF start
      <4> QED
        BY <3>1, <3>2, <4>1 DEF Levels
    <3> HIDE DEF start, seed
    <3>4. Covers(lefts, L, old, new)
      BY <3>2, <3>3, VerifierClimbs
    <3>5. PICK f, g, p : Climbs(f, g, p, seed, proof, start, lefts, L)
      BY <3>2, <3>3, VerifierClimbs
    <3> HIDE DEF lefts
    <3>6. /\ Climbing(f, g, p, lefts, L)
          /\ f[L] = Tree(A, 0, old)
          /\ g[L] = Tree(B, 0, new)
      BY <3>1, <3>5 DEF Climbs
    <3>7. 0 \in Nat
      OBVIOUS
    <3> QED
      BY <1>1, <3>4, <3>6, <3>7, ClimbSound
  <2> QED
    BY <2>1, <2>2
<1>3. \A i \in 1..old : 0 + i = i
  BY <1>1, MaxSizeType
<1> QED
  BY <1>1, <1>2, <1>3
----------------------------------------------------------------------------
\* The consistency proof of the gateway.

SubStep(leaves, old, g, n, lo) ==
    LET m == old - lo
        k == SplitPoint(n)
    IN IF m < n
       THEN IF m <= k
            THEN Append(g[k][lo], Tree(leaves, lo + k, n - k))
            ELSE Append(g[n - k][lo + k], Tree(leaves, lo, k))
       ELSE IF lo = 0 THEN <<>> ELSE <<Tree(leaves, lo, n)>>

SubRow(leaves, old, g, n) == [lo \in 0..(old - 1) |-> SubStep(leaves, old, g, n, lo)]

IsSub(leaves, old, g, s) == g = [n \in 1..s |-> SubRow(leaves, old, g, n)]

Sub(leaves, old) == CHOOSE g : IsSub(leaves, old, g, Len(leaves))

LEMMA SubExists ==
    ASSUME NEW leaves, NEW old \in Nat, NEW size \in 0..MaxSize
    PROVE  \E g : IsSub(leaves, old, g, size)
<1> DEFINE Is(g, s) == IsSub(leaves, old, g, s)
           T == {s \in Nat : s <= MaxSize => \E g : Is(g, s)}
<1>1. 0 \in T
  <2>1. Is([n \in 1..0 |-> SubRow(leaves, old, 0, n)], 0)
    BY DEF IsSub
  <2> QED
    BY <2>1
<1>2. ASSUME NEW s \in Nat, s \in T PROVE s + 1 \in T
  <2> SUFFICES ASSUME s + 1 <= MaxSize PROVE \E g : Is(g, s + 1)
    OBVIOUS
  <2>1. PICK g : Is(g, s)
    BY <1>2, MaxSizeType
  <2> DEFINE h == [n \in 1..(s + 1) |-> IF n = s + 1 THEN SubRow(leaves, old, g, s + 1) ELSE g[n]]
  <2>2. ASSUME NEW n \in 1..(s + 1)
        PROVE  SubRow(leaves, old, h, n) = SubRow(leaves, old, g, n)
    <3> SUFFICES ASSUME NEW lo \in 0..(old - 1)
                 PROVE  SubStep(leaves, old, h, n, lo) = SubStep(leaves, old, g, n, lo)
      BY DEF SubRow
    <3>1. CASE ~(old - lo < n)
      BY <3>1 DEF SubStep
    <3>2. CASE old - lo < n
      <4> DEFINE k == SplitPoint(n)
      <4>1. k \in 1..(n - 1) /\ n - k \in 1..(n - 1)
        <5>1. n \in 2..MaxSize
          BY <3>2, MaxSizeType
        <5> QED
          BY <5>1, SplitInside
      <4> HIDE DEF k
      <4>2. h[k] = g[k] /\ h[n - k] = g[n - k]
        BY <4>1
      <4> HIDE DEF h
      <4> QED
        BY <3>2, <4>2 DEF SubStep, k
    <3> QED
      BY <3>1, <3>2
  <2>3. ASSUME NEW n \in 1..(s + 1)
        PROVE  h[n] = SubRow(leaves, old, h, n)
    <3>1. h[n] = SubRow(leaves, old, g, n)
      BY <2>1 DEF IsSub
    <3> HIDE DEF h
    <3> QED
      BY <2>2, <3>1
  <2>4. h = [n \in 1..(s + 1) |-> h[n]]
    OBVIOUS
  <2>5. Is(h, s + 1)
    <3> HIDE DEF h
    <3> QED
      BY <2>3, <2>4 DEF IsSub
  <2> HIDE DEF Is, h
  <2> QED
    BY <2>5
<1>3. size \in T
  <2> HIDE DEF T
  <2> QED
    BY <1>1, <1>2, SimpleInduction
<1> QED
  BY <1>3, MaxSizeType

LEMMA SubIs ==
    ASSUME NEW leaves, NEW old \in Nat, Len(leaves) \in 0..MaxSize
    PROVE  \A n \in 1..Len(leaves) : \A lo \in 0..(old - 1) :
              Sub(leaves, old)[n][lo] = SubStep(leaves, old, Sub(leaves, old), n, lo)
<1> DEFINE f == Sub(leaves, old)
<1>1. IsSub(leaves, old, f, Len(leaves))
  BY SubExists, Zenon DEF Sub
<1> HIDE DEF f
<1>2. SUFFICES ASSUME NEW n \in 1..Len(leaves), NEW lo \in 0..(old - 1)
               PROVE  f[n][lo] = SubStep(leaves, old, f, n, lo)
  BY DEF f
<1>3. f[n] = SubRow(leaves, old, f, n)
  BY <1>1 DEF IsSub
<1> QED
  BY <1>3 DEF SubRow

LEMMA ConsistencyProofIsSub ==
    ASSUME NEW leaves, NEW old
    PROVE  ConsistencyProof(leaves, old)
             = IF old \in 1..(Len(leaves) - 1) THEN Sub(leaves, old)[Len(leaves)][0] ELSE <<>>
BY DEF ConsistencyProof, Sub, IsSub, SubRow, SubStep

\* The calls the prover makes: the old tree reaches into the n leaves after
\* the first lo, and it was entered on the right unless lo is 0.
Called(old, n, lo) ==
    /\ old - lo \in 1..n
    /\ lo # 0 => ~IsPower(old)
    /\ lo = 0 /\ old = n => IsPower(old)

LEMMA CalledRight ==
    ASSUME NEW old \in Nat, NEW n \in 2..MaxSize, NEW lo \in 0..(old - 1),
           Called(old, n, lo), old - lo <= SplitPoint(n)
    PROVE  Called(old, SplitPoint(n), lo)
<1>1. IsPower(SplitPoint(n))
  BY SplitPower DEF IsPower
<1> QED
  BY <1>1, SplitInside DEF Called

LEMMA CalledLeft ==
    ASSUME NEW old \in Nat, NEW n \in 2..MaxSize, NEW lo \in 0..(old - 1),
           Called(old, n, lo), ~(old - lo <= SplitPoint(n)), old - lo < n
    PROVE  Called(old, n - SplitPoint(n), lo + SplitPoint(n))
           /\ lo + SplitPoint(n) \in 0..(old - 1)
<1> DEFINE k == SplitPoint(n)
<1>1. k \in 1..(n - 1)
  BY SplitInside
<1>2. ~IsPower(old)
  <2>1. CASE lo = 0
    <3>1. old \in (SplitPoint(n) + 1)..n /\ old # n
      BY <1>1, <2>1
    <3> QED
      BY <3>1, RungsLeft
  <2>2. CASE lo # 0
    BY <2>2 DEF Called
  <2> QED
    BY <2>1, <2>2
<1> HIDE DEF k
<1>3. /\ old - (lo + k) \in 1..(n - k) /\ lo + k # 0 /\ lo + k \in 0..(old - 1)
  <2>1. old - lo > k /\ old - lo < n
    BY <1>1 DEF k
  <2> QED
    BY <1>1, <2>1
<1> QED
  BY <1>2, <1>3 DEF Called, k
\* One sibling a rung, and the seed where the verifier has none.
Seeds(old) == IF IsPower(old) THEN 0 ELSE 1

\* The two ways down from a tree that ends inside.
LEMMA SubDown ==
    ASSUME NEW leaves, NEW old \in Nat, Len(leaves) \in 1..MaxSize,
           NEW n \in 1..Len(leaves), NEW lo \in 0..(old - 1), Called(old, n, lo),
           old - lo # n
    PROVE  LET k == SplitPoint(n)
               s == Sub(leaves, old)
           IN  /\ n \in 2..MaxSize /\ k \in 1..(n - 1) /\ n - k \in 1..(n - 1)
               /\ lo + k \in Nat
               /\ old - lo <= k
                    => /\ s[n][lo] = Append(s[k][lo], Tree(leaves, lo + k, n - k))
                       /\ Called(old, k, lo)
               /\ ~(old - lo <= k)
                    => /\ s[n][lo] = Append(s[n - k][lo + k], Tree(leaves, lo, k))
                       /\ Called(old, n - k, lo + k)
                       /\ lo + k \in 0..(old - 1)
<1> DEFINE k == SplitPoint(n)
           s == Sub(leaves, old)
<1>1. n \in 2..MaxSize /\ old - lo < n
  BY MaxSizeType DEF Called
<1>2. k \in 1..(n - 1) /\ n - k \in 1..(n - 1) /\ lo + k \in Nat
  BY <1>1, SplitInside
<1>3. s[n][lo] = SubStep(leaves, old, s, n, lo)
  BY SubIs, MaxSizeType
<1>4. ASSUME old - lo <= k
      PROVE  /\ s[n][lo] = Append(s[k][lo], Tree(leaves, lo + k, n - k))
             /\ Called(old, k, lo)
  <2>1. Called(old, k, lo)
    BY <1>1, <1>4, CalledRight
  <2> HIDE DEF s, k
  <2> QED
    BY <1>1, <1>3, <1>4, <2>1 DEF SubStep, k
<1>5. ASSUME ~(old - lo <= k)
      PROVE  /\ s[n][lo] = Append(s[n - k][lo + k], Tree(leaves, lo, k))
             /\ Called(old, n - k, lo + k)
             /\ lo + k \in 0..(old - 1)
  <2>1. Called(old, n - k, lo + k) /\ lo + k \in 0..(old - 1)
    BY <1>1, <1>5, CalledLeft
  <2> HIDE DEF s, k
  <2> QED
    BY <1>1, <1>3, <1>5, <2>1 DEF SubStep, k
<1> QED
  BY <1>1, <1>2, <1>4, <1>5

LEMMA SubType ==
    ASSUME NEW leaves, NEW old \in Nat, Len(leaves) \in 1..MaxSize
    PROVE  \A n \in 1..Len(leaves) : \A lo \in 0..(old - 1) :
              Called(old, n, lo)
                => /\ Sub(leaves, old)[n][lo] \in Seq(Hashes(leaves))
                   /\ Len(Sub(leaves, old)[n][lo]) = Seeds(old) + Rungs(old - lo, n)
<1> DEFINE s == Sub(leaves, old)
           Good(n, lo) == /\ s[n][lo] \in Seq(Hashes(leaves))
                          /\ Len(s[n][lo]) = Seeds(old) + Rungs(old - lo, n)
           T == {n \in Nat : n \in 1..Len(leaves) =>
                   \A lo \in 0..(old - 1) : Called(old, n, lo) => Good(n, lo)}
<1>1. ASSUME NEW n \in Nat, \A i \in 0..(n - 1) : i \in T PROVE n \in T
  <2> SUFFICES ASSUME n \in 1..Len(leaves), NEW lo \in 0..(old - 1), Called(old, n, lo)
               PROVE  Good(n, lo)
    OBVIOUS
  <2>0. s[n][lo] = SubStep(leaves, old, s, n, lo) /\ old - lo \in 1..n
    BY SubIs, MaxSizeType DEF Called
  <2>1. CASE old - lo = n
    <3>1. Rungs(old - lo, n) = 0
      BY <2>1 DEF Rungs
    <3> HIDE DEF s
    <3>2. CASE lo = 0
      <4>1. s[n][lo] = <<>>
        BY <2>0, <2>1, <3>2 DEF SubStep
      <4>2. Seeds(old) = 0
        BY <2>1, <3>2 DEF Called, Seeds
      <4> QED
        BY <3>1, <4>1, <4>2
    <3>3. CASE lo # 0
      <4>1. s[n][lo] = <<Tree(leaves, lo, n)>>
        BY <2>0, <2>1, <3>3 DEF SubStep
      <4>2. Seeds(old) = 1
        BY <3>3 DEF Called, Seeds
      <4>3. Tree(leaves, lo, n) \in Hashes(leaves)
        BY TreeInHashes
      <4> QED
        BY <3>1, <4>1, <4>2, <4>3
    <3> QED
      BY <3>2, <3>3
  <2>2. CASE old - lo # n
    <3> DEFINE k == SplitPoint(n)
               m == old - lo
    <3>1. n \in 2..MaxSize /\ k \in 1..(n - 1) /\ n - k \in 1..(n - 1) /\ lo + k \in Nat
      BY <2>2, SubDown
    <3>2. k \in T /\ n - k \in T
      <4> HIDE DEF T
      <4> QED
        BY <1>1, <3>1
    <3>3. ASSUME NEW q \in Seq(Hashes(leaves)), NEW h \in Hashes(leaves), NEW r \in Nat,
                 Len(q) = Seeds(old) + r, s[n][lo] = Append(q, h), Rungs(m, n) = r + 1
          PROVE  Good(n, lo)
      <4>1. Append(q, h) \in Seq(Hashes(leaves)) /\ Len(Append(q, h)) = Len(q) + 1
        OBVIOUS
      <4>2. Seeds(old) \in Nat
        BY DEF Seeds
      <4> HIDE DEF s, m
      <4> QED
        BY <3>3, <4>1, <4>2 DEF m
    <3> HIDE DEF s
    <3>4. CASE m <= k
      <4>1. s[n][lo] = Append(s[k][lo], Tree(leaves, lo + k, n - k)) /\ Called(old, k, lo)
        BY <2>2, <3>4, SubDown DEF s
      <4>2. Good(k, lo)
        <5> HIDE DEF k, Good
        <5> QED
          BY <3>1, <3>2, <4>1
      <4>3. m \in 1..k /\ k \in 1..MaxSize
        BY <2>0, <3>1, <3>4, MaxSizeType
      <4>4. Rungs(m, n) = Rungs(m, k) + 1 /\ Rungs(m, k) \in Nat
        BY <3>1, <4>3, RungsRight, RungsType
      <4>5. Tree(leaves, lo + k, n - k) \in Hashes(leaves)
        BY <3>1, TreeInHashes
      <4> HIDE DEF k
      <4> QED
        BY <3>3, <4>1, <4>2, <4>4, <4>5
    <3>5. CASE ~(m <= k)
      <4> DEFINE nn == n - k
                 oo == lo + k
      <4>1. /\ s[n][lo] = Append(s[nn][oo], Tree(leaves, lo, k)) /\ Called(old, nn, oo)
            /\ oo \in 0..(old - 1)
        BY <2>2, <3>5, SubDown DEF s
      <4>2. Good(nn, oo)
        <5>1. nn \in T /\ nn \in 1..Len(leaves)
          BY <3>1, <3>2
        <5> HIDE DEF nn, oo, Good
        <5> QED
          BY <4>1, <5>1
      <4>3. m \in (SplitPoint(n) + 1)..n /\ m # n
        BY <2>0, <2>2, <3>1, <3>5
      <4>4. Rungs(m, n) = Rungs(m - k, nn) + 1
        BY <3>1, <4>3, RungsLeft
      <4>5. m - k = old - oo
        BY <3>1
      <4>6. Rungs(m - k, nn) \in Nat
        <5>1. nn \in 1..MaxSize /\ m - k \in 1..nn
          BY <3>1, <4>3, MaxSizeType
        <5> HIDE DEF nn, m, k
        <5> QED
          BY <5>1, RungsType
      <4>7. Tree(leaves, lo, k) \in Hashes(leaves)
        BY <3>1, TreeInHashes
      <4> HIDE DEF nn, oo, k, m
      <4> QED
        BY <3>3, <4>1, <4>2, <4>4, <4>5, <4>6, <4>7
    <3> QED
      BY <2>0, <3>1, <3>4, <3>5
  <2> QED
    BY <2>1, <2>2
<1>2. \A n \in Nat : n \in T
  <2> HIDE DEF T
  <2> QED
    BY <1>1, StrongInduction
<1> QED
  BY <1>2, MaxSizeType

\* The consistency proof the gateway makes (consistency.go), from any size of
\* a log to the whole, is accepted by the browser's verifyConsistency.
THEOREM ConsistencyComplete ==
    ASSUME NEW leaves, Len(leaves) \in 1..MaxSize, NEW old \in 1..Len(leaves)
    PROVE  VerifyConsistency(old, Len(leaves), ConsistencyProof(leaves, old),
                             Tree(leaves, 0, old), Root(leaves))
<1> DEFINE new   == Len(leaves)
           proof == ConsistencyProof(leaves, old)
<1>0. CASE old = new
  BY <1>0, ConsistencyProofIsSub DEF VerifyConsistency, Root
<1>1. CASE old # new
  <2> DEFINE s     == Sub(leaves, old)
             start == Start(old)
             seed  == IF IsKnown(old) THEN Tree(leaves, 0, old) ELSE proof[1]
             lefts == Lefts(old, new)
             L     == Rungs(old, new)
  <2>1. /\ old \in Nat /\ old \in 1..(new - 1) /\ old \in 1..(MaxSize - 1)
        /\ new \in 2..MaxSize /\ new \in 1..MaxSize /\ 0 \in 0..(old - 1)
    BY <1>1, MaxSizeType
  <2>2. IsKnown(old) <=> IsPower(old)
    BY <2>1, KnownIsPower
  <2>3. start = Seeds(old) /\ start \in 0..1
    BY <2>2 DEF Start, Seeds
  <2>4. Called(old, new, 0)
    BY <1>1, <2>1 DEF Called
  <2>5. proof = s[new][0]
    BY <2>1, ConsistencyProofIsSub
  <2>6. L = Levels(old, new) /\ L \in Nat \ {0} /\ Inner(old, new) \in Nat \ {0}
    BY <1>1, <2>1, LevelsType DEF Rungs
  <2>7. /\ \A n \in 1..new : \A lo \in 0..(old - 1) :
              Called(old, n, lo) => /\ s[n][lo] \in Seq(Hashes(leaves))
                                    /\ Len(s[n][lo]) = start + Rungs(old - lo, n)
        /\ \A n \in 1..new : \A lo \in 0..(old - 1) :
              s[n][lo] = SubStep(leaves, old, s, n, lo)
    <3>1. \A n \in 1..new : \A lo \in 0..(old - 1) :
              Called(old, n, lo) => /\ s[n][lo] \in Seq(Hashes(leaves))
                                    /\ Len(s[n][lo]) = Seeds(old) + Rungs(old - lo, n)
      BY <2>1, SubType
    <3>2. \A n \in 1..new : \A lo \in 0..(old - 1) : s[n][lo] = SubStep(leaves, old, s, n, lo)
      <4>1. new \in 0..MaxSize
        BY MaxSizeType
      <4> QED
        BY <2>1, <4>1, SubIs
    <3> HIDE DEF start, s, new
    <3> QED
      BY <2>3, <3>1, <3>2
  <2>8. proof \in Seq(Hashes(leaves)) /\ Len(proof) = start + L
    <3>1. new \in 1..new /\ old - 0 = old
      BY <2>1
    <3> HIDE DEF s, start, L, proof, new
    <3>2. s[new][0] \in Seq(Hashes(leaves)) /\ Len(s[new][0]) = start + Rungs(old - 0, new)
      BY <2>1, <2>4, <2>7, <3>1
    <3> QED
      BY <2>5, <3>1, <3>2 DEF L
  <2>9. Covers(lefts, L, old, new) /\ \E f, g, p : Climbs(f, g, p, seed, proof, start, lefts, L)
    <3>1. Len(proof) = start + Levels(old, new)
      BY <2>6, <2>8
    <3> HIDE DEF proof, start, seed, new
    <3> QED
      BY <2>1, <2>3, <3>1, VerifierClimbs
  <2>10. PICK f, g, p : Climbs(f, g, p, seed, proof, start, lefts, L)
    BY <2>9
  <2>11. /\ Climbing(f, g, p, lefts, L)
         /\ f[0] = seed
         /\ Climb(seed, proof, start, lefts, FALSE) = f[L]
         /\ Climb(seed, proof, start, lefts, TRUE) = g[L]
         /\ \A i \in 1..L : p[i] = proof[start + i]
    BY <2>10 DEF Climbs
  <2> DEFINE Prefix(q) == Len(q) <= Len(proof) /\ \A i \in 1..Len(q) : q[i] = proof[i]
             T == {n \in Nat : n \in 1..new =>
                     \A lo \in 0..(old - 1) :
                        Called(old, n, lo) /\ Prefix(s[n][lo]) /\ Covers(lefts, L, old - lo, n)
                          => /\ f[Rungs(old - lo, n)] = Tree(leaves, lo, old - lo)
                             /\ g[Rungs(old - lo, n)] = Tree(leaves, lo, n)}
  <2>12. Prefix(proof)
    <3> HIDE DEF proof
    <3> QED
      BY <2>8
  <2> HIDE DEF proof, start, lefts, L, new, s
  <2>13. L \in Nat /\ start \in Nat /\ new \in Nat
    BY <2>1, <2>3, <2>6
  <2>14. ASSUME NEW n \in Nat, \A i \in 0..(n - 1) : i \in T PROVE n \in T
    <3> SUFFICES ASSUME n \in 1..new, NEW lo \in 0..(old - 1),
                        Called(old, n, lo), Prefix(s[n][lo]), Covers(lefts, L, old - lo, n)
                 PROVE  /\ f[Rungs(old - lo, n)] = Tree(leaves, lo, old - lo)
                        /\ g[Rungs(old - lo, n)] = Tree(leaves, lo, n)
      OBVIOUS
    <3> DEFINE m == old - lo
               l == Rungs(m, n)
               q == s[n][lo]
    <3>1. /\ m \in 1..n /\ lo \in Nat /\ q = SubStep(leaves, old, s, n, lo)
          /\ q \in Seq(Hashes(leaves)) /\ Len(q) = start + l /\ n \in 1..MaxSize
      <4>1. m \in 1..n /\ lo \in Nat /\ n \in 1..MaxSize
        BY <2>1, MaxSizeType DEF Called
      <4> HIDE DEF m, Prefix, T
      <4>2. q = SubStep(leaves, old, s, n, lo)
        BY <2>7
      <4>3. q \in Seq(Hashes(leaves)) /\ Len(q) = start + l
        BY <2>7 DEF m
      <4> QED
        BY <4>1, <4>2, <4>3
    <3> HIDE DEF Prefix, T
    <3>2. CASE m = n
      <4>1. l = 0 /\ Rungs(m, n) = 0
        BY <3>2 DEF Rungs
      <4>2. f[0] = seed /\ g[0] = seed
        BY <2>11 DEF Climbing
      <4>3. seed = Tree(leaves, lo, n)
        <5>1. CASE lo = 0
          <6>1. IsKnown(old) /\ n = old
            BY <2>1, <2>2, <3>2, <5>1 DEF Called
          <6> QED
            BY <5>1, <6>1
        <5>2. CASE lo # 0
          <6>1. ~IsKnown(old)
            BY <2>2, <5>2 DEF Called
          <6>2. q = <<Tree(leaves, lo, n)>>
            BY <3>1, <3>2, <5>2 DEF SubStep
          <6>3. Prefix(q)
            OBVIOUS
          <6> HIDE DEF q
          <6>4. proof[1] = Tree(leaves, lo, n)
            BY <6>2, <6>3 DEF Prefix
          <6> QED
            BY <6>1, <6>4
        <5> QED
          BY <5>1, <5>2
      <4> HIDE DEF seed, l, m
      <4>4. f[Rungs(m, n)] = Tree(leaves, lo, m) /\ g[Rungs(m, n)] = Tree(leaves, lo, n)
        BY <3>2, <4>1, <4>2, <4>3
      <4> QED
        BY <4>4 DEF m
    <3>3. CASE m # n
      <4> DEFINE k == SplitPoint(n)
      <4>1. n \in 2..MaxSize /\ k \in 1..(n - 1) /\ n - k \in 1..(n - 1) /\ lo + k \in Nat
        BY <2>1, <3>3, SubDown DEF new
      <4>2. k \in T /\ n - k \in T /\ k \in Nat /\ n - k \in Nat
        BY <2>14, <4>1
      <4>3. Tree(leaves, lo, n) = Node(Tree(leaves, lo, k), Tree(leaves, lo + k, n - k))
        BY <3>1, <4>1, TreeNode
      <4>4. ASSUME NEW r \in Seq(Hashes(leaves)), NEW h \in Hashes(leaves), q = Append(r, h), l # 0
            PROVE  Len(r) \in Nat /\ Prefix(r) /\ (l \in 1..L => p[l] = h)
        <5>1. Len(q) = Len(r) + 1 /\ q[Len(q)] = h /\ Len(r) \in Nat
          BY <4>4
        <5>2. \A i \in 1..Len(r) : q[i] = r[i]
          BY <4>4
        <5>3. Prefix(q) /\ Len(q) = start + l
          BY <3>1
        <5> HIDE DEF q, l
        <5>4. Len(proof) \in Nat
          BY <2>8
        <5>5. Len(q) \in 1..Len(q) /\ \A i \in 1..Len(r) : i \in 1..Len(q)
          BY <5>1
        <5>6. proof[start + l] = h /\ Prefix(r)
          BY <5>1, <5>2, <5>3, <5>4, <5>5 DEF Prefix
        <5> QED
          BY <2>11, <5>1, <5>6
      <4>5. CASE m <= k
        <5>1. q = Append(s[k][lo], Tree(leaves, lo + k, n - k)) /\ Called(old, k, lo)
          BY <2>1, <3>3, <4>5, SubDown DEF s, new
        <5>2. /\ l \in 1..L /\ l \notin lefts /\ l - 1 = Rungs(m, k) /\ Covers(lefts, L, m, k)
          BY <2>13, <3>1, <4>1, <4>5, CoversRight
        <5>3. s[k][lo] \in Seq(Hashes(leaves)) /\ Tree(leaves, lo + k, n - k) \in Hashes(leaves)
          <6>1. k \in 1..new
            BY <2>13, <4>1
          <6> HIDE DEF k
          <6> QED
            BY <2>7, <4>1, <4>2, <5>1, <6>1, TreeInHashes
        <5>4. p[l] = Tree(leaves, lo + k, n - k) /\ Prefix(s[k][lo])
          <6> DEFINE rr == s[k][lo]
                     hh == Tree(leaves, lo + k, n - k)
          <6>1. rr \in Seq(Hashes(leaves)) /\ hh \in Hashes(leaves) /\ q = Append(rr, hh)
            BY <5>1, <5>3
          <6>2. l # 0 /\ l \in 1..L
            BY <5>2
          <6> HIDE DEF rr, hh, q, l
          <6>3. p[l] = hh /\ Prefix(rr)
            BY <4>4, <6>1, <6>2
          <6> QED
            BY <6>3 DEF rr, hh
        <5>5. f[Rungs(m, k)] = Tree(leaves, lo, m) /\ g[Rungs(m, k)] = Tree(leaves, lo, k)
          <6>1. k \in 1..new
            BY <2>13, <4>1
          <6> HIDE DEF k
          <6> QED
            BY <4>2, <5>1, <5>2, <5>4, <6>1 DEF T
        <5> HIDE DEF l, k
        <5>6. f[l] = f[l - 1] /\ g[l] = Node(g[l - 1], p[l])
          BY <5>2, <2>11 DEF Climbing
        <5>7. f[l] = Tree(leaves, lo, m) /\ g[l] = Tree(leaves, lo, n)
          BY <4>3, <5>2, <5>4, <5>5, <5>6
        <5> QED
          BY <5>7 DEF l
      <4>6. CASE ~(m <= k)
        <5> DEFINE nn == n - k
                   oo == lo + k
                   mm == old - oo
        <5>1. /\ q = Append(s[nn][oo], Tree(leaves, lo, k)) /\ Called(old, nn, oo)
              /\ oo \in 0..(old - 1)
          BY <2>1, <3>3, <4>6, SubDown DEF s, new
        <5>2. /\ mm = m - k /\ m \in (SplitPoint(n) + 1)..n /\ nn \in 1..new /\ mm \in 1..nn
              /\ mm \in 1..MaxSize
          <6>1. m \in 1..n /\ k \in 1..(n - 1) /\ m > k
            BY <3>1, <4>1, <4>6
          <6>2. n \in 1..new /\ n \in 1..MaxSize /\ new \in Nat /\ MaxSize \in Nat
            BY <2>13, <3>1, MaxSizeType
          <6>3. mm = m - k
            BY <3>1, <4>1
          <6> HIDE DEF mm, m, k, oo
          <6> QED
            BY <6>1, <6>2, <6>3 DEF k
        <5>3. /\ l \in 1..L /\ l \in lefts /\ l - 1 = Rungs(mm, nn) /\ Covers(lefts, L, mm, nn)
          <6>1. /\ l \in 1..L /\ l \in lefts /\ l - 1 = Rungs(m - k, n - k)
                /\ Covers(lefts, L, m - k, n - k)
            BY <2>13, <3>3, <4>1, <5>2, CoversLeft
          <6> HIDE DEF l, mm, k, m
          <6> QED
            BY <5>2, <6>1
        <5>4. Tree(leaves, lo, m) = Node(Tree(leaves, lo, k), Tree(leaves, oo, mm))
          <6>1. SplitPoint(m) = k /\ m \in 2..MaxSize
            BY <4>1, <5>2, SameSplit
          <6>2. Tree(leaves, lo, m) = Node(Tree(leaves, lo, k), Tree(leaves, oo, m - k))
            BY <3>1, <6>1, TreeNode
          <6> HIDE DEF mm, m, k, oo
          <6> QED
            BY <5>2, <6>2
        <5>5. nn \in T /\ Tree(leaves, lo, n) = Node(Tree(leaves, lo, k), Tree(leaves, oo, nn))
          BY <4>2, <4>3
        <5> HIDE DEF nn, oo
        <5>6. s[nn][oo] \in Seq(Hashes(leaves)) /\ Tree(leaves, lo, k) \in Hashes(leaves)
          BY <2>7, <3>1, <4>2, <5>1, <5>2, TreeInHashes
        <5>7. p[l] = Tree(leaves, lo, k) /\ Prefix(s[nn][oo])
          <6> DEFINE rr == s[nn][oo]
                     hh == Tree(leaves, lo, k)
          <6>1. rr \in Seq(Hashes(leaves)) /\ hh \in Hashes(leaves) /\ q = Append(rr, hh)
            BY <5>1, <5>6
          <6>2. l # 0 /\ l \in 1..L
            BY <5>3
          <6> HIDE DEF rr, hh, q, l
          <6>3. p[l] = hh /\ Prefix(rr)
            BY <4>4, <6>1, <6>2
          <6> QED
            BY <6>3 DEF rr, hh
        <5>8. f[Rungs(mm, nn)] = Tree(leaves, oo, mm) /\ g[Rungs(mm, nn)] = Tree(leaves, oo, nn)
          BY <5>1, <5>2, <5>3, <5>5, <5>7 DEF T
        <5> HIDE DEF l, k, mm, m
        <5>9. f[l] = Node(p[l], f[l - 1]) /\ g[l] = Node(p[l], g[l - 1])
          BY <5>3, <2>11 DEF Climbing
        <5>10. f[l] = Tree(leaves, lo, m) /\ g[l] = Tree(leaves, lo, n)
          BY <5>3, <5>4, <5>5, <5>7, <5>8, <5>9
        <5> QED
          BY <5>10 DEF l, m
      <4> QED
        BY <3>1, <4>1, <4>5, <4>6
    <3> QED
      BY <3>2, <3>3
  <2>15. \A n \in Nat : n \in T
    <3> HIDE DEF T
    <3> QED
      BY <2>14, StrongInduction
  <2>16. f[L] = Tree(leaves, 0, old) /\ g[L] = Tree(leaves, 0, new)
    <3>1. new \in 1..new /\ old - 0 = old
      BY <2>1, <2>13
    <3>3. new \in T
      <4> HIDE DEF T
      <4> QED
        BY <2>13, <2>15
    <3>2. Prefix(s[new][0])
      BY <2>5, <2>12
    <3> HIDE DEF Prefix
    <3> QED
      BY <2>1, <2>4, <2>9, <3>1, <3>2, <3>3 DEF L
  <2>17. proof # <<>>
    <3>1. Len(proof) # 0
      BY <2>6, <2>8, <2>13
    <3> QED
      BY <3>1
  <2>18. Len(proof) = start + Inner(old, new) + Border(old, new)
    <3>1. Border(old, new) \in Nat /\ L = Inner(old, new) + Border(old, new)
      BY <2>6, BitsFinite DEF Border, Levels
    <3> QED
      BY <2>6, <2>8, <2>13, <3>1
  <2> DEFINE rootNew == Tree(leaves, 0, new)
  <2>19. VerifyConsistency(old, new, proof, Tree(leaves, 0, old), rootNew)
    <3>0. seed = IF IsKnown(old) THEN Tree(leaves, 0, old) ELSE proof[1]
      OBVIOUS
    <3> HIDE DEF rootNew, seed, Prefix, T
    <3>1. /\ Climb(seed, proof, start, lefts, FALSE) = Tree(leaves, 0, old)
          /\ Climb(seed, proof, start, lefts, TRUE) = rootNew
          /\ old \in 1..new
      <4>1. old \in 1..new
        BY <2>1, <2>13
      <4>2. Climb(seed, proof, start, lefts, FALSE) = Tree(leaves, 0, old)
        BY <2>11, <2>16, Zenon
      <4>3. Climb(seed, proof, start, lefts, TRUE) = rootNew
        BY <2>11, <2>16, Zenon DEF rootNew
      <4> QED
        BY <4>1, <4>2, <4>3
    <3> QED
      BY <1>1, <2>17, <2>18, <3>0, <3>1, VerifyIs DEF start, lefts
  <2> QED
    BY <2>19 DEF Root, new, proof
<1> QED
  BY <1>0, <1>1
=============================================================================
