--------------------------- MODULE ContentProofs ---------------------------
(***************************************************************************)
(* Proofs about Content: whatever the size of the file and the writes, the *)
(* blocks stay sorted and apart, a read is a hit exactly if all its bytes  *)
(* are known, and it returns what was written last, but for the bytes that *)
(* the copy order of flatten gets wrong.                                   *)
(*                                                                         *)
(* MergeSteps unrolls the fold of flatten into a sequence of lists, one    *)
(* per block; FlattenFacts is by induction along that sequence.            *)
(***************************************************************************)
EXTENDS Content, Naturals, SequencesExt, SequenceTheorems, WellFoundedInduction, TLAPS

-----------------------------------------------------------------------------
(* Sequences and induction on the natural numbers.                         *)

(* Dropping the first r elements keeps the others. *)
LEMMA DropFacts ==
    ASSUME NEW S, NEW s \in Seq(S), NEW r \in 0..Len(s)
    PROVE  /\ SubSeq(s, r + 1, Len(s)) \in Seq(S)
           /\ Len(SubSeq(s, r + 1, Len(s))) = Len(s) - r
           /\ \A i \in DOMAIN SubSeq(s, r + 1, Len(s)) :
                r + i \in DOMAIN s /\ SubSeq(s, r + 1, Len(s))[i] = s[r + i]
<1> DEFINE d == SubSeq(s, r + 1, Len(s))
<1>1. /\ d \in Seq(S) /\ Len(d) = Len(s) - r
      /\ \A i \in 1..(Len(s) - r) : d[i] = s[r + i]
  OBVIOUS
<1> HIDE DEF d
<1>2. DOMAIN d = 1..(Len(s) - r) /\ DOMAIN s = 1..Len(s) /\ Len(s) \in Nat
  BY <1>1
<1>3. \A i \in 1..(Len(s) - r) : r + i \in 1..Len(s)
  BY <1>2
<1>4. QED
  BY <1>1, <1>2, <1>3 DEF d

(* The order of the natural numbers is well-founded. *)
LEMMA LessThan ==
    \E R : IsWellFoundedOn(R, Nat) /\ \A x, y \in Nat : <<x, y>> \in R <=> x < y
<1> DEFINE R == OpToRel(<, Nat)
<1>1. IsWellFoundedOn(R, Nat)
  BY NatLessThanWellFounded
<1>2. \A x, y \in Nat : <<x, y>> \in R <=> x < y
  BY DEF OpToRel
<1> HIDE DEF R
<1>3. QED
  BY <1>1, <1>2

(* A set of natural numbers has a least element. *)
LEMMA LeastNatural ==
    ASSUME NEW S, S \subseteq Nat, S # {}
    PROVE  \E m \in S : \A k \in S : m <= k
<1>1. PICK R : IsWellFoundedOn(R, Nat) /\ \A x, y \in Nat : <<x, y>> \in R <=> x < y
  BY LessThan
<1>2. PICK m \in S : \A k \in S : ~ (<<k, m>> \in R)
  <2>1. IsWellFoundedOn(R, Nat) /\ S \subseteq Nat /\ S # {}
    BY <1>1
  <2>2. QED
    BY <2>1, WFMin, Zenon
<1>3. ASSUME NEW k \in S PROVE m <= k
  <2>1. k \in Nat /\ m \in Nat /\ ~(k < m)
    BY <1>1, <1>2
  <2>2. QED
    BY <2>1
<1>4. QED
  BY <1>3

(* Induction on the natural numbers, for a set: the numbers of which something holds. *)
LEMMA InductionOnSet ==
    ASSUME NEW S, \A n \in Nat : (\A m \in Nat : m < n => m \in S) => n \in S
    PROVE  Nat \subseteq S
<1> DEFINE T == Nat \ S
<1>1. SUFFICES ASSUME T # {} PROVE FALSE
  OBVIOUS
<1> HIDE DEF T
<1>2. PICK n \in T : \A k \in T : n <= k
  BY <1>1, LeastNatural DEF T
<1>3. ASSUME NEW m \in Nat, m < n PROVE m \in S
  <2>1. ~(n <= m) /\ n \in Nat
    BY <1>3 DEF T
  <2>2. QED
    BY <1>2, <2>1 DEF T
<1>4. QED
  BY <1>2, <1>3 DEF T

-----------------------------------------------------------------------------
\* Block b has the byte at offset p, and which.
Has(b, p) == b.start <= p /\ p < End(b)
ByteAt(b, p) == b.content[p - b.start + 1]

\* Blocks of a file of at most Size bytes.
FileBlocks == {b \in Blocks : End(b) <= Size}

\* What a list of blocks says of the byte at p.
Knows(bs, p) == \E k \in DOMAIN bs : Has(bs[k], p)
Shows(bs, p, v) == \E k \in DOMAIN bs : Has(bs[k], p) /\ v = ByteAt(bs[k], p)

Apart(bs) == \A j, k \in DOMAIN bs : j < k => End(bs[j]) < bs[k].start
Sorted(bs) == \A j, k \in DOMAIN bs : j < k => bs[j].start <= bs[k].start

\* One step of the loop of Content::flatten.
Joined(done, n) ==
    IF done # <<>> /\ Touch(Last(done), n)
    THEN Append(Front(done), Merge(Last(done), n))
    ELSE Append(done, n)

-----------------------------------------------------------------------------
(* Least and largest elements, and the fold.                               *)

(* A set of natural numbers with a bound has a largest element. *)
LEMMA MaxFacts ==
    ASSUME NEW n \in Nat, NEW S, S \subseteq 0..n, S # {}
    PROVE  Max(S) \in S /\ Max(S) \in Nat /\ \A x \in S : x <= Max(S)
<1> DEFINE T == {k \in Nat : \A x \in S : x <= k}
<1>1. n \in T
  OBVIOUS
<1>2. PICK m \in T : \A k \in T : m <= k
  <2> HIDE DEF T
  <2>1. T # {}
    BY <1>1
  <2>2. T \subseteq Nat
    BY DEF T
  <2>3. QED
    BY <2>1, <2>2, LeastNatural
<1>3. m \in S
  <2>1. SUFFICES ASSUME m \notin S PROVE FALSE
    OBVIOUS
  <2>2. PICK y \in S : TRUE
    OBVIOUS
  <2>3. y \in Nat /\ y <= m /\ y # m /\ m \in Nat
    BY <1>2, <2>1
  <2>4. m - 1 \in Nat
    BY <2>3
  <2>5. ASSUME NEW x \in S PROVE x <= m - 1
    <3>1. x \in Nat /\ x <= m /\ x # m
      BY <1>2, <2>1
    <3>2. QED
      BY <2>3, <3>1
  <2>6. m - 1 \in T
    BY <2>4, <2>5
  <2>7. QED
    BY <1>2, <2>3, <2>4, <2>6
<1>4. \A x \in S : m >= x
  BY <1>2
<1>5. Max(S) \in S /\ \A x \in S : Max(S) >= x
  BY <1>3, <1>4 DEF Max
<1> DEFINE largest == Max(S)
<1>6. largest \in S /\ \A x \in S : largest >= x
  BY <1>5
<1> HIDE DEF largest
<1>7. largest \in Nat /\ \A x \in S : x \in Nat
  BY <1>6
<1>8. \A x \in S : x <= largest
  BY <1>6, <1>7
<1>9. QED
  BY <1>6, <1>7, <1>8 DEF largest

(* The smallest of a set, and the larger of two numbers. *)
LEMMA MinFacts ==
    ASSUME NEW S, S \subseteq Nat, S # {}
    PROVE  Min(S) \in S /\ \A x \in S : Min(S) <= x
<1>1. \E m \in S : \A x \in S : m <= x
  BY LeastNatural
<1>2. QED
  BY <1>1 DEF Min

LEMMA MaxOfTwo ==
    ASSUME NEW a \in Nat, NEW b \in Nat
    PROVE  Max({a, b}) = IF a >= b THEN a ELSE b
BY DEF Max

(* FoldLeft goes through the set of indices from the largest on; there is a function that *)
(* does so. *)
LEMMA FoldExists ==
    ASSUME NEW bs \in Seq(Blocks)
    PROVE  \E f :
             /\ f = [s \in SUBSET DOMAIN bs |->
                        IF s = {} THEN <<>> ELSE Joined(f[s \ {Max(s)}], bs[Max(s)])]
             /\ MergeTouching(bs) = f[DOMAIN bs]
<1> DEFINE Step(f, s) == IF s = {} THEN <<>> ELSE Joined(f[s \ {Max(s)}], bs[Max(s)])
           Is(f, n) == f = [s \in SUBSET (1..n) |-> Step(f, s)]
           N == {n \in Nat : \E f : Is(f, n)}
<1>1. ASSUME NEW n \in Nat, \A m \in Nat : m < n => m \in N PROVE n \in N
  <2>1. CASE n = 0
    <3> DEFINE f == [s \in SUBSET (1..n) |-> <<>>]
    <3>1. \A s \in SUBSET (1..n) : s = {}
      BY <2>1
    <3>2. Is(f, n)
      BY <3>1
    <3>3. QED
      BY <3>2
  <2>2. CASE n # 0
    <3>1. PICK g : Is(g, n - 1)
      <4>1. n - 1 \in Nat /\ n - 1 < n
        BY <2>2
      <4>2. n - 1 \in N
        <5> HIDE DEF N
        <5>1. QED
          BY <1>1, <4>1
      <4> HIDE DEF Is
      <4>3. QED
        BY <4>2
    <3> DEFINE f == [s \in SUBSET (1..n) |-> IF n \in s THEN Joined(g[s \ {n}], bs[n]) ELSE g[s]]
    <3>2. ASSUME NEW s \in SUBSET (1..n) PROVE f[s] = Step(f, s)
      <4>1. CASE s = {}
        <5>1. {} \in SUBSET (1..(n - 1)) /\ {} \in SUBSET (1..n)
          OBVIOUS
        <5>2. g[{}] = Step(g, {})
          <6> HIDE DEF Step
          <6>1. QED
            BY <3>1, <5>1
        <5>3. f[{}] = g[{}]
          BY <5>1
        <5>4. QED
          BY <4>1, <5>2, <5>3
      <4>2. CASE s # {}
        <5>1. s \subseteq 0..n
          OBVIOUS
        <5>2. Max(s) \in s /\ \A x \in s : x <= Max(s)
          BY <4>2, <5>1, MaxFacts
        <5>3. CASE n \in s
          <6> DEFINE m == Max(s)
          <6>0. m \in s /\ n <= m
            BY <5>2, <5>3
          <6> HIDE DEF m
          <6>a. m = n
            BY <5>1, <6>0
          <6>1. Max(s) = n
            BY <6>a DEF m
          <6>2. s \ {n} \in SUBSET (1..n) /\ n \notin s \ {n}
            OBVIOUS
          <6>3. f[s \ {n}] = g[s \ {n}]
            BY <6>2
          <6>4. QED
            BY <4>2, <5>3, <6>1, <6>3
        <5>4. CASE n \notin s
          <6>1. s \in SUBSET (1..(n - 1))
            BY <5>4
          <6>2. s \ {Max(s)} \in SUBSET (1..n) /\ n \notin s \ {Max(s)}
            BY <5>4
          <6>3. f[s] = g[s] /\ f[s \ {Max(s)}] = g[s \ {Max(s)}]
            BY <5>4, <6>2
          <6>4. g[s] = Step(g, s)
            <7> HIDE DEF Step
            <7>1. QED
              BY <3>1, <6>1
          <6>5. QED
            BY <4>2, <6>3, <6>4
        <5>5. QED
          BY <5>3, <5>4
      <4>3. QED
        BY <4>1, <4>2
    <3>3. f = [s \in SUBSET (1..n) |-> f[s]]
      OBVIOUS
    <3> HIDE DEF f, Step
    <3>4. [s \in SUBSET (1..n) |-> f[s]] = [s \in SUBSET (1..n) |-> Step(f, s)]
      BY <3>2
    <3>5. Is(f, n)
      BY <3>3, <3>4
    <3>6. QED
      BY <3>5
  <2>3. QED
    BY <2>1, <2>2
<1>2. Len(bs) \in Nat /\ DOMAIN bs = 1..Len(bs)
  OBVIOUS
<1>3. Nat \subseteq N
  <2> HIDE DEF N
  <2>1. QED
    BY <1>1, InductionOnSet
<1>4. PICK f : Is(f, Len(bs))
  <2> HIDE DEF Is
  <2>1. QED
    BY <1>2, <1>3
<1> DEFINE g == CHOOSE h : Is(h, Len(bs))
<1>5. Is(g, Len(bs))
  <2> HIDE DEF Is
  <2>1. QED
    BY <1>4
<1>6. MergeTouching(bs) = (CHOOSE h : h = [s \in SUBSET DOMAIN bs |-> Step(h, s)])[DOMAIN bs]
  BY Zenon DEF MergeTouching, FoldLeft, MapThenFoldSet, Joined
<1>7. MergeTouching(bs) = g[DOMAIN bs]
  BY <1>2, <1>6
<1>8. QED
  BY <1>2, <1>5, <1>7

(* So flatten merges block by block. *)
LEMMA MergeSteps ==
    ASSUME NEW bs \in Seq(Blocks)
    PROVE  \E d : /\ d[0] = <<>>
                  /\ \A k \in 1..Len(bs) : d[k] = Joined(d[k - 1], bs[k])
                  /\ MergeTouching(bs) = d[Len(bs)]
<1>1. Len(bs) \in Nat /\ DOMAIN bs = 1..Len(bs)
  OBVIOUS
<1> DEFINE Step(f, s) == IF s = {} THEN <<>> ELSE Joined(f[s \ {Max(s)}], bs[Max(s)])
<1>0. PICK f :
         f = [s \in SUBSET DOMAIN bs |-> Step(f, s)] /\ MergeTouching(bs) = f[DOMAIN bs]
  BY FoldExists
<1>2. ASSUME NEW s \in SUBSET DOMAIN bs PROVE f[s] = Step(f, s)
  <2> HIDE DEF Step
  <2>1. QED
    BY <1>0
<1> DEFINE d == [k \in 0..Len(bs) |-> f[1..k]]
<1>3. d[0] = <<>>
  <2>1. 1..0 = {} /\ {} \in SUBSET DOMAIN bs /\ 0 \in 0..Len(bs)
    BY <1>1
  <2>2. f[{}] = <<>>
    BY <1>2, <2>1
  <2>3. QED
    BY <2>1, <2>2
<1>4. ASSUME NEW k \in 1..Len(bs) PROVE d[k] = Joined(d[k - 1], bs[k])
  <2>a. k \in Nat /\ k \in 1..k /\ 1..k \subseteq 1..Len(bs)
    BY <1>1
  <2>1. 1..k \in SUBSET DOMAIN bs /\ 1..k # {} /\ 1..k \subseteq 0..k /\ k \in Nat
    BY <1>1, <2>a
  <2> DEFINE m == Max(1..k)
  <2>2. m \in 1..k /\ k <= m
    BY <2>1, <2>a, MaxFacts
  <2> HIDE DEF m
  <2>b. m = k /\ (1..k) \ {k} = 1..(k - 1)
    BY <2>a, <2>2
  <2>3. Max(1..k) = k /\ (1..k) \ {k} = 1..(k - 1)
    BY <2>b DEF m
  <2>4. f[1..k] = Joined(f[(1..k) \ {Max(1..k)}], bs[Max(1..k)])
    BY <1>2, <2>1
  <2>5. f[1..k] = Joined(f[1..(k - 1)], bs[k])
    BY <2>3, <2>4
  <2>6. k \in 0..Len(bs) /\ k - 1 \in 0..Len(bs)
    BY <1>1
  <2>7. QED
    BY <2>5, <2>6
<1>5. MergeTouching(bs) = d[Len(bs)]
  BY <1>0, <1>1
<1>6. QED
  BY <1>3, <1>4, <1>5

-----------------------------------------------------------------------------
(* Blocks.                                                                 *)

LEMMA BlockFacts ==
    ASSUME NEW b \in Blocks
    PROVE  /\ b = [start |-> b.start, content |-> b.content]
           /\ b.start \in Nat
           /\ b.start \in Offsets
           /\ Len(b.content) \in Nat \ {0}
           /\ Len(b.content) <= Size
           /\ b.content \in [1..Len(b.content) -> Bytes]
           /\ End(b) \in Nat
           /\ b.start < End(b)
<1>1. b.start \in Offsets /\ b = [start |-> b.start, content |-> b.content]
  BY DEF Blocks
<1>2. PICK m \in 1..Size : b.content \in [1..m -> Bytes]
  BY DEF Blocks
<1>3. Size \in Nat
  BY ConstantsAssumption
<1>4. m \in Nat /\ Len(b.content) = m
  BY <1>2, <1>3
<1>5. b.start \in Nat
  BY <1>1, <1>3 DEF Offsets
<1>6. QED
  BY <1>1, <1>2, <1>3, <1>4, <1>5 DEF End

LEMMA MakeBlock ==
    ASSUME NEW a \in Nat, NEW m \in Nat \ {0}, a + m <= Size, NEW c \in [1..m -> Bytes]
    PROVE  /\ [start |-> a, content |-> c] \in FileBlocks
           /\ Len(c) = m
           /\ End([start |-> a, content |-> c]) = a + m
<1>1. Size \in Nat
  BY ConstantsAssumption
<1>2. a \in Offsets /\ m \in 1..Size
  BY <1>1 DEF Offsets
<1>3. Len(c) = m
  OBVIOUS
<1>4. [start |-> a, content |-> c] \in Blocks
  BY <1>2 DEF Blocks
<1>5. End([start |-> a, content |-> c]) = a + m
  BY <1>3 DEF End
<1>6. QED
  BY <1>3, <1>4, <1>5 DEF FileBlocks

(* Merging a block with one that touches it: the bytes of both, and the bytes of the *)
(* second one where both have some. *)
LEMMA MergeFacts ==
    ASSUME NEW b \in FileBlocks, NEW n \in FileBlocks, b.start <= n.start, Touch(b, n)
    PROVE  /\ Merge(b, n) \in FileBlocks
           /\ Merge(b, n).start = b.start
           /\ End(Merge(b, n)) = IF End(b) >= End(n) THEN End(b) ELSE End(n)
           /\ \A p \in Nat : Has(Merge(b, n), p) <=> Has(b, p) \/ Has(n, p)
           /\ \A p \in Nat : Has(n, p) => ByteAt(Merge(b, n), p) = ByteAt(n, p)
           /\ \A p \in Nat : Has(b, p) /\ ~Has(n, p) =>
                ByteAt(Merge(b, n), p) = ByteAt(b, p)
<1> DEFINE lb == Len(b.content)
           ln == Len(n.content)
           off == n.start - b.start
           m == IF lb >= off + ln THEN lb ELSE off + ln
           c == [k \in 1..m |-> IF k > off /\ k <= off + ln
                                THEN n.content[k - off] ELSE b.content[k]]
<1>1. /\ b.start \in Nat /\ lb \in Nat \ {0} /\ b.content \in [1..lb -> Bytes]
      /\ n.start \in Nat /\ ln \in Nat \ {0} /\ n.content \in [1..ln -> Bytes]
      /\ b \in Blocks /\ n \in Blocks
  BY BlockFacts DEF FileBlocks
<1>2. End(b) = b.start + lb /\ End(n) = n.start + ln /\ End(b) <= Size /\ End(n) <= Size
  BY DEF End, FileBlocks
<1>3. b.start + lb >= n.start /\ b.start <= n.start
  BY <1>2 DEF Touch
<1>4. Size \in Nat
  BY ConstantsAssumption
<1> HIDE DEF lb, ln
<1>5. off \in Nat /\ off <= lb /\ m \in Nat \ {0} /\ b.start + m <= Size
  BY <1>1, <1>2, <1>3, <1>4
<1>6. Max({lb, off + ln}) = m
  <2>1. off + ln \in Nat /\ lb \in Nat
    BY <1>1, <1>5
  <2>2. QED
    BY <2>1, MaxOfTwo
<1>7. Merge(b, n) = [start |-> b.start, content |-> c]
  <2>1. Overlay(b, n) = [k \in 1..Max({lb, off + ln}) |->
            IF k > off /\ k <= off + ln THEN n.content[k - off] ELSE b.content[k]]
    BY DEF Overlay, lb, ln
  <2>2. Overlay(b, n) = c
    BY <1>6, <2>1
  <2>3. QED
    BY <2>2 DEF Merge
<1>8. c \in [1..m -> Bytes]
  <2>1. ASSUME NEW k \in 1..m
        PROVE (IF k > off /\ k <= off + ln THEN n.content[k - off] ELSE b.content[k]) \in Bytes
    <3>1. CASE k > off /\ k <= off + ln
      <4>1. k - off \in 1..ln
        BY <1>1, <1>5, <3>1
      <4>2. QED
        BY <1>1, <3>1, <4>1
    <3>2. CASE ~(k > off /\ k <= off + ln)
      <4>1. k \in 1..lb
        BY <1>1, <1>5, <3>2
      <4>2. QED
        BY <1>1, <3>2, <4>1
    <3>3. QED
      BY <3>1, <3>2
  <2>2. QED
    BY <2>1
<1>9. \A k \in 1..m : c[k] = IF k > off /\ k <= off + ln THEN n.content[k - off]
                             ELSE b.content[k]
  OBVIOUS
<1> HIDE DEF c, m
<1>10. /\ Merge(b, n) \in FileBlocks
       /\ Merge(b, n).start = b.start
       /\ Merge(b, n).content = c
       /\ End(Merge(b, n)) = b.start + m
  BY <1>1, <1>5, <1>7, <1>8, MakeBlock
<1>11. b.start + m = IF End(b) >= End(n) THEN End(b) ELSE End(n)
  BY <1>1, <1>2, <1>5 DEF m
<1>12. ASSUME NEW p \in Nat
       PROVE Has(Merge(b, n), p) <=> Has(b, p) \/ Has(n, p)
  BY <1>1, <1>2, <1>3, <1>10, <1>11 DEF Has
<1>13. ASSUME NEW p \in Nat, Has(n, p)
       PROVE ByteAt(Merge(b, n), p) = ByteAt(n, p)
  <2>1. n.start <= p /\ p < n.start + ln
    BY <1>2, <1>13 DEF Has
  <2> DEFINE q == p - b.start + 1
  <2>2. b.start \in Nat /\ n.start \in Nat /\ lb \in Nat /\ ln \in Nat /\ b.start <= n.start
    BY <1>1, <1>3
  <2>7. q \in Nat /\ q > off /\ q <= off + ln /\ q - off = p - n.start + 1
    BY <2>1, <2>2
  <2>8. off + ln <= m /\ m \in Nat
    BY <1>5, <2>2 DEF m
  <2>3. q \in 1..m /\ q > off /\ q <= off + ln /\ q - off = p - n.start + 1
    <3> HIDE DEF q
    <3>1. q \in 1..m
      BY <1>5, <2>2, <2>7, <2>8
    <3>2. QED
      BY <2>7, <3>1
  <2> HIDE DEF q, off
  <2>5. c[q] = n.content[q - off]
    BY <1>9, <2>3
  <2>6. c[p - b.start + 1] = n.content[p - n.start + 1]
    BY <2>3, <2>5 DEF q
  <2>4. QED
    BY <1>10, <2>6 DEF ByteAt
<1>14. ASSUME NEW p \in Nat, Has(b, p), ~Has(n, p)
       PROVE ByteAt(Merge(b, n), p) = ByteAt(b, p)
  <2>1. b.start <= p /\ p < b.start + lb /\ ~(n.start <= p /\ p < n.start + ln)
    BY <1>2, <1>14 DEF Has
  <2>2. /\ p - b.start + 1 \in 1..m
        /\ ~(p - b.start + 1 > off /\ p - b.start + 1 <= off + ln)
    BY <1>1, <1>3, <2>1 DEF m
  <2>3. c[p - b.start + 1] = b.content[p - b.start + 1]
    BY <1>9, <2>2
  <2>4. QED
    BY <1>10, <2>3 DEF ByteAt
<1>15. QED
  BY <1>10, <1>11, <1>12, <1>13, <1>14

-----------------------------------------------------------------------------
(* Lists of blocks.                                                        *)

(* One step of the loop: the list stays apart, the new bytes win. *)
LEMMA JoinFacts ==
    ASSUME NEW d \in Seq(FileBlocks), NEW n \in FileBlocks,
           Apart(d), \A k \in DOMAIN d : d[k].start <= n.start
    PROVE  /\ Joined(d, n) \in Seq(FileBlocks)
           /\ Apart(Joined(d, n))
           /\ \A k \in DOMAIN Joined(d, n) : Joined(d, n)[k].start <= n.start
           /\ \A p \in Nat : Knows(Joined(d, n), p) <=> Knows(d, p) \/ Has(n, p)
           /\ \A p \in Nat : \A v : Shows(Joined(d, n), p, v) =>
                IF Has(n, p) THEN v = ByteAt(n, p) ELSE Shows(d, p, v)
<1>1. Len(d) \in Nat /\ DOMAIN d = 1..Len(d)
  OBVIOUS
<1>2. \A k \in DOMAIN d : d[k] \in FileBlocks
  OBVIOUS
<1>3. \A b \in FileBlocks : b.start \in Nat /\ End(b) \in Nat /\ b.start < End(b)
  BY BlockFacts DEF FileBlocks
<1>4. \A j, k \in DOMAIN d : j < k => End(d[j]) < d[k].start
  BY DEF Apart
<1>5. CASE d # <<>> /\ Touch(Last(d), n)
  <2> DEFINE l == Len(d)
             b == d[l]
             g == Merge(b, n)
             e == Append(Front(d), g)
  <2>1. Joined(d, n) = e /\ l \in DOMAIN d /\ l \in Nat \ {0} /\ b \in FileBlocks
    BY <1>1, <1>2, <1>5 DEF Joined, Last
  <2>2. b.start <= n.start /\ Touch(b, n)
    BY <1>5, <2>1 DEF Last
  <2>3. /\ g \in FileBlocks /\ g.start = b.start
        /\ \A p \in Nat : Has(g, p) <=> Has(b, p) \/ Has(n, p)
        /\ \A p \in Nat : Has(n, p) => ByteAt(g, p) = ByteAt(n, p)
        /\ \A p \in Nat : Has(b, p) /\ ~Has(n, p) => ByteAt(g, p) = ByteAt(b, p)
    BY <2>1, <2>2, MergeFacts
  <2> HIDE DEF g
  <2>4. /\ Front(d) \in Seq(FileBlocks) /\ Len(Front(d)) = l - 1
        /\ \A k \in 1..(l - 1) : Front(d)[k] = d[k]
    BY <1>1, <2>1 DEF Front
  <2>5. /\ e \in Seq(FileBlocks) /\ DOMAIN e = DOMAIN d /\ e[l] = g
        /\ \A k \in DOMAIN d : k # l => e[k] = d[k]
    <3>1. e \in Seq(FileBlocks) /\ Len(e) = l /\ e[l] = g
      BY <2>1, <2>3, <2>4
    <3>2. \A k \in 1..(l - 1) : e[k] = d[k]
      BY <2>1, <2>3, <2>4
    <3>3. \A k \in DOMAIN d : k # l => k \in 1..(l - 1)
      BY <1>1, <2>1
    <3> HIDE DEF e
    <3>4. DOMAIN e = DOMAIN d
      BY <1>1, <3>1
    <3>5. QED
      BY <3>1, <3>2, <3>3, <3>4
  <2> HIDE DEF e
  <2>6. \A j \in DOMAIN d : j # l => j < l /\ End(d[j]) < b.start
    BY <1>1, <1>4, <2>1
  <2>7. Apart(e)
    <3>1. SUFFICES ASSUME NEW j \in DOMAIN d, NEW k \in DOMAIN d, j < k
                   PROVE End(e[j]) < e[k].start
      BY <2>5 DEF Apart
    <3>2. j # l
      BY <1>1, <3>1
    <3>3. e[j] = d[j] /\ End(d[j]) < d[k].start
      BY <1>4, <2>5, <3>1, <3>2
    <3>4. e[k].start = d[k].start
      BY <2>3, <2>5
    <3>5. QED
      BY <3>3, <3>4
  <2>8. ASSUME NEW k \in DOMAIN e PROVE e[k].start <= n.start
    <3>1. e[k].start = d[k].start
      BY <2>3, <2>5
    <3>2. QED
      BY <2>5, <3>1
  <2>9. ASSUME NEW p \in Nat PROVE Knows(e, p) <=> Knows(d, p) \/ Has(n, p)
    <3>1. Knows(e, p) => Knows(d, p) \/ Has(n, p)
      <4>1. SUFFICES ASSUME NEW k \in DOMAIN d, Has(e[k], p), ~Has(n, p) PROVE Has(d[k], p)
        BY <2>5 DEF Knows
      <4>2. QED
        BY <2>3, <2>5, <4>1
    <3>2. Knows(d, p) => Knows(e, p)
      <4>1. SUFFICES ASSUME NEW k \in DOMAIN d, Has(d[k], p) PROVE Has(e[k], p)
        BY <2>5 DEF Knows
      <4>2. QED
        BY <2>3, <2>5, <4>1
    <3>3. Has(n, p) => Knows(e, p)
      BY <2>1, <2>3, <2>5 DEF Knows
    <3>4. QED
      BY <3>1, <3>2, <3>3
  <2>10. ASSUME NEW p \in Nat, NEW v, Shows(e, p, v)
         PROVE IF Has(n, p) THEN v = ByteAt(n, p) ELSE Shows(d, p, v)
    <3>1. PICK k \in DOMAIN d : Has(e[k], p) /\ v = ByteAt(e[k], p)
      BY <2>5, <2>10 DEF Shows
    <3>2. CASE k = l
      <4>1. CASE Has(n, p)
        BY <2>3, <2>5, <3>1, <3>2, <4>1
      <4>2. CASE ~Has(n, p)
        <5>1. Has(b, p) /\ v = ByteAt(b, p)
          BY <2>3, <2>5, <3>1, <3>2, <4>2
        <5>2. Shows(d, p, v)
          BY <2>1, <5>1 DEF Shows
        <5>3. QED
          BY <4>2, <5>2
      <4>3. QED
        BY <4>1, <4>2
    <3>3. CASE k # l
      <4>1. Has(d[k], p) /\ v = ByteAt(d[k], p)
        BY <2>5, <3>1, <3>3
      <4>2. ~Has(n, p)
        <5>1. End(d[k]) < b.start
          BY <2>6, <3>3
        <5>2. p < End(d[k]) /\ End(d[k]) \in Nat /\ b.start \in Nat /\ n.start \in Nat
          BY <1>2, <1>3, <2>1, <4>1 DEF Has
        <5>3. ~(n.start <= p)
          BY <2>2, <5>1, <5>2
        <5>4. QED
          BY <5>3 DEF Has
      <4>3. Shows(d, p, v)
        BY <4>1 DEF Shows
      <4>4. QED
        BY <4>2, <4>3
    <3>4. QED
      BY <3>2, <3>3
  <2>11. QED
    BY <2>1, <2>5, <2>7, <2>8, <2>9, <2>10
<1>6. CASE ~(d # <<>> /\ Touch(Last(d), n))
  <2> DEFINE l == Len(d)
             e == Append(d, n)
  <2>1. Joined(d, n) = e
    BY <1>6 DEF Joined
  <2>2. /\ e \in Seq(FileBlocks) /\ Len(e) = l + 1 /\ e[l + 1] = n
        /\ DOMAIN e = 1..(l + 1)
        /\ \A k \in DOMAIN d : e[k] = d[k]
    BY <1>1
  <2>3. \A k \in DOMAIN e : k \in DOMAIN d \/ k = l + 1
    BY <1>1, <2>2
  <2>4. l + 1 \in DOMAIN e /\ \A k \in DOMAIN d : k \in DOMAIN e /\ k < l + 1 /\ k \in Nat
    BY <1>1, <2>2
  <2> HIDE DEF e
  <2>5. ASSUME NEW j \in DOMAIN d PROVE End(d[j]) < n.start
    <3>1. l \in DOMAIN d /\ d # <<>>
      BY <1>1
    <3>2. ~(End(d[l]) >= n.start)
      BY <1>6, <3>1 DEF Last, Touch
    <3>3. End(d[l]) < n.start
      BY <1>2, <1>3, <3>1, <3>2
    <3>4. CASE j = l
      BY <3>3, <3>4
    <3>5. CASE j # l
      <4>1. j < l
        BY <1>1, <3>5
      <4>2. End(d[j]) < d[l].start
        BY <1>4, <3>1, <4>1
      <4>3. /\ End(d[j]) \in Nat /\ d[l].start \in Nat /\ End(d[l]) \in Nat /\ n.start \in Nat
            /\ d[l].start < End(d[l])
        BY <1>2, <1>3, <3>1
      <4>4. QED
        BY <3>3, <4>2, <4>3
    <3>6. QED
      BY <3>4, <3>5
  <2>6. Apart(e)
    <3>1. SUFFICES ASSUME NEW j \in DOMAIN e, NEW k \in DOMAIN e, j < k
                   PROVE End(e[j]) < e[k].start
      BY DEF Apart
    <3>2. CASE k = l + 1
      <4>1. j \in DOMAIN d
        BY <1>1, <2>2, <3>1, <3>2
      <4>2. QED
        BY <2>2, <2>5, <3>2, <4>1
    <3>3. CASE k # l + 1
      <4>1. j \in DOMAIN d /\ k \in DOMAIN d
        BY <1>1, <2>2, <3>1, <3>3
      <4>2. QED
        BY <1>4, <2>2, <3>1, <4>1
    <3>4. QED
      BY <3>2, <3>3
  <2>7. ASSUME NEW k \in DOMAIN e PROVE e[k].start <= n.start
    <3>1. n.start \in Nat
      BY <1>3
    <3>2. CASE k = l + 1
      BY <2>2, <3>1, <3>2
    <3>3. CASE k \in DOMAIN d
      BY <2>2, <3>3
    <3>4. QED
      BY <2>3, <3>2, <3>3
  <2>8. ASSUME NEW p \in Nat PROVE Knows(e, p) <=> Knows(d, p) \/ Has(n, p)
    <3>1. Knows(e, p) => Knows(d, p) \/ Has(n, p)
      BY <2>2, <2>3 DEF Knows
    <3>2. Knows(d, p) => Knows(e, p)
      BY <2>2, <2>4 DEF Knows
    <3>3. Has(n, p) => Knows(e, p)
      BY <2>2, <2>4 DEF Knows
    <3>4. QED
      BY <3>1, <3>2, <3>3
  <2>9. ASSUME NEW p \in Nat, NEW v, Shows(e, p, v)
        PROVE IF Has(n, p) THEN v = ByteAt(n, p) ELSE Shows(d, p, v)
    <3>1. PICK k \in DOMAIN e : Has(e[k], p) /\ v = ByteAt(e[k], p)
      BY <2>9 DEF Shows
    <3>2. CASE k = l + 1
      <4>1. e[k] = n
        BY <2>2, <3>2
      <4>2. QED
        BY <3>1, <4>1
    <3>3. CASE k \in DOMAIN d
      <4>1. Has(d[k], p) /\ v = ByteAt(d[k], p)
        BY <2>2, <3>1, <3>3
      <4>2. ~Has(n, p)
        <5>1. End(d[k]) < n.start /\ End(d[k]) \in Nat /\ n.start \in Nat
          BY <1>2, <1>3, <2>5, <3>3
        <5>2. p < End(d[k])
          BY <4>1 DEF Has
        <5>3. ~(n.start <= p)
          BY <5>1, <5>2
        <5>4. QED
          BY <5>3 DEF Has
      <4>3. Shows(d, p, v)
        BY <3>3, <4>1 DEF Shows
      <4>4. QED
        BY <4>2, <4>3
    <3>4. QED
      BY <2>3, <3>2, <3>3
  <2>10. QED
    BY <2>1, <2>2, <2>6, <2>7, <2>8, <2>9
<1>7. QED
  BY <1>5, <1>6

(* flatten: of a sorted list, the blocks it returns are apart, have the same bytes, and *)
(* each byte is that of the last block that has it. *)
LEMMA FlattenFacts ==
    ASSUME NEW s \in Seq(FileBlocks), Sorted(s)
    PROVE  /\ MergeTouching(s) \in Seq(FileBlocks)
           /\ Apart(MergeTouching(s))
           /\ \A p \in Nat : Knows(MergeTouching(s), p) <=> Knows(s, p)
           /\ \A p \in Nat : \A v : Shows(MergeTouching(s), p, v) =>
                \E j \in DOMAIN s : /\ Has(s[j], p) /\ v = ByteAt(s[j], p)
                                    /\ \A i \in DOMAIN s : j < i => ~Has(s[i], p)
<1> DEFINE l == Len(s)
<1>1. l \in Nat /\ DOMAIN s = 1..l /\ \A k \in 1..l : s[k] \in FileBlocks
  OBVIOUS
<1>2. s \in Seq(Blocks)
  <2>1. \A k \in 1..l : s[k] \in Blocks
    BY <1>1 DEF FileBlocks
  <2>2. QED
    BY <1>1, <2>1
<1>3. PICK d : /\ d[0] = <<>>
               /\ \A k \in 1..l : d[k] = Joined(d[k - 1], s[k])
               /\ MergeTouching(s) = d[l]
  BY <1>2, MergeSteps
<1> HIDE DEF l
<1> DEFINE Listed(k) ==
             /\ d[k] \in Seq(FileBlocks)
             /\ Apart(d[k])
             /\ \A i \in DOMAIN d[k] : \A j \in (k + 1)..l : d[k][i].start <= s[j].start
           Known(k) == \A p \in Nat : Knows(d[k], p) <=> \E j \in 1..k : Has(s[j], p)
           Shown(k) == \A p \in Nat : \A v : Shows(d[k], p, v) =>
                         \E j \in 1..k : /\ Has(s[j], p) /\ v = ByteAt(s[j], p)
                                         /\ \A i \in 1..k : j < i => ~Has(s[i], p)
           N == {k \in Nat : k <= l => Listed(k) /\ Known(k) /\ Shown(k)}
<1>4. 0 \in N
  <2>1. <<>> \in Seq(FileBlocks) /\ DOMAIN <<>> = {}
    OBVIOUS
  <2>2. Listed(0)
    BY <1>3, <2>1 DEF Apart
  <2>3. \A p : ~Knows(d[0], p) /\ \A v : ~Shows(d[0], p, v)
    BY <1>3, <2>1 DEF Knows, Shows
  <2>4. 1..0 = {}
    OBVIOUS
  <2>5. Known(0) /\ Shown(0)
    BY <2>3, <2>4
  <2>6. QED
    BY <2>2, <2>5
<1>5. ASSUME NEW k \in 1..l, Listed(k - 1), Known(k - 1), Shown(k - 1)
      PROVE Listed(k) /\ Known(k) /\ Shown(k)
  <2>1. k \in Nat /\ k - 1 \in Nat /\ k - 1 + 1 = k /\ k \in k..l /\ s[k] \in FileBlocks
    BY <1>1
  <2>2. /\ d[k - 1] \in Seq(FileBlocks) /\ Apart(d[k - 1])
        /\ \A i \in DOMAIN d[k - 1] : d[k - 1][i].start <= s[k].start
    BY <1>5, <2>1
  <2> DEFINE e == Joined(d[k - 1], s[k])
  <2>3. d[k] = e
    BY <1>3
  <2>4. /\ e \in Seq(FileBlocks) /\ Apart(e)
        /\ \A i \in DOMAIN e : e[i].start <= s[k].start
        /\ \A p \in Nat : Knows(e, p) <=> Knows(d[k - 1], p) \/ Has(s[k], p)
        /\ \A p \in Nat : \A v : Shows(e, p, v) =>
             IF Has(s[k], p) THEN v = ByteAt(s[k], p) ELSE Shows(d[k - 1], p, v)
    BY <2>1, <2>2, JoinFacts
  <2> HIDE DEF e
  <2>5. \A j \in 1..k : j \in 1..(k - 1) \/ j = k
    BY <2>1
  <2>6. k \in 1..k /\ \A j \in 1..(k - 1) : j \in 1..k /\ j < k /\ ~(k < j)
    BY <2>1
  <2>7. Listed(k)
    <3>1. SUFFICES ASSUME NEW i \in DOMAIN e, NEW j \in (k + 1)..l
                   PROVE e[i].start <= s[j].start
      BY <2>3, <2>4
    <3>2. j \in 1..l /\ k < j
      BY <1>1, <2>1, <3>1
    <3>3. s[k].start <= s[j].start
      BY <1>1, <3>2 DEF Sorted
    <3>4. e[i] \in Blocks /\ s[j] \in Blocks /\ s[k] \in Blocks
      BY <1>1, <2>4, <3>2 DEF FileBlocks
    <3>5. e[i].start \in Nat /\ s[j].start \in Nat /\ s[k].start \in Nat
      BY <3>4, BlockFacts
    <3>6. QED
      BY <2>4, <3>3, <3>5
  <2>8. Known(k)
    <3>1. SUFFICES ASSUME NEW p \in Nat
                   PROVE Knows(e, p) <=> \E j \in 1..k : Has(s[j], p)
      BY <2>3
    <3>2. Knows(d[k - 1], p) <=> \E j \in 1..(k - 1) : Has(s[j], p)
      BY <1>5
    <3>3. QED
      BY <2>4, <2>5, <2>6, <3>2
  <2>9. Shown(k)
    <3>1. SUFFICES ASSUME NEW p \in Nat, NEW v, Shows(e, p, v)
                   PROVE \E j \in 1..k : /\ Has(s[j], p) /\ v = ByteAt(s[j], p)
                                         /\ \A i \in 1..k : j < i => ~Has(s[i], p)
      BY <2>3
    <3>2. CASE Has(s[k], p)
      <4>1. v = ByteAt(s[k], p)
        BY <2>4, <3>1, <3>2
      <4>2. \A i \in 1..k : ~(k < i)
        BY <2>1
      <4>3. QED
        BY <2>6, <3>2, <4>1, <4>2
    <3>3. CASE ~Has(s[k], p)
      <4>1. Shows(d[k - 1], p, v)
        BY <2>4, <3>1, <3>3
      <4>2. PICK j \in 1..(k - 1) :
              /\ Has(s[j], p) /\ v = ByteAt(s[j], p)
              /\ \A i \in 1..(k - 1) : j < i => ~Has(s[i], p)
        BY <1>5, <4>1
      <4>3. \A i \in 1..k : j < i => ~Has(s[i], p)
        BY <2>5, <3>3, <4>2
      <4>4. QED
        BY <2>6, <4>2, <4>3
    <3>4. QED
      BY <3>2, <3>3
  <2>10. QED
    BY <2>7, <2>8, <2>9
<1>6. Nat \subseteq N
  <2> HIDE DEF Listed, Known, Shown
  <2>1. ASSUME NEW k \in Nat, \A m \in Nat : m < k => m \in N PROVE k \in N
    <3>1. CASE k = 0
      BY <1>4, <3>1
    <3>2. CASE k # 0
      <4>1. SUFFICES ASSUME k <= l PROVE Listed(k) /\ Known(k) /\ Shown(k)
        OBVIOUS
      <4>2. k - 1 \in Nat /\ k - 1 < k /\ k - 1 <= l /\ k \in 1..l
        BY <1>1, <3>2, <4>1
      <4>3. Listed(k - 1) /\ Known(k - 1) /\ Shown(k - 1)
        BY <2>1, <4>2
      <4>4. QED
        BY <1>5, <4>2, <4>3
    <3>3. QED
      BY <3>1, <3>2
  <2> HIDE DEF N
  <2>2. QED
    BY <2>1, InductionOnSet
<1>7. Listed(l) /\ Known(l) /\ Shown(l)
  <2> HIDE DEF Listed, Known, Shown
  <2>1. l \in N /\ l <= l
    BY <1>1, <1>6
  <2>2. QED
    BY <2>1
<1>8. \A p \in Nat : Knows(d[l], p) <=> Knows(s, p)
  BY <1>1, <1>7 DEF Knows
<1>9. QED
  BY <1>1, <1>3, <1>7, <1>8

(* The sort: the new block comes behind all that do not start behind it. *)
LEMMA SortFacts ==
    ASSUME NEW bs \in Seq(FileBlocks), Sorted(bs), NEW n \in FileBlocks
    PROVE  /\ SortLast(bs, n) \in Seq(FileBlocks)
           /\ Sorted(SortLast(bs, n))
           /\ \E at \in 1..(Len(bs) + 1) :
                /\ DOMAIN SortLast(bs, n) = 1..(Len(bs) + 1)
                /\ SortLast(bs, n)[at] = n
                /\ \A i \in 1..(at - 1) : SortLast(bs, n)[i] = bs[i]
                /\ \A i \in (at + 1)..(Len(bs) + 1) :
                     SortLast(bs, n)[i] = bs[i - 1] /\ n.start < bs[i - 1].start
<1> DEFINE l == Len(bs)
           S == {0} \cup {k \in DOMAIN bs : bs[k].start <= n.start}
           s == SortLast(bs, n)
<1>1. l \in Nat /\ DOMAIN bs = 1..l /\ \A k \in 1..l : bs[k] \in FileBlocks
  OBVIOUS
<1>2. \A b \in FileBlocks : b.start \in Nat
  BY BlockFacts DEF FileBlocks
<1>3. S \subseteq 0..l /\ S # {}
  BY <1>1
<1>4. PICK x : x = Max(S) /\ x \in S /\ \A y \in S : y <= x
  BY <1>1, <1>3, MaxFacts
<1>5. x \in 0..l
  BY <1>3, <1>4
<1>6. s = SubSeq(bs, 1, x) \o <<n>> \o SubSeq(bs, x + 1, l)
  <2>1. PICK y : y = x + 1
    OBVIOUS
  <2>2. y - 1 = x
    BY <1>5, <2>1
  <2>3. s = InsertAt(bs, y, n)
    BY <1>4, <2>1 DEF SortLast
  <2>4. s = SubSeq(bs, 1, y - 1) \o <<n>> \o SubSeq(bs, y, Len(bs))
    BY Zenon, <2>3 DEF InsertAt
  <2>5. QED
    BY Zenon, <2>1, <2>2, <2>4
<1>7. /\ s \in Seq(FileBlocks) /\ Len(s) = l + 1
      /\ \A i \in 1..x : s[i] = bs[i]
      /\ s[x + 1] = n
      /\ \A i \in (x + 2)..(l + 1) : s[i] = bs[i - 1]
  <2>1. /\ SubSeq(bs, 1, x) \in Seq(FileBlocks) /\ Len(SubSeq(bs, 1, x)) = x
        /\ \A i \in 1..x : SubSeq(bs, 1, x)[i] = bs[i]
    BY <1>1, <1>5
  <2>2. /\ SubSeq(bs, x + 1, l) \in Seq(FileBlocks) /\ Len(SubSeq(bs, x + 1, l)) = l - x
        /\ \A i \in 1..(l - x) : SubSeq(bs, x + 1, l)[i] = bs[x + i]
    <3>1. /\ SubSeq(bs, x + 1, l) \in Seq(FileBlocks) /\ Len(SubSeq(bs, x + 1, l)) = l - x
          /\ \A i \in DOMAIN SubSeq(bs, x + 1, l) : SubSeq(bs, x + 1, l)[i] = bs[x + i]
      BY <1>5, DropFacts
    <3> DEFINE d == SubSeq(bs, x + 1, l)
    <3>2. DOMAIN d = 1..Len(d)
      BY <3>1
    <3> HIDE DEF d
    <3>3. d \in Seq(FileBlocks) /\ Len(d) = l - x /\ \A i \in 1..(l - x) : d[i] = bs[x + i]
      BY <3>1, <3>2 DEF d
    <3>4. QED
      BY <3>3 DEF d
  <2> DEFINE f == SubSeq(bs, 1, x)
             g == SubSeq(bs, x + 1, l)
             h == f \o <<n>>
  <2> HIDE DEF f, g, s
  <2>3. /\ f \in Seq(FileBlocks) /\ Len(f) = x /\ \A i \in 1..x : f[i] = bs[i]
        /\ g \in Seq(FileBlocks) /\ Len(g) = l - x /\ \A i \in 1..(l - x) : g[i] = bs[x + i]
        /\ s = h \o g
    BY <1>6, <2>1, <2>2 DEF f, g
  <2>4. /\ h \in Seq(FileBlocks) /\ Len(h) = x + 1 /\ h[x + 1] = n
        /\ \A i \in 1..x : h[i] = bs[i]
    <3> DEFINE one == <<n>>
    <3>1. one \in Seq(FileBlocks) /\ Len(one) = 1 /\ one[1] = n /\ h = f \o one
      OBVIOUS
    <3> HIDE DEF one
    <3>a. f \in Seq(FileBlocks) /\ Len(f) = x /\ x \in Nat
      BY <1>1, <1>5, <2>3
    <3>b. /\ h \in Seq(FileBlocks) /\ Len(h) = Len(f) + Len(one)
          /\ \A i \in 1..(Len(f) + Len(one)) :
               h[i] = IF i <= Len(f) THEN f[i] ELSE one[i - Len(f)]
      BY <3>1, <3>a, ConcatProperties
    <3> HIDE DEF h
    <3>2. h \in Seq(FileBlocks) /\ Len(h) = x + 1
      BY <3>1, <3>a, <3>b
    <3>3. h[x + 1] = one[1]
      <4>1. PICK y : y = x + 1
        OBVIOUS
      <4>2. y \in 1..(Len(f) + Len(one)) /\ ~(y <= Len(f)) /\ y - Len(f) = 1
        BY <3>1, <3>a, <4>1
      <4>3. h[y] = one[y - Len(f)]
        BY <3>b, <4>2
      <4>4. QED
        BY <4>1, <4>2, <4>3
    <3>4. \A i \in 1..x : h[i] = f[i]
      BY <3>1, <3>a, <3>b
    <3>5. QED
      BY <2>3, <3>1, <3>2, <3>3, <3>4
  <2> HIDE DEF h
  <2>5. /\ s \in Seq(FileBlocks) /\ Len(s) = l + 1
        /\ \A i \in 1..(x + 1) : s[i] = h[i]
        /\ \A i \in (x + 2)..(l + 1) : s[i] = g[i - (x + 1)]
    BY <1>1, <1>5, <2>3, <2>4
  <2>6. ASSUME NEW i \in (x + 2)..(l + 1) PROVE s[i] = bs[i - 1]
    <3>1. i - (x + 1) \in 1..(l - x) /\ x + (i - (x + 1)) = i - 1
      BY <1>1, <1>5
    <3>2. g[i - (x + 1)] = bs[x + (i - (x + 1))]
      BY <2>3, <3>1
    <3>3. QED
      BY <2>5, <3>1, <3>2
  <2>7. x + 1 \in 1..(x + 1) /\ \A i \in 1..x : i \in 1..(x + 1)
    BY <1>5
  <2>8. QED
    BY <2>4, <2>5, <2>6, <2>7
<1> HIDE DEF s
<1>8. ASSUME NEW i \in 1..x PROVE i \in 1..l /\ bs[i].start <= n.start
  <2>1. x \in 1..l /\ bs[x].start <= n.start /\ i \in 1..l
    BY <1>1, <1>4, <1>5
  <2>2. bs[i].start <= bs[x].start
    <3>1. i < x \/ i = x
      BY <1>5
    <3>2. bs[x].start \in Nat
      BY <1>1, <1>2, <2>1
    <3>3. CASE i = x
      BY <3>2, <3>3
    <3>4. CASE i < x
      BY <1>1, <2>1, <3>4 DEF Sorted
    <3>5. QED
      BY <3>1, <3>3, <3>4
  <2>3. bs[i].start \in Nat /\ bs[x].start \in Nat /\ n.start \in Nat
    BY <1>1, <1>2, <2>1
  <2>4. QED
    BY <2>1, <2>2, <2>3
<1>9. ASSUME NEW i \in (x + 1)..l PROVE i \in 1..l /\ n.start < bs[i].start
  <2>1. i \in 1..l /\ ~(i <= x)
    BY <1>1, <1>5
  <2>2. i \notin S
    BY <1>4, <2>1
  <2>3. ~(bs[i].start <= n.start)
    BY <1>1, <2>1, <2>2
  <2>4. bs[i].start \in Nat /\ n.start \in Nat
    BY <1>1, <1>2, <2>1
  <2>5. QED
    BY <2>1, <2>3, <2>4
<1> HIDE DEF S
<1>10. Sorted(s)
  <2>1. SUFFICES ASSUME NEW j \in 1..(l + 1), NEW k \in 1..(l + 1), j < k
                 PROVE s[j].start <= s[k].start
    BY <1>1, <1>7 DEF Sorted
  <2>2. \A i \in 1..l, m \in 1..l : i < m => bs[i].start <= bs[m].start
    BY <1>1 DEF Sorted
  <2>3. CASE k <= x
    <3>1. j \in 1..x /\ k \in 1..x /\ j \in 1..l /\ k \in 1..l
      BY <1>1, <1>5, <2>1, <2>3
    <3>2. QED
      BY <1>7, <2>1, <2>2, <3>1
  <2>4. CASE k = x + 1
    <3>1. j \in 1..x
      BY <1>1, <1>5, <2>1, <2>4
    <3>2. QED
      BY <1>7, <1>8, <2>4, <3>1
  <2>5. CASE x + 1 < k
    <3>1. k \in (x + 2)..(l + 1) /\ k - 1 \in (x + 1)..l /\ k - 1 \in 1..l
      BY <1>1, <1>5, <2>5
    <3>2. s[k] = bs[k - 1] /\ n.start < bs[k - 1].start
      BY <1>7, <1>9, <3>1
    <3>3. bs[k - 1].start \in Nat /\ n.start \in Nat
      BY <1>1, <1>2, <3>1
    <3>4. CASE j <= x
      <4>1. j \in 1..x /\ j \in 1..l /\ j < k - 1
        BY <1>1, <1>5, <2>5, <3>4
      <4>2. QED
        BY <1>7, <2>2, <3>1, <3>2, <4>1
    <3>5. CASE j = x + 1
      BY <1>7, <3>2, <3>3, <3>5
    <3>6. CASE x + 1 < j
      <4>1. j \in (x + 2)..(l + 1) /\ j - 1 \in 1..l /\ j - 1 < k - 1
        BY <1>1, <1>5, <2>1, <3>6
      <4>2. s[j] = bs[j - 1]
        BY <1>7, <4>1
      <4>3. QED
        BY <2>2, <3>1, <3>2, <4>1, <4>2
    <3>7. j <= x \/ j = x + 1 \/ x + 1 < j
      BY <1>5
    <3>8. QED
      BY <3>4, <3>5, <3>6, <3>7
  <2>6. k <= x \/ k = x + 1 \/ x + 1 < k
    BY <1>5
  <2>7. QED
    BY <2>3, <2>4, <2>5, <2>6
<1> DEFINE at == x + 1
<1>11. at \in 1..(l + 1) /\ at - 1 = x /\ at + 1 = x + 2
  BY <1>1, <1>5
<1>12. DOMAIN s = 1..(l + 1)
  BY <1>1, <1>7
<1>13. ASSUME NEW i \in (x + 2)..(l + 1)
       PROVE s[i] = bs[i - 1] /\ n.start < bs[i - 1].start
  <2>1. i - 1 \in (x + 1)..l
    BY <1>1, <1>5
  <2>2. QED
    BY <1>7, <1>9, <2>1
<1>14. /\ s[at] = n
       /\ \A i \in 1..(at - 1) : s[i] = bs[i]
       /\ \A i \in (at + 1)..(l + 1) : s[i] = bs[i - 1] /\ n.start < bs[i - 1].start
  BY <1>7, <1>11, <1>13
<1> HIDE DEF at
<1>15. QED
  BY <1>7, <1>10, <1>11, <1>12, <1>14 DEF s

-----------------------------------------------------------------------------
(* The inductive invariant.                                                *)

\* The cache has exactly the bytes that were written...
KnownAreWritten == \A p \in Offsets : Knows(blocks, p) <=> written[p] # Unknown

\* ...and has what the last write of a byte wrote, unless it was backward.
ShownAreLast ==
    \A p \in Offsets : \A k \in DOMAIN blocks :
        Has(blocks[k], p) => p \in backward \/ ByteAt(blocks[k], p) = written[p]

IInv ==
    /\ blocks \in Seq(FileBlocks)
    /\ written \in [Offsets -> Bytes \cup {Unknown}]
    /\ backward \in SUBSET Offsets
    /\ Apart(blocks)
    /\ KnownAreWritten
    /\ ShownAreLast

(* A byte of a block is a byte, and no two blocks have the same. *)
LEMMA ByteFacts ==
    ASSUME NEW b \in FileBlocks, NEW p \in Nat, Has(b, p)
    PROVE  p \in Offsets /\ ByteAt(b, p) \in Bytes
<1>1. /\ b.start \in Nat /\ Len(b.content) \in Nat
      /\ b.content \in [1..Len(b.content) -> Bytes] /\ End(b) <= Size
  BY BlockFacts DEF FileBlocks
<1>2. b.start <= p /\ p < b.start + Len(b.content) /\ b.start + Len(b.content) <= Size
  BY <1>1 DEF Has, End
<1>3. Size \in Nat
  BY ConstantsAssumption
<1>4. p \in Offsets
  BY <1>1, <1>2, <1>3 DEF Offsets
<1>5. p - b.start + 1 \in 1..Len(b.content)
  BY <1>1, <1>2
<1>6. QED
  BY <1>1, <1>4, <1>5 DEF ByteAt

LEMMA OneBlockPerByte ==
    ASSUME NEW bs \in Seq(FileBlocks), Apart(bs), NEW p \in Nat,
           NEW j \in DOMAIN bs, NEW k \in DOMAIN bs, Has(bs[j], p), Has(bs[k], p)
    PROVE  j = k
<1>1. \A i \in DOMAIN bs : i \in Nat /\ bs[i] \in Blocks
  BY DEF FileBlocks
<1>2. /\ bs[j].start \in Nat /\ End(bs[j]) \in Nat
      /\ bs[k].start \in Nat /\ End(bs[k]) \in Nat
  BY <1>1, BlockFacts
<1>3. ~(End(bs[j]) < bs[k].start) /\ ~(End(bs[k]) < bs[j].start)
  BY <1>2 DEF Has
<1>4. ~(j < k) /\ ~(k < j)
  BY <1>3 DEF Apart
<1>5. QED
  BY <1>1, <1>4

LEMMA ApartIsSorted ==
    ASSUME NEW bs \in Seq(FileBlocks), Apart(bs)
    PROVE  Sorted(bs)
<1>1. SUFFICES ASSUME NEW j \in DOMAIN bs, NEW k \in DOMAIN bs, j < k
               PROVE bs[j].start <= bs[k].start
  BY DEF Sorted
<1>2. bs[j] \in Blocks /\ bs[k] \in Blocks
  BY DEF FileBlocks
<1>3. /\ bs[j].start \in Nat /\ End(bs[j]) \in Nat /\ bs[k].start \in Nat
      /\ bs[j].start < End(bs[j])
  BY <1>2, BlockFacts
<1>4. End(bs[j]) < bs[k].start
  BY <1>1 DEF Apart
<1>5. QED
  BY <1>3, <1>4

LEMMA InitIInv == Init => IInv
<1> SUFFICES ASSUME Init PROVE IInv
  OBVIOUS
<1>1. <<>> \in Seq(FileBlocks) /\ DOMAIN <<>> = {}
  OBVIOUS
<1>2. blocks \in Seq(FileBlocks) /\ DOMAIN blocks = {}
  BY <1>1 DEF Init
<1>3. \A p : ~Knows(blocks, p)
  BY <1>2 DEF Knows
<1>4. Apart(blocks) /\ ShownAreLast
  BY <1>2 DEF Apart, ShownAreLast
<1>5. /\ written = [p \in Offsets |-> Unknown]
      /\ backward \in SUBSET Offsets
  BY DEF Init
<1>6. written \in [Offsets -> Bytes \cup {Unknown}]
  BY <1>5
<1>7. KnownAreWritten
  BY <1>3, <1>5 DEF KnownAreWritten
<1>8. QED
  BY <1>2, <1>4, <1>5, <1>6, <1>7 DEF IInv

(* DeleteFile leaves the state of Init. *)
LEMMA DeleteFileKeepsIInv == IInv /\ DeleteFile => IInv'
<1> SUFFICES ASSUME DeleteFile PROVE IInv'
  OBVIOUS
<1>1. <<>> \in Seq(FileBlocks) /\ DOMAIN <<>> = {}
  OBVIOUS
<1>2. blocks' \in Seq(FileBlocks) /\ DOMAIN blocks' = {}
  BY <1>1 DEF DeleteFile
<1>3. \A p : ~Knows(blocks', p)
  BY <1>2 DEF Knows
<1>4. Apart(blocks') /\ ShownAreLast'
  BY <1>2 DEF Apart, ShownAreLast
<1>5. /\ written' = [p \in Offsets |-> Unknown]
      /\ backward' \in SUBSET Offsets
  BY DEF DeleteFile
<1>6. written' \in [Offsets -> Bytes \cup {Unknown}]
  BY <1>5
<1>7. KnownAreWritten'
  BY <1>3, <1>5 DEF KnownAreWritten
<1>8. QED
  BY <1>2, <1>4, <1>5, <1>6, <1>7 DEF IInv

(* The bytes of the histories after a write of block n. *)
LEMMA HistoryFacts ==
    ASSUME IInv, NEW n \in FileBlocks, Write(n)
    PROVE  /\ written' \in [Offsets -> Bytes \cup {Unknown}]
           /\ backward' \in SUBSET Offsets
           /\ \A p \in Offsets : Has(n, p) => /\ written'[p] = ByteAt(n, p)
                                              /\ written'[p] # Unknown
           /\ \A p \in Offsets : ~Has(n, p) => /\ written'[p] = written[p]
                                               /\ p \in backward => p \in backward'
           /\ \A p \in Offsets : Has(n, p) /\ IsBackward(n) => p \in backward'
<1> DEFINE bytes == n.start..(End(n) - 1)
<1>1. Size \in Nat /\ Unknown \notin Bytes
  BY ConstantsAssumption
<1>2. n.start \in Nat /\ End(n) \in Nat /\ End(n) <= Size
  BY BlockFacts DEF FileBlocks
<1>3. \A p \in Offsets : p \in Nat
  BY <1>1 DEF Offsets
<1>4. \A p \in Offsets : p \in bytes <=> Has(n, p)
  BY <1>2, <1>3 DEF Has
<1>5. bytes \subseteq Offsets
  BY <1>1, <1>2 DEF Offsets
<1>6. /\ written' = [p \in Offsets |-> IF p \in bytes THEN n.content[p - n.start + 1]
                                       ELSE written[p]]
      /\ backward' = IF IsBackward(n) THEN backward \cup bytes ELSE backward \ bytes
  BY DEF Write
<1> HIDE DEF bytes
<1>7. ASSUME NEW p \in Offsets
      PROVE written'[p] = IF Has(n, p) THEN ByteAt(n, p) ELSE written[p]
  BY <1>4, <1>6 DEF ByteAt
<1>8. written \in [Offsets -> Bytes \cup {Unknown}] /\ backward \in SUBSET Offsets
  BY DEF IInv
<1>9. \A p \in Offsets : Has(n, p) => ByteAt(n, p) \in Bytes
  BY <1>3, ByteFacts
<1>10. written' \in [Offsets -> Bytes \cup {Unknown}]
  <2>1. \A p \in Offsets : written'[p] \in Bytes \cup {Unknown}
    BY <1>7, <1>8, <1>9
  <2>2. written' = [p \in Offsets |-> written'[p]]
    BY <1>6
  <2>3. QED
    BY <2>1, <2>2
<1>11. backward' \in SUBSET Offsets
  BY <1>5, <1>6, <1>8
<1>12. \A p \in Offsets : ~Has(n, p) => (p \in backward => p \in backward')
  BY <1>4, <1>6
<1>13. \A p \in Offsets : Has(n, p) /\ IsBackward(n) => p \in backward'
  BY <1>4, <1>6
<1>14. QED
  BY <1>1, <1>7, <1>9, <1>10, <1>11, <1>12, <1>13

(* A write that one block covers: the bytes are copied into that block. *)
LEMMA CoveredWriteKeepsIInv ==
    ASSUME IInv, NEW n \in FileBlocks, Write(n), Hit(blocks, n.start, Len(n.content))
    PROVE  IInv'
<1> DEFINE H == HitBlocks(blocks, n.start, Len(n.content))
           k == Min(H)
           b == blocks[k]
           g == Merge(b, n)
           e == blocks'
<1>1. /\ blocks \in Seq(FileBlocks)
      /\ Apart(blocks)
      /\ DOMAIN blocks = 1..Len(blocks) /\ Len(blocks) \in Nat
      /\ \A i \in DOMAIN blocks : blocks[i] \in FileBlocks
  BY DEF IInv
<1>2. H \subseteq DOMAIN blocks /\ H \subseteq Nat /\ H # {}
  BY <1>1 DEF Hit, HitBlocks
<1>3. k \in H
  BY <1>2, MinFacts
<1>4. k \in DOMAIN blocks /\ Covers(b, n.start, Len(n.content))
  BY <1>3 DEF HitBlocks
<1>5. e = [blocks EXCEPT ![k].content = Overlay(b, n)]
  BY DEF Write, AfterWrite
<1> HIDE DEF H, k
<1>6. /\ b \in FileBlocks /\ b \in Blocks /\ n \in Blocks
      /\ b = [start |-> b.start, content |-> b.content]
      /\ b.start \in Nat /\ Len(b.content) \in Nat /\ n.start \in Nat /\ Len(n.content) \in Nat
  BY <1>1, <1>4, BlockFacts DEF FileBlocks
<1>7. b.start <= n.start /\ n.start + Len(n.content) <= b.start + Len(b.content)
  BY <1>4, <1>6 DEF Covers
<1>8. Touch(b, n) /\ End(n) <= End(b)
  BY <1>6, <1>7 DEF Touch, End
<1>9. /\ g \in FileBlocks /\ g.start = b.start
      /\ End(g) = IF End(b) >= End(n) THEN End(b) ELSE End(n)
      /\ \A p \in Nat : Has(g, p) <=> Has(b, p) \/ Has(n, p)
      /\ \A p \in Nat : Has(n, p) => ByteAt(g, p) = ByteAt(n, p)
      /\ \A p \in Nat : Has(b, p) /\ ~Has(n, p) => ByteAt(g, p) = ByteAt(b, p)
  BY <1>6, <1>7, <1>8, MergeFacts
<1>10. End(b) \in Nat /\ End(n) \in Nat
  BY <1>6, BlockFacts
<1>11. End(g) = End(b) /\ \A p \in Nat : Has(n, p) => Has(b, p)
  BY <1>6, <1>7, <1>8, <1>9, <1>10 DEF Has
<1>12. [b EXCEPT !.content = Overlay(b, n)] = g
  <2>1. PICK r : r = b
    OBVIOUS
  <2>2. r = [start |-> r.start, content |-> r.content]
    BY <1>6, <2>1
  <2>3. [r EXCEPT !.content = Overlay(r, n)] = [start |-> r.start, content |-> Overlay(r, n)]
    BY <2>2
  <2>4. QED
    BY <2>1, <2>3 DEF Merge
<1>13. e = [blocks EXCEPT ![k] = g]
  BY <1>5, <1>12
<1> HIDE DEF g
<1>14. /\ e \in Seq(FileBlocks) /\ DOMAIN e = DOMAIN blocks
       /\ e[k] = g /\ \A i \in DOMAIN blocks : i # k => e[i] = blocks[i]
  BY <1>1, <1>4, <1>9, <1>13
<1>15. \A i \in DOMAIN blocks : e[i].start = blocks[i].start /\ End(e[i]) = End(blocks[i])
  BY <1>9, <1>11, <1>14
<1>16. Apart(e)
  BY <1>1, <1>14, <1>15 DEF Apart
<1>17. \A p, i : i \in DOMAIN blocks => (Has(e[i], p) <=> Has(blocks[i], p))
  BY <1>15 DEF Has
<1>18. \A p : Knows(e, p) <=> Knows(blocks, p)
  BY <1>14, <1>17 DEF Knows
<1>19. /\ written' \in [Offsets -> Bytes \cup {Unknown}]
       /\ backward' \in SUBSET Offsets
       /\ \A p \in Offsets : Has(n, p) => /\ written'[p] = ByteAt(n, p)
                                          /\ written'[p] # Unknown
       /\ \A p \in Offsets : ~Has(n, p) => /\ written'[p] = written[p]
                                           /\ p \in backward => p \in backward'
  BY HistoryFacts
<1>20. \A p \in Offsets : p \in Nat
  BY ConstantsAssumption DEF Offsets
<1>21. ASSUME NEW p \in Offsets PROVE Knows(e, p) <=> written'[p] # Unknown
  <2>1. Knows(blocks, p) <=> written[p] # Unknown
    BY DEF IInv, KnownAreWritten
  <2>2. Has(n, p) => Knows(blocks, p)
    BY <1>4, <1>11, <1>20 DEF Knows
  <2>3. QED
    BY <1>18, <1>19, <2>1, <2>2
<1>22. ASSUME NEW p \in Offsets, NEW i \in DOMAIN e, Has(e[i], p)
       PROVE p \in backward' \/ ByteAt(e[i], p) = written'[p]
  <2>1. i \in DOMAIN blocks /\ Has(blocks[i], p) /\ p \in Nat
    BY <1>14, <1>17, <1>20, <1>22
  <2>2. CASE Has(n, p)
    <3>1. Has(b, p)
      BY <1>11, <2>1, <2>2
    <3>2. i = k
      BY <1>1, <1>4, <2>1, <3>1, OneBlockPerByte
    <3>3. ByteAt(e[i], p) = ByteAt(n, p)
      BY <1>9, <1>14, <2>1, <2>2, <3>2
    <3>4. QED
      BY <1>19, <2>2, <3>3
  <2>3. CASE ~Has(n, p)
    <3>1. p \in backward \/ ByteAt(blocks[i], p) = written[p]
      BY <2>1 DEF IInv, ShownAreLast
    <3>2. ByteAt(e[i], p) = ByteAt(blocks[i], p)
      <4>1. CASE i = k
        BY <1>9, <1>14, <2>1, <2>3, <4>1
      <4>2. CASE i # k
        BY <1>14, <2>1, <4>2
      <4>3. QED
        BY <4>1, <4>2
    <3>3. QED
      BY <1>19, <2>3, <3>1, <3>2
  <2>4. QED
    BY <2>2, <2>3
<1>23. KnownAreWritten' /\ ShownAreLast'
  BY <1>21, <1>22 DEF KnownAreWritten, ShownAreLast
<1>24. QED
  BY <1>14, <1>16, <1>19, <1>23 DEF IInv

(* A write that no block covers: the new block is sorted in, and flatten merges.  Where *)
(* a block that starts behind it has the same byte, the older byte stays: the write was *)
(* backward. *)
LEMMA MergingWriteKeepsIInv ==
    ASSUME IInv, NEW n \in FileBlocks, Write(n), ~Hit(blocks, n.start, Len(n.content))
    PROVE  IInv'
<1> DEFINE s == SortLast(blocks, n)
           l == Len(blocks)
           e == blocks'
<1>1. /\ blocks \in Seq(FileBlocks)
      /\ Apart(blocks) /\ Sorted(blocks)
      /\ DOMAIN blocks = 1..l /\ l \in Nat
      /\ \A i \in DOMAIN blocks : blocks[i] \in FileBlocks
  BY ApartIsSorted DEF IInv
<1>2. s \in Seq(FileBlocks) /\ Sorted(s)
  BY <1>1, SortFacts
<1>3. PICK at \in 1..(l + 1) :
        /\ DOMAIN s = 1..(l + 1)
        /\ s[at] = n
        /\ \A i \in 1..(at - 1) : s[i] = blocks[i]
        /\ \A i \in (at + 1)..(l + 1) : s[i] = blocks[i - 1] /\ n.start < blocks[i - 1].start
  BY <1>1, SortFacts
<1>4. e = MergeTouching(s)
  BY DEF Write, AfterWrite
<1> HIDE DEF s
<1>5. /\ MergeTouching(s) \in Seq(FileBlocks) /\ Apart(MergeTouching(s))
      /\ \A p \in Nat : Knows(MergeTouching(s), p) <=> Knows(s, p)
      /\ \A p \in Nat : \A v : Shows(MergeTouching(s), p, v) =>
           \E j \in DOMAIN s : /\ Has(s[j], p) /\ v = ByteAt(s[j], p)
                               /\ \A i \in DOMAIN s : j < i => ~Has(s[i], p)
  BY <1>2, FlattenFacts
<1>6. /\ e \in Seq(FileBlocks) /\ Apart(e)
      /\ \A p \in Nat : Knows(e, p) <=> Knows(s, p)
      /\ \A p \in Nat : \A v : Shows(e, p, v) =>
           \E j \in DOMAIN s : /\ Has(s[j], p) /\ v = ByteAt(s[j], p)
                               /\ \A i \in DOMAIN s : j < i => ~Has(s[i], p)
  BY <1>4, <1>5
<1>7. \A i \in DOMAIN s : i \in 1..(at - 1) \/ i = at \/ (i \in (at + 1)..(l + 1))
  BY <1>1, <1>3
<1>8. \A i \in 1..(at - 1) : i \in DOMAIN blocks
  BY <1>1
<1>9. \A i \in (at + 1)..(l + 1) : i - 1 \in DOMAIN blocks
  BY <1>1
<1>10. at \in DOMAIN s
  BY <1>3
<1>11. ASSUME NEW i \in DOMAIN blocks PROVE \E j \in DOMAIN s : s[j] = blocks[i]
  <2>1. CASE i < at
    <3>1. i \in 1..(at - 1) /\ i \in DOMAIN s
      BY <1>1, <1>3, <2>1
    <3>2. QED
      BY <1>3, <3>1
  <2>2. CASE ~(i < at)
    <3>1. i + 1 \in (at + 1)..(l + 1) /\ i + 1 \in DOMAIN s /\ i + 1 - 1 = i
      BY <1>1, <1>3, <2>2
    <3>2. s[i + 1] = blocks[i]
      BY <1>3, <3>1
    <3>3. QED
      BY <3>1, <3>2
  <2>3. QED
    BY <2>1, <2>2
<1>12. \A p : Knows(s, p) <=> Knows(blocks, p) \/ Has(n, p)
  <2>1. SUFFICES ASSUME NEW p PROVE Knows(s, p) <=> Knows(blocks, p) \/ Has(n, p)
    OBVIOUS
  <2>2. Knows(s, p) => Knows(blocks, p) \/ Has(n, p)
    <3>1. SUFFICES ASSUME NEW i \in DOMAIN s, Has(s[i], p), i # at PROVE Knows(blocks, p)
      BY <1>3 DEF Knows
    <3>2. CASE i \in 1..(at - 1)
      BY <1>3, <1>8, <3>1, <3>2 DEF Knows
    <3>3. CASE i \in (at + 1)..(l + 1)
      BY <1>3, <1>9, <3>1, <3>3 DEF Knows
    <3>4. QED
      BY <1>7, <3>1, <3>2, <3>3
  <2>3. Knows(blocks, p) => Knows(s, p)
    BY <1>11 DEF Knows
  <2>4. Has(n, p) => Knows(s, p)
    BY <1>3, <1>10 DEF Knows
  <2>5. QED
    BY <2>2, <2>3, <2>4
<1>13. /\ written' \in [Offsets -> Bytes \cup {Unknown}]
       /\ backward' \in SUBSET Offsets
       /\ \A p \in Offsets : Has(n, p) => /\ written'[p] = ByteAt(n, p)
                                          /\ written'[p] # Unknown
       /\ \A p \in Offsets : ~Has(n, p) => /\ written'[p] = written[p]
                                           /\ p \in backward => p \in backward'
       /\ \A p \in Offsets : Has(n, p) /\ IsBackward(n) => p \in backward'
  BY HistoryFacts
<1>14. \A p \in Offsets : p \in Nat
  BY ConstantsAssumption DEF Offsets
<1>15. ASSUME NEW p \in Offsets PROVE Knows(e, p) <=> written'[p] # Unknown
  <2>1. Knows(blocks, p) <=> written[p] # Unknown
    BY DEF IInv, KnownAreWritten
  <2>2. Knows(e, p) <=> Knows(blocks, p) \/ Has(n, p)
    BY <1>6, <1>12, <1>14
  <2>3. QED
    BY <1>13, <2>1, <2>2
<1>16. ASSUME NEW p \in Offsets, NEW i \in DOMAIN blocks, Has(blocks[i], p),
              Has(n, p) => IsBackward(n)
       PROVE p \in backward' \/ ByteAt(blocks[i], p) = written'[p]
  <2>1. p \in backward \/ ByteAt(blocks[i], p) = written[p]
    BY <1>16 DEF IInv, ShownAreLast
  <2>2. QED
    BY <1>13, <1>16, <2>1
<1>17. ASSUME NEW p \in Offsets, NEW i \in DOMAIN e, Has(e[i], p)
       PROVE p \in backward' \/ ByteAt(e[i], p) = written'[p]
  <2>1. PICK v : v = ByteAt(e[i], p)
    OBVIOUS
  <2>2. Shows(e, p, v)
    BY <1>17, <2>1 DEF Shows
  <2>3. PICK j \in DOMAIN s : /\ Has(s[j], p) /\ v = ByteAt(s[j], p)
                              /\ \A m \in DOMAIN s : j < m => ~Has(s[m], p)
    BY <1>6, <1>14, <2>2
  <2>4. CASE j = at
    <3>1. Has(n, p) /\ v = ByteAt(n, p)
      BY <1>3, <2>3, <2>4
    <3>2. QED
      BY <1>13, <2>1, <3>1
  <2>5. CASE j \in 1..(at - 1)
    <3>1. j < at
      BY <1>3, <2>5
    <3>2. ~Has(n, p)
      BY <1>3, <1>10, <2>3, <3>1
    <3>3. j \in DOMAIN blocks /\ s[j] = blocks[j]
      BY <1>3, <1>8, <2>5
    <3>4. QED
      BY <1>16, <2>1, <2>3, <3>2, <3>3
  <2>6. CASE j \in (at + 1)..(l + 1)
    <3>1. PICK m : m = j - 1
      OBVIOUS
    <3>2. m \in DOMAIN blocks /\ s[j] = blocks[m] /\ n.start < blocks[m].start
      BY <1>3, <1>9, <2>6, <3>1
    <3>3. Has(blocks[m], p) /\ v = ByteAt(blocks[m], p)
      BY <2>3, <3>2
    <3>4. ASSUME Has(n, p) PROVE IsBackward(n)
      <4>1. blocks[m] \in Blocks /\ n \in Blocks
        BY <1>1, <3>2 DEF FileBlocks
      <4>2. blocks[m].start \in Nat /\ End(n) \in Nat /\ p \in Nat
        BY <1>14, <4>1, BlockFacts
      <4>3. blocks[m].start < End(n)
        BY <3>3, <3>4, <4>2 DEF Has
      <4>4. QED
        BY <3>2, <4>3 DEF IsBackward
    <3>5. QED
      BY <1>16, <2>1, <3>2, <3>3, <3>4
  <2>7. QED
    BY <1>7, <2>4, <2>5, <2>6
<1>18. KnownAreWritten' /\ ShownAreLast'
  BY <1>15, <1>17 DEF KnownAreWritten, ShownAreLast
<1>19. QED
  BY <1>6, <1>13, <1>18 DEF IInv

(* The inductive invariant is one. *)
LEMMA StepKeepsIInv == IInv /\ [Next]_vars => IInv'
<1> SUFFICES ASSUME IInv, [Next]_vars PROVE IInv'
  OBVIOUS
<1>1. ASSUME NEW start \in Offsets, NEW m \in 1..(Size - start),
             NEW content \in [1..m -> Bytes],
             Write([start |-> start, content |-> content])
      PROVE IInv'
  <2> DEFINE n == [start |-> start, content |-> content]
  <2>1. Size \in Nat
    BY ConstantsAssumption
  <2>2. start \in Nat /\ m \in Nat \ {0} /\ start + m <= Size
    BY <2>1 DEF Offsets
  <2>3. n \in FileBlocks
    BY <2>2, MakeBlock
  <2>4. Write(n)
    BY <1>1
  <2> HIDE DEF n
  <2>5. QED
    BY <2>3, <2>4, CoveredWriteKeepsIInv, MergingWriteKeepsIInv
<1>2. CASE DeleteFile
  BY <1>2, DeleteFileKeepsIInv
<1>3. CASE UNCHANGED vars
  BY <1>3 DEF vars, IInv, KnownAreWritten, ShownAreLast, Knows, Apart
<1>4. QED
  BY <1>1, <1>2, <1>3 DEF Next

THEOREM Invariance == Spec => []IInv
<1>1. Init => IInv
  BY InitIInv
<1>2. IInv /\ [Next]_vars => IInv'
  BY StepKeepsIInv
<1>3. QED
  BY <1>1, <1>2, PTL DEF Spec

-----------------------------------------------------------------------------
(* What the invariant says of the cache.                                   *)

LEMMA IInvIsTyped == IInv => TypeOK
<1> SUFFICES ASSUME IInv PROVE TypeOK
  OBVIOUS
<1>1. blocks \in Seq(FileBlocks) /\ FileBlocks \subseteq Blocks
  BY DEF IInv, FileBlocks
<1>2. blocks \in Seq(Blocks)
  BY <1>1
<1>3. QED
  BY <1>2 DEF IInv, TypeOK

(* A block that covers a range has each byte of it. *)
LEMMA CoveredBytes ==
    ASSUME NEW b \in FileBlocks, NEW start \in Nat, NEW size \in Nat
    PROVE  Covers(b, start, size) <=> b.start <= start /\ start + size <= End(b)
<1>1. b.start \in Nat /\ Len(b.content) \in Nat /\ End(b) = b.start + Len(b.content)
  BY BlockFacts DEF FileBlocks, End
<1>2. QED
  BY <1>1 DEF Covers

LEMMA IInvHits == IInv => HitIffKnown
<1> SUFFICES ASSUME IInv, NEW start \in Offsets, NEW size \in 1..(Size - start)
             PROVE  Hit(blocks, start, size)
                      <=> \A p \in start..(start + size - 1) : written[p] # Unknown
  BY DEF HitIffKnown
<1>1. /\ blocks \in Seq(FileBlocks) /\ Apart(blocks)
      /\ \A i \in DOMAIN blocks : i \in Nat /\ blocks[i] \in FileBlocks
      /\ \A p \in Offsets : Knows(blocks, p) <=> written[p] # Unknown
  BY DEF IInv, KnownAreWritten
<1>2. Size \in Nat
  BY ConstantsAssumption
<1>3. start \in Nat /\ size \in Nat \ {0} /\ start + size <= Size
  BY <1>2 DEF Offsets
<1>4. \A p \in start..(start + size - 1) : p \in Offsets /\ p \in Nat
  BY <1>2, <1>3 DEF Offsets
<1>5. \A i \in DOMAIN blocks : /\ blocks[i].start \in Nat /\ End(blocks[i]) \in Nat
                               /\ blocks[i].start < End(blocks[i])
  BY <1>1, BlockFacts DEF FileBlocks
<1>6. ASSUME Hit(blocks, start, size), NEW p \in start..(start + size - 1)
      PROVE  written[p] # Unknown
  <2>1. PICK k \in DOMAIN blocks : Covers(blocks[k], start, size)
    BY <1>6 DEF Hit, HitBlocks
  <2>2. blocks[k].start <= start /\ start + size <= End(blocks[k])
    BY <1>1, <1>3, <2>1, CoveredBytes
  <2>3. start <= p /\ p < start + size /\ p \in Nat
    BY <1>3, <1>6
  <2>4. Has(blocks[k], p)
    BY <1>3, <1>5, <2>2, <2>3 DEF Has
  <2>5. Knows(blocks, p)
    BY <2>4 DEF Knows
  <2>6. QED
    BY <1>1, <1>4, <1>6, <2>5
<1>7. ASSUME \A p \in start..(start + size - 1) : written[p] # Unknown
      PROVE  Hit(blocks, start, size)
  <2>1. start \in start..(start + size - 1)
    BY <1>3
  <2>2. PICK k \in DOMAIN blocks : Has(blocks[k], start)
    BY <1>1, <1>4, <1>7, <2>1 DEF Knows
  <2>3. blocks[k].start <= start /\ start < End(blocks[k])
    BY <2>2 DEF Has
  <2>4. start + size <= End(blocks[k])
    <3>1. SUFFICES ASSUME End(blocks[k]) < start + size PROVE FALSE
      BY <1>3, <1>5
    <3>2. PICK q : q = End(blocks[k])
      OBVIOUS
    <3>3. q \in start..(start + size - 1) /\ q \in Nat
      BY <1>3, <1>5, <2>3, <3>1, <3>2
    <3>4. PICK i \in DOMAIN blocks : Has(blocks[i], q)
      BY <1>1, <1>4, <1>7, <3>3 DEF Knows
    <3>5. blocks[i].start <= q /\ q < End(blocks[i])
      BY <3>4 DEF Has
    <3>6. i # k
      BY <1>5, <3>2, <3>5
    <3>7. ~(i < k)
      <4>1. SUFFICES ASSUME i < k PROVE FALSE
        OBVIOUS
      <4>2. End(blocks[i]) < blocks[k].start
        BY <1>1, <4>1 DEF Apart
      <4>3. QED
        BY <1>3, <1>5, <2>3, <3>2, <3>5, <4>2
    <3>8. ~(k < i)
      <4>1. SUFFICES ASSUME k < i PROVE FALSE
        OBVIOUS
      <4>2. End(blocks[k]) < blocks[i].start
        BY <1>1, <4>1 DEF Apart
      <4>3. QED
        BY <1>5, <3>2, <3>3, <3>5, <4>2
    <3>9. i \in Nat /\ k \in Nat
      BY <1>1
    <3>10. QED
      BY <3>6, <3>7, <3>8, <3>9
  <2>5. Covers(blocks[k], start, size)
    BY <1>1, <1>3, <2>3, <2>4, CoveredBytes
  <2>6. QED
    BY <2>5 DEF Hit, HitBlocks
<1>8. QED
  BY <1>6, <1>7

LEMMA IInvReads == IInv => ReadsLastWrite
<1> SUFFICES ASSUME IInv, NEW start \in Offsets, NEW size \in 1..(Size - start),
                    Hit(blocks, start, size), NEW k \in 1..size
             PROVE  \/ start + k - 1 \in backward
                    \/ ReadHit(blocks, start, size)[k] = written[start + k - 1]
  BY DEF ReadsLastWrite
<1>1. /\ blocks \in Seq(FileBlocks)
      /\ \A i \in DOMAIN blocks : i \in Nat /\ blocks[i] \in FileBlocks
  BY DEF IInv
<1>2. Size \in Nat
  BY ConstantsAssumption
<1>3. start \in Nat /\ size \in Nat \ {0} /\ start + size <= Size /\ k \in Nat /\ k >= 1
  BY <1>2 DEF Offsets
<1> DEFINE H == HitBlocks(blocks, start, size)
           i == Min(H)
           b == blocks[i]
<1>4. i \in H
  <2>1. H \subseteq Nat /\ H # {}
    BY <1>1 DEF Hit, HitBlocks
  <2>2. QED
    BY <2>1, MinFacts
<1>5. i \in DOMAIN blocks /\ Covers(b, start, size)
  BY <1>4 DEF HitBlocks
<1>6. ReadHit(blocks, start, size) = [m \in 1..size |-> b.content[(start - b.start) + m]]
  BY DEF ReadHit
<1> HIDE DEF H, i
<1>7. PICK p : p = start + k - 1
  OBVIOUS
<1>8. b.start \in Nat /\ End(b) \in Nat /\ b.start <= start /\ start + size <= End(b)
  BY <1>1, <1>3, <1>5, BlockFacts, CoveredBytes DEF FileBlocks
<1>9. p \in Offsets /\ Has(b, p) /\ (start - b.start) + k = p - b.start + 1
  BY <1>2, <1>3, <1>7, <1>8 DEF Has, Offsets
<1>10. ReadHit(blocks, start, size)[k] = ByteAt(b, p)
  <2>1. ReadHit(blocks, start, size)[k] = b.content[(start - b.start) + k]
    BY <1>6
  <2>2. QED
    BY <1>9, <2>1 DEF ByteAt
<1>11. p \in backward \/ ByteAt(b, p) = written[p]
  BY <1>5, <1>9 DEF IInv, ShownAreLast
<1>12. QED
  BY <1>7, <1>10, <1>11

-----------------------------------------------------------------------------
(* The theorems.                                                           *)

(* The cache of a file only ever holds blocks of bytes of the file. *)
THEOREM TypeCorrect == Spec => []TypeOK
BY Invariance, IInvIsTyped, PTL

(* flatten keeps the blocks of a file sorted, with a gap between any two, whatever the *)
(* order of the writes: no two blocks have the same byte. *)
THEOREM BlocksStayApart == Spec => []BlocksApart
<1>1. IInv => BlocksApart
  BY DEF IInv, Apart, BlocksApart
<1>2. QED
  BY <1>1, Invariance, PTL

(* The cache answers a read exactly if it was told each byte, by one write or several. *)
THEOREM HitsAreKnown == Spec => []HitIffKnown
BY Invariance, IInvHits, PTL

(* What a hit returns is what was written last, except for bytes whose last write was *)
(* backward. *)
THEOREM LastWriteRead == Spec => []ReadsLastWrite
BY Invariance, IInvReads, PTL
=============================================================================
