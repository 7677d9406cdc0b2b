-------------------------- MODULE CachedTreeProofs --------------------------
(***************************************************************************)
(* Proofs about CachedTree, for any number of threads, names, calls,       *)
(* changes on the server, failures and loads: the cached tree is the       *)
(* served one.                                                             *)
(*                                                                         *)
(* Trees are compared path by path.  A call reads and writes the paths of  *)
(* its region (InRegion), and no other; the kernel's locks keep the        *)
(* regions of two threads apart (RegionsApart); and in its region the      *)
(* cache makes of a call what the server made of it (CallRepeats).  So     *)
(* each call that the server has executed may be followed to its end       *)
(* whatever the others do meanwhile.                                       *)
(***************************************************************************)
EXTENDS CachedTree, Naturals, SequencesExt, SequenceTheorems, TLAPS

-----------------------------------------------------------------------------
(* Sequences.                                                              *)

(* Dropping the first r elements keeps the others. *)
LEMMA DropFacts ==
    ASSUME NEW S, NEW s \in Seq(S), NEW r \in 0..Len(s)
    PROVE  /\ SubSeq(s, r + 1, Len(s)) \in Seq(S)
           /\ Len(SubSeq(s, r + 1, Len(s))) = Len(s) - r
           /\ \A i \in DOMAIN SubSeq(s, r + 1, Len(s)) :
                r + i \in DOMAIN s /\ SubSeq(s, r + 1, Len(s))[i] = s[r + i]
<1> DEFINE d == SubSeq(s, r + 1, Len(s))
<1>1. /\ d \in Seq(S) /\ Len(d) = Len(s) - r
      /\ \A i \in 1..(Len(s) - r) : d[i] = s[r + i]
  OBVIOUS
<1> HIDE DEF d
<1>2. DOMAIN d = 1..(Len(s) - r) /\ DOMAIN s = 1..Len(s) /\ Len(s) \in Nat
  BY <1>1
<1>3. \A i \in 1..(Len(s) - r) : r + i \in 1..Len(s)
  BY <1>2
<1>4. QED
  BY <1>1, <1>2, <1>3 DEF d

-----------------------------------------------------------------------------
(* Paths.                                                                  *)

(* A path is a prefix of another if the other has its names first. *)
LEMMA PrefixMeans ==
    ASSUME NEW S, NEW s \in Seq(S), NEW t \in Seq(S)
    PROVE  IsPrefix(s, t) <=> Len(s) <= Len(t) /\ \A i \in 1..Len(s) : s[i] = t[i]
<1> DEFINE f == SubSeq(s, 1, Len(s))
           g == SubSeq(t, 1, Len(s))
<1>1. Len(s) \in Nat /\ Len(t) \in Nat
  OBVIOUS
<1>2. Len(f) = Len(s) /\ \A i \in 1..Len(s) : f[i] = s[i]
  BY <1>1
<1>3. ASSUME Len(s) <= Len(t)
      PROVE Len(g) = Len(s) /\ \A i \in 1..Len(s) : g[i] = t[i]
  BY <1>1, <1>3
<1>4. IsPrefix(s, t) <=> Len(s) <= Len(t) /\ f = g
  BY DEF IsPrefix
<1>5. f \in Seq(S)
  BY <1>1
<1>6. Len(s) <= Len(t) => g \in Seq(S)
  BY <1>1
<1> HIDE DEF f, g
<1>7. ASSUME Len(s) <= Len(t), \A i \in 1..Len(s) : s[i] = t[i] PROVE f = g
  <2>1. Len(f) = Len(g) /\ \A i \in 1..Len(f) : f[i] = g[i]
    BY <1>2, <1>3, <1>7
  <2>2. QED
    BY <1>5, <1>6, <1>7, <2>1, SeqEqual
<1>8. QED
  BY <1>2, <1>3, <1>4, <1>7

(* A path is in its own subtree. *)
LEMMA PrefixOfItself ==
    ASSUME NEW S, NEW s \in Seq(S)
    PROVE  IsPrefix(s, s)
<1>1. Len(s) \in Nat
  OBVIOUS
<1>2. QED
  BY <1>1, PrefixMeans

(* A subtree of a subtree is a subtree. *)
LEMMA PrefixTransitive ==
    ASSUME NEW S, NEW p \in Seq(S), NEW q \in Seq(S), NEW r \in Seq(S),
           IsPrefix(p, q), IsPrefix(q, r)
    PROVE  IsPrefix(p, r)
<1>1. Len(p) \in Nat /\ Len(q) \in Nat /\ Len(r) \in Nat
  OBVIOUS
<1>2. Len(p) <= Len(q) /\ \A i \in 1..Len(p) : p[i] = q[i]
  BY PrefixMeans
<1>3. Len(q) <= Len(r) /\ \A i \in 1..Len(q) : q[i] = r[i]
  BY PrefixMeans
<1>4. Len(p) <= Len(r) /\ \A i \in 1..Len(p) : p[i] = r[i]
  BY <1>1, <1>2, <1>3
<1>5. QED
  BY <1>4, PrefixMeans

(* Two directories above the same path are above each other. *)
LEMMA PrefixesCompare ==
    ASSUME NEW S, NEW p \in Seq(S), NEW q \in Seq(S), NEW r \in Seq(S),
           IsPrefix(p, r), IsPrefix(q, r)
    PROVE  IsPrefix(p, q) \/ IsPrefix(q, p)
<1>1. Len(p) \in Nat /\ Len(q) \in Nat /\ Len(r) \in Nat
  OBVIOUS
<1>2. Len(p) <= Len(r) /\ \A i \in 1..Len(p) : p[i] = r[i]
  BY PrefixMeans
<1>3. Len(q) <= Len(r) /\ \A i \in 1..Len(q) : q[i] = r[i]
  BY PrefixMeans
<1>4. CASE Len(p) <= Len(q)
  <2>1. \A i \in 1..Len(p) : p[i] = q[i]
    BY <1>1, <1>2, <1>3, <1>4
  <2>2. QED
    BY <1>4, <2>1, PrefixMeans
<1>5. CASE ~(Len(p) <= Len(q))
  <2>1. Len(q) <= Len(p) /\ \A i \in 1..Len(q) : q[i] = p[i]
    BY <1>1, <1>2, <1>3, <1>5
  <2>2. QED
    BY <2>1, PrefixMeans
<1>6. QED
  BY <1>4, <1>5

(* The parent of a path is a path, and strictly above it. *)
LEMMA ParentFacts ==
    ASSUME NEW S, NEW p \in Seq(S)
    PROVE  /\ Parent(p) \in Seq(S)
           /\ p # <<>> => /\ IsPrefix(Parent(p), p)
                          /\ ~IsPrefix(p, Parent(p))
                          /\ Parent(p) # p
<1> DEFINE f == Front(p)
<1>1. CASE p = <<>>
  <2>1. f = <<>>
    BY <1>1 DEF Front
  <2>2. QED
    BY <1>1, <2>1 DEF Parent
<1>2. CASE p # <<>>
  <2>1. Len(p) \in Nat /\ Len(p) >= 1
    BY <1>2
  <2>2. f \in Seq(S) /\ Len(f) = Len(p) - 1 /\ \A i \in 1..(Len(p) - 1) : f[i] = p[i]
    <3>1. PICK n : n = Len(p) - 1
      OBVIOUS
    <3>2. n \in Nat /\ n <= Len(p)
      BY <2>1, <3>1
    <3>3. f = SubSeq(p, 1, n)
      BY Zenon, <3>1 DEF Front
    <3>4. SubSeq(p, 1, n) \in Seq(S) /\ Len(SubSeq(p, 1, n)) = n
      BY <2>1, <3>2
    <3>5. \A i \in 1..n : SubSeq(p, 1, n)[i] = p[i]
      BY <2>1, <3>2
    <3> HIDE DEF f
    <3>6. QED
      BY <3>1, <3>3, <3>4, <3>5
  <2> HIDE DEF f
  <2>3. IsPrefix(f, p)
    <3>1. Len(f) <= Len(p) /\ \A i \in 1..Len(f) : f[i] = p[i]
      BY <2>1, <2>2
    <3>2. QED
      BY <2>2, <3>1, PrefixMeans
  <2>4. ~IsPrefix(p, f)
    <3>1. ~(Len(p) <= Len(f))
      BY <2>1, <2>2
    <3>2. QED
      BY <2>2, <3>1, PrefixMeans
  <2>5. f # p
    BY <2>1, <2>2
  <2>6. QED
    BY <2>2, <2>3, <2>4, <2>5 DEF Parent, f
<1>3. QED
  BY <1>1, <1>2

(* Renaming p to r moves q, which is below p, below r, and renaming it back returns it. *)
LEMMA RebaseFacts ==
    ASSUME NEW S, NEW p \in Seq(S), NEW q \in Seq(S), NEW r \in Seq(S), IsPrefix(p, q)
    PROVE  /\ Rebase(q, p, r) \in Seq(S)
           /\ IsPrefix(r, Rebase(q, p, r))
           /\ Rebase(Rebase(q, p, r), r, p) = q
<1> DEFINE lp == Len(p)
           lq == Len(q)
           lr == Len(r)
           rest == SubSeq(q, lp + 1, lq)
           x == Rebase(q, p, r)
           back == SubSeq(x, lr + 1, Len(x))
<1>1. lp \in Nat /\ lq \in Nat /\ lr \in Nat
  OBVIOUS
<1>2. lp <= lq /\ \A i \in 1..lp : p[i] = q[i]
  BY PrefixMeans
<1>3. /\ rest \in Seq(S) /\ Len(rest) = lq - lp
      /\ \A i \in DOMAIN rest : lp + i \in DOMAIN q /\ rest[i] = q[lp + i]
  <2>1. lp \in 0..lq
    BY <1>1, <1>2
  <2>2. QED
    BY <2>1, DropFacts
<1>4. x = r \o rest
  BY DEF Rebase
<1> HIDE DEF rest, x
<1>5. /\ x \in Seq(S) /\ Len(x) = lr + Len(rest)
      /\ \A i \in 1..(lr + Len(rest)) : x[i] = IF i <= lr THEN r[i] ELSE rest[i - lr]
  BY <1>3, <1>4, ConcatProperties
<1>6. IsPrefix(r, x)
  <2>0. Len(rest) \in Nat /\ Len(x) = lr + Len(rest)
    BY <1>1, <1>2, <1>3, <1>5
  <2>a. lr <= Len(x)
    BY <1>1, <2>0
  <2>b. ASSUME NEW i \in 1..lr PROVE r[i] = x[i]
    <3>1. i \in 1..(lr + Len(rest)) /\ i <= lr
      BY <1>1, <2>0
    <3>2. QED
      BY <1>5, <3>1
  <2>1. lr <= Len(x) /\ \A i \in 1..lr : r[i] = x[i]
    BY <2>a, <2>b
  <2>2. QED
    BY <1>5, <2>1, PrefixMeans
<1>7. /\ back \in Seq(S) /\ Len(back) = Len(x) - lr
      /\ \A i \in DOMAIN back : lr + i \in DOMAIN x /\ back[i] = x[lr + i]
  <2>1. lr \in 0..Len(x)
    BY <1>1, <1>2, <1>3, <1>5
  <2>2. QED
    BY <1>5, <2>1, DropFacts
<1>8. Rebase(x, r, p) = p \o back
  BY DEF Rebase
<1> HIDE DEF back
<1>9. DOMAIN rest = 1..(lq - lp) /\ DOMAIN back = 1..(lq - lp) /\ DOMAIN x = 1..(lr + (lq - lp))
  BY <1>1, <1>2, <1>3, <1>5, <1>7
<1>10. ASSUME NEW i \in 1..(lq - lp) PROVE back[i] = q[lp + i]
  <2>1. PICK j : j = lr + i
    OBVIOUS
  <2>2. j \in 1..(lr + Len(rest)) /\ ~(j <= lr) /\ j - lr = i
    BY <1>1, <1>2, <1>3, <2>1
  <2>3. back[i] = x[j]
    BY <1>7, <1>9, <2>1
  <2>4. x[j] = rest[j - lr]
    BY <1>5, <2>2
  <2>5. rest[i] = q[lp + i]
    BY <1>3, <1>9
  <2>6. QED
    BY <2>2, <2>3, <2>4, <2>5
<1> DEFINE y == p \o back
<1>11. /\ y \in Seq(S) /\ Len(y) = lp + Len(back)
       /\ \A i \in 1..(lp + Len(back)) : y[i] = IF i <= lp THEN p[i] ELSE back[i - lp]
  BY <1>7, ConcatProperties
<1> HIDE DEF y
<1>12. Len(back) = lq - lp /\ Len(y) = lq
  BY <1>1, <1>2, <1>3, <1>5, <1>7, <1>11
<1>13. ASSUME NEW i \in 1..lq PROVE y[i] = q[i]
  <2>1. i \in 1..(lp + Len(back))
    BY <1>1, <1>2, <1>12
  <2>2. CASE i <= lp
    <3>1. i \in 1..lp
      BY <1>1, <2>2
    <3>2. QED
      BY <1>2, <1>11, <2>1, <2>2, <3>1
  <2>3. CASE ~(i <= lp)
    <3>1. PICK k : k = i - lp
      OBVIOUS
    <3>2. k \in 1..(lq - lp) /\ lp + k = i
      BY <1>1, <1>2, <2>3, <3>1
    <3>3. y[i] = back[k]
      BY <1>11, <2>1, <2>3, <3>1
    <3>4. QED
      BY <1>10, <3>2, <3>3
  <2>4. QED
    BY <2>2, <2>3
<1>14. y = q
  <2>1. Len(y) = Len(q) /\ \A i \in 1..Len(y) : y[i] = q[i]
    BY <1>12, <1>13
  <2>2. QED
    BY <1>11, <2>1, SeqEqual
<1>15. QED
  BY <1>5, <1>6, <1>8, <1>14 DEF x, y

-----------------------------------------------------------------------------
(* Trees, path by path.                                                    *)

(* Set, Drop, Move and Swap, path by path: Set changes one path, *)
LEMMA SetAt ==
    ASSUME NEW t, NEW p, NEW stat
    PROVE  /\ DOMAIN Set(t, p, stat) = DOMAIN t \cup {p}
           /\ Set(t, p, stat)[p] = stat
           /\ \A q \in DOMAIN t : q # p => Set(t, p, stat)[q] = t[q]
BY DEF Set

(* Drop takes one away, *)
LEMMA DropAt ==
    ASSUME NEW t, NEW p
    PROVE  /\ DOMAIN Drop(t, p) = DOMAIN t \ {p}
           /\ \A q \in DOMAIN t : q # p => Drop(t, p)[q] = t[q]
BY DEF Drop

(* Move takes a subtree away and puts it in another place, *)
LEMMA MoveAt ==
    ASSUME NEW t, DOMAIN t \subseteq Seq(Names),
           NEW from \in Seq(Names), NEW to \in Seq(Names), Apart(from, to),
           NEW q \in Seq(Names)
    PROVE  /\ IsPrefix(from, q) => q \notin DOMAIN Move(t, from, to)
           /\ IsPrefix(to, q) =>
                /\ Rebase(q, to, from) \in Seq(Names)
                /\ IsPrefix(from, Rebase(q, to, from))
                /\ q \in DOMAIN Move(t, from, to)
                     <=> q \in DOMAIN t \/ Rebase(q, to, from) \in DOMAIN t
                /\ q \in DOMAIN Move(t, from, to) =>
                     Move(t, from, to)[q] = IF Rebase(q, to, from) \in DOMAIN t
                                            THEN t[Rebase(q, to, from)] ELSE t[q]
           /\ ~IsPrefix(from, q) /\ ~IsPrefix(to, q) =>
                /\ q \in DOMAIN Move(t, from, to) <=> q \in DOMAIN t
                /\ q \in DOMAIN t => Move(t, from, to)[q] = t[q]
<1> DEFINE moved == {Rebase(x, from, to) : x \in Under(t, from)}
           r == Rebase(q, to, from)
           u == Move(t, from, to)
<1>1. u = [x \in (DOMAIN t \ Under(t, from)) \cup moved |->
             IF x \in moved THEN t[Rebase(x, to, from)] ELSE t[x]]
  BY DEF Move
<1>2. q \in moved => IsPrefix(to, q) /\ r \in DOMAIN t
  <2>1. SUFFICES ASSUME NEW x \in Under(t, from), q = Rebase(x, from, to)
                 PROVE IsPrefix(to, q) /\ r \in DOMAIN t
    OBVIOUS
  <2>2. x \in DOMAIN t /\ x \in Seq(Names) /\ IsPrefix(from, x)
    BY DEF Under
  <2>3. IsPrefix(to, Rebase(x, from, to)) /\ Rebase(Rebase(x, from, to), to, from) = x
    BY <2>2, RebaseFacts
  <2>4. QED
    BY <2>1, <2>2, <2>3
<1>3. ASSUME IsPrefix(to, q)
      PROVE r \in Seq(Names) /\ IsPrefix(from, r) /\ Rebase(r, from, to) = q
  BY <1>3, RebaseFacts
<1>4. ASSUME IsPrefix(to, q), r \in DOMAIN t PROVE q \in moved
  <2>1. r \in Under(t, from)
    BY <1>3, <1>4 DEF Under
  <2>2. Rebase(r, from, to) \in moved
    BY <2>1
  <2>3. QED
    BY <1>3, <1>4, <2>2
<1>5. ~(IsPrefix(from, q) /\ IsPrefix(to, q))
  BY PrefixesCompare DEF Apart
<1>6. q \in Under(t, from) <=> q \in DOMAIN t /\ IsPrefix(from, q)
  BY DEF Under
<1> HIDE DEF moved, r
<1>7. q \in DOMAIN u <=> (q \in DOMAIN t /\ q \notin Under(t, from)) \/ q \in moved
  BY <1>1
<1>8. q \in DOMAIN u => u[q] = IF q \in moved THEN t[r] ELSE t[q]
  BY <1>1 DEF r
<1> HIDE DEF u
<1>9. IsPrefix(from, q) => q \notin DOMAIN u
  BY <1>2, <1>5, <1>6, <1>7
<1>10. IsPrefix(to, q) =>
         /\ q \in DOMAIN u <=> q \in DOMAIN t \/ r \in DOMAIN t
         /\ q \in DOMAIN u => u[q] = IF r \in DOMAIN t THEN t[r] ELSE t[q]
  BY <1>2, <1>4, <1>5, <1>6, <1>7, <1>8
<1>11. ~IsPrefix(from, q) /\ ~IsPrefix(to, q) =>
         /\ q \in DOMAIN u <=> q \in DOMAIN t
         /\ q \in DOMAIN t => u[q] = t[q]
  BY <1>2, <1>6, <1>7, <1>8
<1>12. QED
  BY <1>3, <1>9, <1>10, <1>11 DEF r, u

\* The path that has the name x after p and q were exchanged.
Swapped(p, q, x) ==
    IF IsPrefix(p, x) THEN Rebase(x, p, q)
    ELSE IF IsPrefix(q, x) THEN Rebase(x, q, p) ELSE x

(* (the names that Swap gives: it gives each its old name when done twice) *)
LEMMA SwappedFacts ==
    ASSUME NEW p \in Seq(Names), NEW q \in Seq(Names), Apart(p, q), NEW x \in Seq(Names)
    PROVE  /\ Swapped(p, q, x) \in Seq(Names)
           /\ Swapped(p, q, Swapped(p, q, x)) = x
           /\ IsPrefix(p, x) => IsPrefix(q, Swapped(p, q, x))
           /\ IsPrefix(q, x) => IsPrefix(p, Swapped(p, q, x))
           /\ ~IsPrefix(p, x) /\ ~IsPrefix(q, x) => Swapped(p, q, x) = x
<1>1. \A y \in Seq(Names) : ~(IsPrefix(p, y) /\ IsPrefix(q, y))
  BY PrefixesCompare DEF Apart
<1>2. CASE IsPrefix(p, x)
  <2> DEFINE y == Rebase(x, p, q)
  <2>1. y \in Seq(Names) /\ IsPrefix(q, y) /\ Rebase(y, q, p) = x
    BY <1>2, RebaseFacts
  <2>2. Swapped(p, q, x) = y
    BY <1>2 DEF Swapped
  <2> HIDE DEF y
  <2>3. Swapped(p, q, y) = x
    BY <1>1, <2>1 DEF Swapped
  <2>4. QED
    BY <1>1, <1>2, <2>1, <2>2, <2>3
<1>3. CASE IsPrefix(q, x)
  <2> DEFINE y == Rebase(x, q, p)
  <2>1. y \in Seq(Names) /\ IsPrefix(p, y) /\ Rebase(y, p, q) = x
    BY <1>3, RebaseFacts
  <2>2. Swapped(p, q, x) = y
    BY <1>1, <1>3 DEF Swapped
  <2> HIDE DEF y
  <2>3. Swapped(p, q, y) = x
    BY <2>1 DEF Swapped
  <2>4. QED
    BY <1>1, <1>3, <2>1, <2>2, <2>3
<1>4. CASE ~IsPrefix(p, x) /\ ~IsPrefix(q, x)
  BY <1>4 DEF Swapped
<1>5. QED
  BY <1>2, <1>3, <1>4

(* and Swap gives two subtrees the names of each other. *)
LEMMA SwapAt ==
    ASSUME NEW t, DOMAIN t \subseteq Seq(Names),
           NEW p \in Seq(Names), NEW q \in Seq(Names), Apart(p, q), NEW x \in Seq(Names)
    PROVE  /\ DOMAIN Swap(t, p, q) \subseteq Seq(Names)
           /\ x \in DOMAIN Swap(t, p, q) <=> Swapped(p, q, x) \in DOMAIN t
           /\ x \in DOMAIN Swap(t, p, q) => Swap(t, p, q)[x] = t[Swapped(p, q, x)]
<1> DEFINE names == {Swapped(p, q, y) : y \in DOMAIN t}
           u == Swap(t, p, q)
<1>1. u = [r \in names |-> t[Swapped(p, q, r)]]
  BY DEF Swap, Swapped
<1>2. \A y \in Seq(Names) : /\ Swapped(p, q, y) \in Seq(Names)
                            /\ Swapped(p, q, Swapped(p, q, y)) = y
  BY SwappedFacts
<1>3. names \subseteq Seq(Names)
  BY <1>2
<1>4. x \in names => Swapped(p, q, x) \in DOMAIN t
  BY <1>2
<1>5. Swapped(p, q, x) \in DOMAIN t => x \in names
  <2>1. SUFFICES ASSUME Swapped(p, q, x) \in DOMAIN t PROVE x \in names
    OBVIOUS
  <2>2. Swapped(p, q, Swapped(p, q, x)) \in names
    BY <2>1
  <2>3. QED
    BY <1>2, <2>2
<1> HIDE DEF names, u
<1>6. QED
  BY <1>1, <1>3, <1>4, <1>5 DEF u

(* The same for every tree and path. *)
LEMMA SwapAnywhere ==
    ASSUME NEW p \in Seq(Names), NEW r \in Seq(Names), Apart(p, r)
    PROVE  \A t : DOMAIN t \subseteq Seq(Names) =>
             \A q \in Seq(Names) :
               /\ q \in DOMAIN Swap(t, p, r) <=> Swapped(p, r, q) \in DOMAIN t
               /\ q \in DOMAIN Swap(t, p, r) => Swap(t, p, r)[q] = t[Swapped(p, r, q)]
<1>1. SUFFICES ASSUME NEW t, DOMAIN t \subseteq Seq(Names), NEW q \in Seq(Names)
               PROVE  /\ q \in DOMAIN Swap(t, p, r) <=> Swapped(p, r, q) \in DOMAIN t
                      /\ q \in DOMAIN Swap(t, p, r) => Swap(t, p, r)[q] = t[Swapped(p, r, q)]
  OBVIOUS
<1>2. QED
  BY <1>1, SwapAt

Parents(c) == {Parent(c.path)} \cup (IF c.op \in Moves THEN {Parent(c.to)} ELSE {})

(* Stamped changes the stamp of some paths and nothing else. *)
LEMMA StampedAt ==
    ASSUME NEW u, NEW ps, NEW stamp
    PROVE  /\ DOMAIN Stamped(u, ps, stamp) = DOMAIN u
           /\ \A q \in DOMAIN u : q \notin ps => Stamped(u, ps, stamp)[q] = u[q]
           /\ \A q \in DOMAIN u : q \in ps => Stamped(u, ps, stamp)[q] = [u[q] EXCEPT !.stamp = stamp]
BY DEF Stamped

(* Done, operation by operation, *)
LEMMA DoneIs ==
    ASSUME NEW c \in Call, NEW t, NEW stamp
    PROVE  /\ c.op \in Makes =>
                Done(c, t, stamp) =
                  Stamped(Set(t, c.path, [dir |-> c.op = "mkdir", link |-> c.op = "symlink", stamp |-> stamp]), Parents(c), stamp)
           /\ c.op \in Removes =>
                Done(c, t, stamp) = Stamped(Drop(t, c.path), Parents(c), stamp)
           /\ c.op = "rename" =>
                Done(c, t, stamp) =
                  Stamped(Move(IF c.to \in DOMAIN t THEN Drop(t, c.to) ELSE t, c.path, c.to),
                          Parents(c), stamp)
           /\ c.op = "exchange" =>
                Done(c, t, stamp) = Stamped(Swap(t, c.path, c.to), Parents(c), stamp)
           /\ c.op \in {"utimens", "chmod"} => Done(c, t, stamp) = Stamped(t, {c.path}, stamp)
<1>1. c.op \in Makes =>
        Done(c, t, stamp) =
          Stamped(Set(t, c.path, [dir |-> c.op = "mkdir", link |-> c.op = "symlink", stamp |-> stamp]), Parents(c), stamp)
  BY DEF Done, Stamped, Parents, Makes, Removes, Moves
<1>2. c.op \in Removes =>
        Done(c, t, stamp) = Stamped(Drop(t, c.path), Parents(c), stamp)
  BY DEF Done, Stamped, Parents, Makes, Removes, Moves
<1>3. c.op = "rename" =>
        Done(c, t, stamp) =
          Stamped(Move(IF c.to \in DOMAIN t THEN Drop(t, c.to) ELSE t, c.path, c.to),
                  Parents(c), stamp)
  BY DEF Done, Stamped, Parents, Makes, Removes, Moves
<1>4. c.op = "exchange" =>
        Done(c, t, stamp) = Stamped(Swap(t, c.path, c.to), Parents(c), stamp)
  BY DEF Done, Stamped, Parents, Makes, Removes, Moves
<1>5. c.op \in {"utimens", "chmod"} => Done(c, t, stamp) = Stamped(t, {c.path}, stamp)
  BY DEF Done, Stamped, Parents, Makes, Removes, Moves
<1>6. QED
  BY <1>1, <1>2, <1>3, <1>4, <1>5

(* and Updated. *)
LEMMA UpdatedIs ==
    ASSUME NEW c \in Call, NEW m, NEW stat, NEW parent
    PROVE  /\ c.op = "create" => Updated(c, m, stat, parent) = Set(m, c.path, stat)
           /\ c.op \in {"mkdir", "symlink"} =>
                Updated(c, m, stat, parent) = Set(Set(m, c.path, stat), Parent(c.path), parent)
           /\ c.op \in Removes =>
                Updated(c, m, stat, parent) = Set(Drop(m, c.path), Parent(c.path), parent)
           /\ c.op = "rename" => Updated(c, m, stat, parent) = Move(m, c.path, c.to)
           /\ c.op = "exchange" => Updated(c, m, stat, parent) = Swap(m, c.path, c.to)
           /\ c.op \in {"utimens", "chmod"} => Updated(c, m, stat, parent) = Set(m, c.path, stat)
BY DEF Updated, Removes

(* The operations, and how their sets overlap. *)
LEMMA OpCases ==
    ASSUME NEW c \in Call
    PROVE  /\ c.op \in Makes \/ c.op \in Removes \/ c.op = "rename" \/ c.op = "exchange"
              \/ c.op \in {"utimens", "chmod"}
           /\ c.op \in Makes <=> c.op = "create" \/ c.op \in {"mkdir", "symlink"}
           /\ c.op \in Moves <=> c.op = "rename" \/ c.op = "exchange"
           /\ c.op \in Makes => c.op \notin Removes /\ c.op \notin Moves
           /\ c.op \in Removes => c.op \notin Moves /\ c.op \notin Makes
           /\ c.op \in {"utimens", "chmod"} =>
                c.op \notin Makes /\ c.op \notin Removes /\ c.op \notin Moves
           /\ c.op \in Moves => c.op \notin Makes
BY DEF Call, AllOps, Makes, Removes, Moves

-----------------------------------------------------------------------------
(* Types.                                                                  *)

(* The paths of a call and their parents. *)
LEMMA PathTypes ==
    ASSUME NEW c \in Call
    PROVE  /\ c.path \in Seq(Names) /\ c.to \in Seq(Names)
           /\ Parent(c.path) \in Seq(Names) /\ Parent(c.to) \in Seq(Names)
<1>1. \A n \in 0..2 : \A p \in [1..n -> Names] : p \in Seq(Names)
  OBVIOUS
<1>2. Paths \subseteq Seq(Names)
  BY <1>1 DEF Paths, BoundedSeq, SeqOf
<1>3. c.path \in Seq(Names) /\ c.to \in Seq(Names)
  BY <1>2 DEF Call
<1>4. QED
  BY <1>3, ParentFacts

(* Set makes a tree of a tree. *)
LEMMA SetTyped ==
    ASSUME NEW t, IsTree(t), NEW p \in Seq(Names), NEW stat \in Stat
    PROVE  IsTree(Set(t, p, stat))
<1> DEFINE u == Set(t, p, stat)
<1> HIDE DEF u
<1>1. DOMAIN u = DOMAIN t \cup {p} /\ u[p] = stat /\ \A q \in DOMAIN t : q # p => u[q] = t[q]
  <2>1. u = Set(t, p, stat)
    BY DEF u
  <2>2. QED
    BY <2>1 DEF Set
<1>2. DOMAIN u \subseteq Seq(Names) /\ \A q \in DOMAIN u : u[q] \in Stat
  BY <1>1 DEF IsTree
<1>3. IsTree(u)
  BY <1>2 DEF IsTree
<1>4. QED
  BY <1>3 DEF u

(* So does Drop, *)
LEMMA DropTyped ==
    ASSUME NEW t, IsTree(t), NEW p
    PROVE  IsTree(Drop(t, p))
<1> DEFINE u == Drop(t, p)
<1>1. DOMAIN u = DOMAIN t \ {p} /\ \A q \in DOMAIN t : q # p => u[q] = t[q]
  BY DropAt
<1> HIDE DEF u
<1>2. DOMAIN u \subseteq Seq(Names) /\ \A q \in DOMAIN u : u[q] \in Stat
  BY <1>1 DEF IsTree
<1>3. IsTree(u)
  BY <1>2 DEF IsTree
<1>4. QED
  BY <1>3 DEF u

(* so does Move, whichever paths it is given, *)
LEMMA MoveTyped ==
    ASSUME NEW t, IsTree(t), NEW from \in Seq(Names), NEW to \in Seq(Names)
    PROVE  IsTree(Move(t, from, to))
<1> DEFINE moved == {Rebase(x, from, to) : x \in Under(t, from)}
           u == Move(t, from, to)
<1>1. u = [x \in (DOMAIN t \ Under(t, from)) \cup moved |->
             IF x \in moved THEN t[Rebase(x, to, from)] ELSE t[x]]
  BY DEF Move
<1>2. ASSUME NEW q \in moved PROVE q \in Seq(Names) /\ Rebase(q, to, from) \in DOMAIN t
  <2>1. PICK x \in Under(t, from) : q = Rebase(x, from, to)
    BY <1>2
  <2>2. x \in DOMAIN t /\ x \in Seq(Names) /\ IsPrefix(from, x)
    BY DEF Under, IsTree
  <2>3. Rebase(x, from, to) \in Seq(Names) /\ Rebase(Rebase(x, from, to), to, from) = x
    BY <2>2, RebaseFacts
  <2>4. QED
    BY <2>1, <2>2, <2>3
<1>3. \A q \in moved : t[Rebase(q, to, from)] \in Stat
  BY <1>2 DEF IsTree
<1> HIDE DEF moved, u
<1>4. DOMAIN u \subseteq Seq(Names)
  BY <1>1, <1>2 DEF IsTree
<1>5. \A q \in DOMAIN u : u[q] \in Stat
  BY <1>1, <1>3 DEF IsTree
<1>6. QED
  BY <1>4, <1>5 DEF IsTree, u

(* so does Swap of subtrees that are apart, *)
LEMMA SwapTyped ==
    ASSUME NEW t, IsTree(t), NEW p \in Seq(Names), NEW q \in Seq(Names), Apart(p, q)
    PROVE  IsTree(Swap(t, p, q))
<1> DEFINE u == Swap(t, p, q)
<1>1. DOMAIN t \subseteq Seq(Names)
  BY DEF IsTree
<1>2. \A x \in Seq(Names) :
        /\ DOMAIN u \subseteq Seq(Names)
        /\ x \in DOMAIN u <=> Swapped(p, q, x) \in DOMAIN t
        /\ x \in DOMAIN u => u[x] = t[Swapped(p, q, x)]
  BY <1>1, SwapAt
<1>3. DOMAIN u \subseteq Seq(Names)
  <2>1. p \in Seq(Names)
    OBVIOUS
  <2> HIDE DEF u
  <2>2. QED
    BY <1>2, <2>1
<1> HIDE DEF u
<1>4. \A x \in DOMAIN u : u[x] \in Stat
  BY <1>2, <1>3 DEF IsTree
<1>5. QED
  BY <1>3, <1>4 DEF IsTree, u

(* and Stamped. *)
LEMMA StampedTyped ==
    ASSUME NEW u, IsTree(u), NEW ps, NEW stamp \in Nat
    PROVE  IsTree(Stamped(u, ps, stamp))
<1> DEFINE v == Stamped(u, ps, stamp)
<1>1. DOMAIN v = DOMAIN u
  BY StampedAt
<1>2. ASSUME NEW q \in DOMAIN u PROVE v[q] \in Stat
  <2>1. u[q] \in Stat
    BY DEF IsTree
  <2>2. [u[q] EXCEPT !.stamp = stamp] \in Stat
    BY <2>1 DEF Stat
  <2>3. QED
    BY <2>1, <2>2, StampedAt
<1> HIDE DEF v
<1>3. QED
  BY <1>1, <1>2 DEF IsTree, v

(* What the server does with a call it allows leaves a tree. *)
LEMMA DoneTyped ==
    ASSUME NEW c \in Call, NEW t, IsTree(t), Allowed(c, t), NEW stamp \in Nat
    PROVE  IsTree(Done(c, t, stamp))
<1>1. c.path \in Seq(Names) /\ c.to \in Seq(Names)
  BY PathTypes
<1>2. CASE c.op \in Makes
  <2>1. [dir |-> c.op = "mkdir", link |-> c.op = "symlink", stamp |-> stamp] \in Stat
    BY DEF Stat
  <2>2. IsTree(Set(t, c.path, [dir |-> c.op = "mkdir", link |-> c.op = "symlink", stamp |-> stamp]))
    BY <1>1, <2>1, SetTyped
  <2>3. IsTree(Stamped(Set(t, c.path, [dir |-> c.op = "mkdir", link |-> c.op = "symlink", stamp |-> stamp]), Parents(c), stamp))
    BY <2>2, StampedTyped
  <2>4. QED
    BY Zenon, <1>2, <2>3, DoneIs
<1>3. CASE c.op \in Removes
  <2>1. IsTree(Drop(t, c.path))
    BY DropTyped
  <2>2. IsTree(Stamped(Drop(t, c.path), Parents(c), stamp))
    BY <2>1, StampedTyped
  <2>3. QED
    BY Zenon, <1>3, <2>2, DoneIs
<1>4. CASE c.op = "rename"
  <2>1. PICK u : u = IF c.to \in DOMAIN t THEN Drop(t, c.to) ELSE t
    OBVIOUS
  <2>2. IsTree(u)
    BY <2>1, DropTyped
  <2>3. IsTree(Move(u, c.path, c.to))
    BY <1>1, <2>2, MoveTyped
  <2>4. IsTree(Stamped(Move(u, c.path, c.to), Parents(c), stamp))
    BY <2>3, StampedTyped
  <2>5. QED
    BY Zenon, <1>4, <2>1, <2>4, DoneIs
<1>5. CASE c.op = "exchange"
  <2>1. Apart(c.path, c.to)
    BY <1>5 DEF Allowed, Makes, Removes
  <2>2. IsTree(Swap(t, c.path, c.to))
    BY <1>1, <2>1, SwapTyped
  <2>3. IsTree(Stamped(Swap(t, c.path, c.to), Parents(c), stamp))
    BY <2>2, StampedTyped
  <2>4. QED
    BY Zenon, <1>5, <2>3, DoneIs
<1>6. CASE c.op \in {"utimens", "chmod"}
  <2>1. IsTree(Stamped(t, {c.path}, stamp))
    BY StampedTyped
  <2>2. QED
    BY Zenon, <1>6, <2>1, DoneIs
<1>7. QED
  BY <1>2, <1>3, <1>4, <1>5, <1>6, OpCases

\* The calls that the kernel makes.
CallOK(c) ==
    /\ c.op \notin Moves => c.to = Root
    /\ c.op \in Namespace => c.path # Root
    /\ c.op \in Moves => c.to # Root /\ Apart(c.path, c.to)

(* And so does what the cache makes of it. *)
LEMMA UpdatedTyped ==
    ASSUME NEW c \in Call, CallOK(c), NEW m, IsTree(m), NEW stat \in Stat, NEW parent \in Stat
    PROVE  IsTree(Updated(c, m, stat, parent))
<1>1. c.path \in Seq(Names) /\ c.to \in Seq(Names) /\ Parent(c.path) \in Seq(Names)
  BY PathTypes
<1>2. IsTree(Set(m, c.path, stat))
  BY <1>1, SetTyped
<1>3. IsTree(Set(Set(m, c.path, stat), Parent(c.path), parent))
  BY <1>1, <1>2, SetTyped
<1>4. IsTree(Set(Drop(m, c.path), Parent(c.path), parent))
  BY <1>1, DropTyped, SetTyped
<1>5. IsTree(Move(m, c.path, c.to))
  BY <1>1, MoveTyped
<1>6. ASSUME c.op = "exchange" PROVE IsTree(Swap(m, c.path, c.to))
  <2>1. Apart(c.path, c.to)
    BY <1>6 DEF CallOK, Moves
  <2>2. QED
    BY <1>1, <2>1, SwapTyped
<1>7. QED
  BY <1>2, <1>3, <1>4, <1>5, <1>6, UpdatedIs, OpCases

-----------------------------------------------------------------------------
(* The region of a call: the paths it reads or writes.                     *)

InRegion(c, q) ==
    \/ q \in Locked(c)
    \/ c.op \in Removes \cup Moves /\ \E p \in {c.path, c.to} \ {Root} : IsPrefix(p, q)

(* The region, case by case. *)
LEMMA RegionIs ==
    ASSUME NEW c \in Call, CallOK(c), NEW q \in Seq(Names)
    PROVE  InRegion(c, q) <=>
             \/ q = c.path
             \/ c.op \in Namespace /\ q = Parent(c.path)
             \/ c.op \in Moves /\ (q = c.to \/ q = Parent(c.to))
             \/ c.op \in Removes \cup Moves /\ IsPrefix(c.path, q)
             \/ c.op \in Moves /\ IsPrefix(c.to, q)
<1>1. q \in Locked(c) <=>
        \/ q = c.path
        \/ c.op \in Namespace /\ q = Parent(c.path)
        \/ c.op \in Moves /\ (q = c.to \/ q = Parent(c.to))
  BY DEF Locked
<1>2. c.op \in Moves => c.op \notin Removes /\ c.op \in Namespace /\ c.to # Root
  BY OpCases DEF Namespace, CallOK
<1>3. c.op \in Removes => c.op \notin Moves /\ c.op \in Namespace /\ c.to = Root
  BY OpCases DEF Namespace, CallOK
<1>4. c.op \in Namespace => c.path # Root
  BY DEF CallOK
<1>5. QED
  BY <1>1, <1>2, <1>3, <1>4 DEF InRegion

(* A parent is outside of the subtrees that its call moves or removes. *)
LEMMA ParentsOutside ==
    ASSUME NEW c \in Call, CallOK(c)
    PROVE  /\ c.op \in Namespace =>
                /\ Parent(c.path) # c.path
                /\ ~IsPrefix(c.path, Parent(c.path))
           /\ c.op \in Moves =>
                /\ ~IsPrefix(c.path, Parent(c.path)) /\ ~IsPrefix(c.to, Parent(c.path))
                /\ ~IsPrefix(c.path, Parent(c.to)) /\ ~IsPrefix(c.to, Parent(c.to))
<1>1. /\ c.path \in Seq(Names) /\ c.to \in Seq(Names)
      /\ Parent(c.path) \in Seq(Names) /\ Parent(c.to) \in Seq(Names)
  BY PathTypes
<1>2. ASSUME c.op \in Namespace
      PROVE  /\ Parent(c.path) # c.path
             /\ ~IsPrefix(c.path, Parent(c.path)) /\ IsPrefix(Parent(c.path), c.path)
  <2>1. c.path # <<>>
    BY <1>2 DEF CallOK, Root
  <2>2. QED
    BY <1>1, <2>1, ParentFacts
<1>3. ASSUME c.op \in Moves
      PROVE  /\ ~IsPrefix(c.path, Parent(c.path)) /\ ~IsPrefix(c.to, Parent(c.path))
             /\ ~IsPrefix(c.path, Parent(c.to)) /\ ~IsPrefix(c.to, Parent(c.to))
  <2>1. c.to # <<>> /\ ~IsPrefix(c.path, c.to) /\ ~IsPrefix(c.to, c.path)
    BY <1>3 DEF CallOK, Root, Apart
  <2>2. ~IsPrefix(c.to, Parent(c.to)) /\ IsPrefix(Parent(c.to), c.to)
    BY <1>1, <2>1, ParentFacts
  <2>3. ~IsPrefix(c.path, Parent(c.path)) /\ IsPrefix(Parent(c.path), c.path)
    BY <1>2, <1>3 DEF Namespace
  <2>4. ~IsPrefix(c.to, Parent(c.path))
    BY <1>1, <2>1, <2>3, PrefixTransitive
  <2>5. ~IsPrefix(c.path, Parent(c.to))
    BY <1>1, <2>1, <2>2, PrefixTransitive
  <2>6. QED
    BY <2>2, <2>3, <2>4, <2>5
<1>4. QED
  BY <1>2, <1>3

(* The regions of two calls that do not conflict have no path in common. *)
LEMMA RegionsApart ==
    ASSUME NEW c \in Call, CallOK(c), NEW d \in Call, CallOK(d), ~Conflict(c, d),
           NEW q \in Seq(Names), InRegion(c, q)
    PROVE  ~InRegion(d, q)
<1> DEFINE Roots(e) == {p \in {e.path, e.to} \ {Root} : e.op \in Removes \cup Moves}
<1>1. SUFFICES ASSUME InRegion(d, q) PROVE Conflict(c, d)
  OBVIOUS
<1>2. ASSUME NEW e \in Call, CallOK(e)
      PROVE  /\ Roots(e) \subseteq Locked(e)
             /\ \A p \in Roots(e) : /\ p \in Seq(Names)
                                    /\ e.op \in Removes \cup Moves /\ p \in {e.path, e.to} \ {Root}
             /\ InRegion(e, q) => q \in Locked(e) \/ \E p \in Roots(e) : IsPrefix(p, q)
  <2>1. e.path \in Seq(Names) /\ e.to \in Seq(Names)
    BY <1>2, PathTypes
  <2>2. e.op \in Removes => e.op \notin Moves /\ e.to = Root
    BY <1>2, OpCases DEF CallOK
  <2>3. Roots(e) \subseteq Locked(e)
    BY <2>2 DEF Locked
  <2>4. InRegion(e, q) => q \in Locked(e) \/ \E p \in Roots(e) : IsPrefix(p, q)
    BY DEF InRegion
  <2>5. QED
    BY <2>1, <2>3, <2>4
<1>3. /\ Roots(c) \subseteq Locked(c) /\ Roots(d) \subseteq Locked(d)
      /\ \A p \in Roots(c) \cup Roots(d) : p \in Seq(Names)
  BY <1>2
<1>4. ASSUME NEW p \in Roots(c), NEW r \in Locked(d), IsPrefix(p, r) PROVE Conflict(c, d)
  <2>1. p \in Locked(c) /\ c.op \in Removes \cup Moves /\ p \in {c.path, c.to} \ {Root}
    BY <1>2
  <2>2. QED
    BY <1>4, <2>1 DEF Conflict
<1>5. ASSUME NEW p \in Locked(c), NEW r \in Roots(d), IsPrefix(r, p) PROVE Conflict(c, d)
  <2>1. r \in Locked(d) /\ d.op \in Removes \cup Moves /\ r \in {d.path, d.to} \ {Root}
    BY <1>2
  <2>2. QED
    BY <1>5, <2>1 DEF Conflict
<1>6. q \in Locked(c) \/ \E p \in Roots(c) : IsPrefix(p, q)
  BY <1>2
<1>7. q \in Locked(d) \/ \E p \in Roots(d) : IsPrefix(p, q)
  BY <1>1, <1>2
<1> HIDE DEF Roots
<1>8. CASE q \in Locked(c) /\ q \in Locked(d)
  BY <1>8 DEF Conflict
<1>9. CASE q \in Locked(c) /\ \E r \in Roots(d) : IsPrefix(r, q)
  BY <1>5, <1>9
<1>10. CASE q \in Locked(d) /\ \E p \in Roots(c) : IsPrefix(p, q)
  BY <1>4, <1>10
<1>11. CASE (\E p \in Roots(c) : IsPrefix(p, q)) /\ \E r \in Roots(d) : IsPrefix(r, q)
  <2>1. PICK p \in Roots(c) : IsPrefix(p, q)
    BY <1>11
  <2>2. PICK r \in Roots(d) : IsPrefix(r, q)
    BY <1>11
  <2>3. IsPrefix(p, r) \/ IsPrefix(r, p)
    BY <1>3, <2>1, <2>2, PrefixesCompare
  <2>4. QED
    BY <1>3, <1>4, <1>5, <2>3
<1>12. QED
  BY <1>6, <1>7, <1>8, <1>9, <1>10, <1>11

(* Two trees are the same at q. *)
Agree(t, u, q) ==
    /\ q \in DOMAIN t <=> q \in DOMAIN u
    /\ q \in DOMAIN u => t[q] = u[q]

(* The server changes nothing outside of the region of a call. *)
LEMMA DoneElsewhere ==
    ASSUME NEW c \in Call, CallOK(c), NEW t, DOMAIN t \subseteq Seq(Names), NEW stamp,
           NEW q \in Seq(Names), ~InRegion(c, q)
    PROVE  Agree(Done(c, t, stamp), t, q)
<1>1. c.path \in Seq(Names) /\ c.to \in Seq(Names)
  BY PathTypes
<1>2. /\ q # c.path
      /\ c.op \in Namespace => q # Parent(c.path)
      /\ c.op \in Moves => /\ q # c.to /\ q # Parent(c.to)
                           /\ ~IsPrefix(c.path, q) /\ ~IsPrefix(c.to, q)
  BY RegionIs
<1>3. c.op \in Namespace => q \notin Parents(c)
  BY <1>2 DEF Parents
<1>4. ASSUME NEW u, NEW ps, q \notin ps, Agree(u, t, q)
      PROVE  Agree(Stamped(u, ps, stamp), t, q)
  BY <1>4, StampedAt DEF Agree
<1>5. CASE c.op \in Makes
  <2>1. PICK u : u = Set(t, c.path, [dir |-> c.op = "mkdir", link |-> c.op = "symlink", stamp |-> stamp])
    OBVIOUS
  <2>2. Agree(u, t, q)
    BY <1>2, <2>1 DEF Agree, Set
  <2>3. Agree(Stamped(u, Parents(c), stamp), t, q)
    BY <1>3, <1>4, <1>5, <2>2 DEF Namespace
  <2>4. QED
    BY Zenon, <1>5, <2>1, <2>3, DoneIs
<1>6. CASE c.op \in Removes
  <2>1. PICK u : u = Drop(t, c.path)
    OBVIOUS
  <2>2. Agree(u, t, q)
    BY <1>2, <2>1 DEF Agree, Drop
  <2>3. Agree(Stamped(u, Parents(c), stamp), t, q)
    BY <1>3, <1>4, <1>6, <2>2 DEF Namespace
  <2>4. QED
    BY Zenon, <1>6, <2>1, <2>3, DoneIs
<1>7. CASE c.op = "rename"
  <2>1. PICK v : v = IF c.to \in DOMAIN t THEN Drop(t, c.to) ELSE t
    OBVIOUS
  <2>2. c.op \in Moves /\ c.op \in Namespace
    BY <1>7 DEF Moves, Namespace
  <2>3. Agree(v, t, q) /\ DOMAIN v \subseteq Seq(Names)
    BY <1>2, <2>1, <2>2 DEF Agree, Drop
  <2>4. PICK u : u = Move(v, c.path, c.to)
    OBVIOUS
  <2>5. Apart(c.path, c.to)
    BY <2>2 DEF CallOK
  <2>6. /\ q \in DOMAIN u <=> q \in DOMAIN v
        /\ q \in DOMAIN v => u[q] = v[q]
    BY <1>1, <1>2, <2>2, <2>3, <2>4, <2>5, MoveAt
  <2>7. Agree(u, t, q)
    BY <2>3, <2>6 DEF Agree
  <2>8. Agree(Stamped(u, Parents(c), stamp), t, q)
    BY <1>3, <1>4, <2>2, <2>7
  <2>9. QED
    BY Zenon, <1>7, <2>1, <2>4, <2>8, DoneIs
<1>8. CASE c.op = "exchange"
  <2>1. PICK u : u = Swap(t, c.path, c.to)
    OBVIOUS
  <2>2. c.op \in Moves /\ c.op \in Namespace
    BY <1>8 DEF Moves, Namespace
  <2>3. Apart(c.path, c.to)
    BY <2>2 DEF CallOK
  <2>4. Swapped(c.path, c.to, q) = q
    BY <1>1, <1>2, <2>2, <2>3, SwappedFacts
  <2>5. /\ q \in DOMAIN u <=> q \in DOMAIN t
        /\ q \in DOMAIN u => u[q] = t[q]
    BY <1>1, <2>1, <2>3, <2>4, SwapAt
  <2>6. Agree(u, t, q)
    BY <2>5 DEF Agree
  <2>7. Agree(Stamped(u, Parents(c), stamp), t, q)
    BY <1>3, <1>4, <2>2, <2>6
  <2>8. QED
    BY Zenon, <1>8, <2>1, <2>7, DoneIs
<1>9. CASE c.op \in {"utimens", "chmod"}
  <2>1. Agree(t, t, q) /\ q \notin {c.path}
    BY <1>2 DEF Agree
  <2>2. Agree(Stamped(t, {c.path}, stamp), t, q)
    BY <1>4, <2>1
  <2>3. QED
    BY Zenon, <1>9, <2>2, DoneIs
<1>10. QED
  BY <1>5, <1>6, <1>7, <1>8, <1>9, OpCases

(* Neither does the cache. *)
LEMMA UpdatedElsewhere ==
    ASSUME NEW c \in Call, CallOK(c), NEW m, DOMAIN m \subseteq Seq(Names), NEW stat, NEW parent,
           NEW q \in Seq(Names), ~InRegion(c, q)
    PROVE  Agree(Updated(c, m, stat, parent), m, q)
<1>1. c.path \in Seq(Names) /\ c.to \in Seq(Names)
  BY PathTypes
<1>2. /\ q # c.path
      /\ c.op \in Namespace => q # Parent(c.path)
      /\ c.op \in Moves => /\ q # c.to /\ q # Parent(c.to)
                           /\ ~IsPrefix(c.path, q) /\ ~IsPrefix(c.to, q)
  BY RegionIs
<1> DEFINE u == Updated(c, m, stat, parent)
<1>3. /\ c.op = "create" => u = Set(m, c.path, stat)
      /\ c.op \in {"mkdir", "symlink"} =>
             u = Set(Set(m, c.path, stat), Parent(c.path), parent)
      /\ c.op \in Removes => u = Set(Drop(m, c.path), Parent(c.path), parent)
      /\ c.op = "rename" => u = Move(m, c.path, c.to)
      /\ c.op = "exchange" => u = Swap(m, c.path, c.to)
      /\ c.op \in {"utimens", "chmod"} => u = Set(m, c.path, stat)
  BY UpdatedIs
<1> SUFFICES Agree(u, m, q)
  OBVIOUS
<1> HIDE DEF u
<1>4. CASE c.op = "create" \/ c.op \in {"utimens", "chmod"}
  <2>1. u = Set(m, c.path, stat)
    BY <1>3, <1>4
  <2>2. QED
    BY <1>2, <2>1 DEF Agree, Set
<1>5. CASE c.op \in {"mkdir", "symlink"}
  <2>1. u = Set(Set(m, c.path, stat), Parent(c.path), parent)
    BY <1>3, <1>5
  <2>2. c.op \in Namespace
    BY <1>5 DEF Makes, Namespace
  <2>3. QED
    BY <1>2, <2>1, <2>2 DEF Agree, Set
<1>6. CASE c.op \in Removes
  <2>1. u = Set(Drop(m, c.path), Parent(c.path), parent)
    BY <1>3, <1>6
  <2>2. c.op \in Namespace
    BY <1>6 DEF Namespace
  <2>3. QED
    BY <1>2, <2>1, <2>2 DEF Agree, Set, Drop
<1>7. CASE c.op = "rename"
  <2>1. u = Move(m, c.path, c.to)
    BY <1>3, <1>7
  <2>2. c.op \in Moves /\ Apart(c.path, c.to)
    BY <1>7 DEF Moves, CallOK
  <2>3. /\ q \in DOMAIN u <=> q \in DOMAIN m
        /\ q \in DOMAIN m => u[q] = m[q]
    BY <1>1, <1>2, <2>1, <2>2, MoveAt
  <2>4. QED
    BY <2>3 DEF Agree
<1>8. CASE c.op = "exchange"
  <2>1. u = Swap(m, c.path, c.to)
    BY <1>3, <1>8
  <2>2. c.op \in Moves /\ Apart(c.path, c.to)
    BY <1>8 DEF Moves, CallOK
  <2>3. Swapped(c.path, c.to, q) = q
    BY <1>1, <1>2, <2>2, SwappedFacts
  <2>4. /\ q \in DOMAIN u <=> q \in DOMAIN m
        /\ q \in DOMAIN u => u[q] = m[q]
    BY <1>1, <2>1, <2>2, <2>3, SwapAt
  <2>5. QED
    BY <2>4 DEF Agree
<1>9. QED
  BY <1>4, <1>5, <1>6, <1>7, <1>8, OpCases

\* Two trees are the same in the region of a call.
AgreeIn(c, m, n) == \A q \in Seq(Names) : InRegion(c, q) => Agree(m, n, q)

(* What the cache makes of a call depends on nothing else. *)
LEMMA UpdatedAlike ==
    ASSUME NEW c \in Call, CallOK(c), NEW m, NEW n, NEW stat, NEW parent,
           DOMAIN m \subseteq Seq(Names), DOMAIN n \subseteq Seq(Names),
           AgreeIn(c, m, n)
    PROVE  /\ CanUpdate(c, m) <=> CanUpdate(c, n)
           /\ AgreeIn(c, Updated(c, m, stat, parent), Updated(c, n, stat, parent))
<1>1. c.path \in Seq(Names) /\ c.to \in Seq(Names) /\ Parent(c.path) \in Seq(Names)
      /\ Parent(c.to) \in Seq(Names)
  BY PathTypes
<1>2. /\ c.path \in DOMAIN m <=> c.path \in DOMAIN n
      /\ c.op \in Namespace => (Parent(c.path) \in DOMAIN m <=> Parent(c.path) \in DOMAIN n)
      /\ c.op \in Moves => (Parent(c.to) \in DOMAIN m <=> Parent(c.to) \in DOMAIN n)
      /\ c.op \in Moves => (c.to \in DOMAIN m <=> c.to \in DOMAIN n)
  BY <1>1, RegionIs DEF Agree, AgreeIn
<1>3. ASSUME c.op \in Removes PROVE Under(m, c.path) = Under(n, c.path)
  <2>1. ASSUME NEW q PROVE q \in Under(m, c.path) <=> q \in Under(n, c.path)
    <3>1. CASE q \in Seq(Names) /\ IsPrefix(c.path, q)
      <4>1. InRegion(c, q)
        BY <1>3, <3>1, RegionIs
      <4>2. QED
        BY <3>1, <4>1 DEF Under, Agree, AgreeIn
    <3>2. CASE ~(q \in Seq(Names) /\ IsPrefix(c.path, q))
      BY <3>2 DEF Under
    <3>3. QED
      BY <3>1, <3>2
  <2>2. QED
    BY <2>1 DEF Under
<1>4. CanUpdate(c, m) <=> CanUpdate(c, n)
  <2>1. CASE c.op \in Makes
    BY <1>2, <2>1, OpCases DEF CanUpdate, Namespace
  <2>2. CASE c.op \in Removes
    BY <1>2, <1>3, <2>2, OpCases DEF CanUpdate, HasChildren
  <2>3. CASE c.op = "rename"
    BY <1>2, <2>3, OpCases DEF CanUpdate
  <2>4. CASE c.op = "exchange"
    BY <1>2, <2>4, OpCases DEF CanUpdate
  <2>5. CASE c.op \in {"utimens", "chmod"}
    BY <1>2, <2>5, OpCases DEF CanUpdate
  <2>6. QED
    BY <2>1, <2>2, <2>3, <2>4, <2>5, OpCases
<1>5. ASSUME NEW q \in Seq(Names), InRegion(c, q)
      PROVE  Agree(Updated(c, m, stat, parent), Updated(c, n, stat, parent), q)
  <2>1. Agree(m, n, q)
    BY <1>5 DEF AgreeIn
  <2> DEFINE u == Updated(c, m, stat, parent)
             v == Updated(c, n, stat, parent)
  <2>2. /\ c.op = "create" => u = Set(m, c.path, stat)
        /\ c.op \in {"mkdir", "symlink"} =>
               u = Set(Set(m, c.path, stat), Parent(c.path), parent)
        /\ c.op \in Removes => u = Set(Drop(m, c.path), Parent(c.path), parent)
        /\ c.op = "rename" => u = Move(m, c.path, c.to)
        /\ c.op = "exchange" => u = Swap(m, c.path, c.to)
        /\ c.op \in {"utimens", "chmod"} => u = Set(m, c.path, stat)
    BY UpdatedIs
  <2>3. /\ c.op = "create" => v = Set(n, c.path, stat)
        /\ c.op \in {"mkdir", "symlink"} =>
               v = Set(Set(n, c.path, stat), Parent(c.path), parent)
        /\ c.op \in Removes => v = Set(Drop(n, c.path), Parent(c.path), parent)
        /\ c.op = "rename" => v = Move(n, c.path, c.to)
        /\ c.op = "exchange" => v = Swap(n, c.path, c.to)
        /\ c.op \in {"utimens", "chmod"} => v = Set(n, c.path, stat)
    BY UpdatedIs
  <2> SUFFICES Agree(u, v, q)
    OBVIOUS
  <2> HIDE DEF u, v
  <2>4. CASE c.op = "create" \/ c.op \in {"utimens", "chmod"}
    <3>1. u = Set(m, c.path, stat) /\ v = Set(n, c.path, stat)
      BY <2>2, <2>3, <2>4
    <3>2. QED
      BY <2>1, <3>1 DEF Agree, Set
  <2>5. CASE c.op \in {"mkdir", "symlink"}
    <3>1. /\ u = Set(Set(m, c.path, stat), Parent(c.path), parent)
          /\ v = Set(Set(n, c.path, stat), Parent(c.path), parent)
      BY <2>2, <2>3, <2>5
    <3>2. QED
      BY <2>1, <3>1 DEF Agree, Set
  <2>6. CASE c.op \in Removes
    <3>1. /\ u = Set(Drop(m, c.path), Parent(c.path), parent)
          /\ v = Set(Drop(n, c.path), Parent(c.path), parent)
      BY <2>2, <2>3, <2>6
    <3>2. QED
      BY <2>1, <3>1 DEF Agree, Set, Drop
  <2>7. CASE c.op = "rename"
    <3>1. u = Move(m, c.path, c.to) /\ v = Move(n, c.path, c.to)
      BY <2>2, <2>3, <2>7
    <3>2. c.op \in Moves /\ Apart(c.path, c.to)
      BY <2>7 DEF Moves, CallOK
    <3>3. PICK r : r = Rebase(q, c.to, c.path)
      OBVIOUS
    <3>4. IsPrefix(c.to, q) => r \in Seq(Names) /\ IsPrefix(c.path, r)
      BY <1>1, <3>3, RebaseFacts
    <3>5. IsPrefix(c.to, q) => Agree(m, n, r)
      BY <3>2, <3>4, RegionIs DEF AgreeIn
    <3>6. CASE IsPrefix(c.path, q)
      <4>1. q \notin DOMAIN u /\ q \notin DOMAIN v
        BY <1>1, <3>1, <3>2, <3>6, MoveAt
      <4>2. QED
        BY <4>1 DEF Agree
    <3>7. CASE IsPrefix(c.to, q)
      <4>1. /\ q \in DOMAIN u <=> q \in DOMAIN m \/ r \in DOMAIN m
            /\ q \in DOMAIN u => u[q] = IF r \in DOMAIN m THEN m[r] ELSE m[q]
        BY <1>1, <3>1, <3>2, <3>3, <3>7, MoveAt
      <4>2. /\ q \in DOMAIN v <=> q \in DOMAIN n \/ r \in DOMAIN n
            /\ q \in DOMAIN v => v[q] = IF r \in DOMAIN n THEN n[r] ELSE n[q]
        BY <1>1, <3>1, <3>2, <3>3, <3>7, MoveAt
      <4>3. QED
        BY <2>1, <3>5, <3>7, <4>1, <4>2 DEF Agree
    <3>8. CASE ~IsPrefix(c.path, q) /\ ~IsPrefix(c.to, q)
      <4>1. /\ q \in DOMAIN u <=> q \in DOMAIN m
            /\ q \in DOMAIN m => u[q] = m[q]
        BY <1>1, <3>1, <3>2, <3>8, MoveAt
      <4>2. /\ q \in DOMAIN v <=> q \in DOMAIN n
            /\ q \in DOMAIN n => v[q] = n[q]
        BY <1>1, <3>1, <3>2, <3>8, MoveAt
      <4>3. QED
        BY <2>1, <4>1, <4>2 DEF Agree
    <3>9. QED
      BY <3>6, <3>7, <3>8
  <2>8. CASE c.op = "exchange"
    <3>1. u = Swap(m, c.path, c.to) /\ v = Swap(n, c.path, c.to)
      BY <2>2, <2>3, <2>8
    <3>2. c.op \in Moves /\ Apart(c.path, c.to)
      BY <2>8 DEF Moves, CallOK
    <3>3. PICK r : r = Swapped(c.path, c.to, q)
      OBVIOUS
    <3>4. /\ r \in Seq(Names)
          /\ IsPrefix(c.path, q) => IsPrefix(c.to, r)
          /\ IsPrefix(c.to, q) => IsPrefix(c.path, r)
          /\ ~IsPrefix(c.path, q) /\ ~IsPrefix(c.to, q) => r = q
      BY <1>1, <3>2, <3>3, SwappedFacts
    <3>5. Agree(m, n, r)
      BY <2>1, <3>2, <3>4, RegionIs DEF AgreeIn
    <3>6. ASSUME NEW t, DOMAIN t \subseteq Seq(Names)
          PROVE  /\ q \in DOMAIN Swap(t, c.path, c.to) <=> r \in DOMAIN t
                 /\ q \in DOMAIN Swap(t, c.path, c.to) => Swap(t, c.path, c.to)[q] = t[r]
      BY <1>1, <3>2, <3>3, <3>6, SwapAt
    <3>7. /\ q \in DOMAIN u <=> r \in DOMAIN m
          /\ q \in DOMAIN u => u[q] = m[r]
      BY <3>1, <3>6
    <3>8. /\ q \in DOMAIN v <=> r \in DOMAIN n
          /\ q \in DOMAIN v => v[q] = n[r]
      BY <3>1, <3>6
    <3>9. QED
      BY <3>5, <3>7, <3>8 DEF Agree
  <2>9. QED
    BY <2>4, <2>5, <2>6, <2>7, <2>8, OpCases
<1>6. QED
  BY <1>4, <1>5 DEF AgreeIn

-----------------------------------------------------------------------------
(* The cache repeats what the server did.                                  *)

\* The cache m is right about the path q of the served tree d; about the attributes
\* of a directory, too, where "strict" is TRUE.
Same(m, d, q, strict) ==
    /\ q \in DOMAIN m <=> q \in DOMAIN d
    /\ q \in DOMAIN d =>
        /\ m[q].dir = d[q].dir
        /\ strict \/ ~d[q].dir => m[q] = d[q]

\* The directories that a call needs are in the cache.
HasParents(c, m) ==
    /\ c.op \in Namespace => IsDir(m, Parent(c.path))
    /\ c.op \in Moves => IsDir(m, Parent(c.to))

\* The cache is right about all that a call reads or writes.
SameIn(c, m, d, strict) == \A q \in Seq(Names) : InRegion(c, q) => Same(m, d, q, strict)

(* When the server does a call, operation by operation, *)
LEMMA AllowedIs ==
    ASSUME NEW c \in Call, NEW t, Allowed(c, t)
    PROVE  /\ c.op \in Makes => c.path \notin DOMAIN t /\ IsDir(t, Parent(c.path))
           /\ c.op \in Removes => c.path \in DOMAIN t /\ Under(t, c.path) = {c.path}
           /\ c.op = "rename" => c.path \in DOMAIN t /\ IsDir(t, Parent(c.to))
           /\ c.op = "exchange" =>
                c.path \in DOMAIN t /\ c.to \in DOMAIN t /\ Apart(c.path, c.to)
           /\ c.op \in {"utimens", "chmod"} => c.path \in DOMAIN t
BY OpCases DEF Allowed, HasChildren

(* and when the cache can repeat it. *)
LEMMA CanUpdateIs ==
    ASSUME NEW c \in Call, NEW m
    PROVE  /\ c.op \in Makes /\ c.path \notin DOMAIN m /\ Parent(c.path) \in DOMAIN m => CanUpdate(c, m)
           /\ c.op \in Removes /\ c.path \in DOMAIN m /\ Under(m, c.path) = {c.path} => CanUpdate(c, m)
           /\ c.op = "rename" =>
                (CanUpdate(c, m) <=> /\ c.path \in DOMAIN m /\ Parent(c.to) \in DOMAIN m
                                     /\ c.to \notin DOMAIN m)
           /\ c.op = "exchange" /\ c.path \in DOMAIN m /\ c.to \in DOMAIN m => CanUpdate(c, m)
           /\ c.op \in {"utimens", "chmod"} /\ c.path \in DOMAIN m => CanUpdate(c, m)
BY OpCases DEF CanUpdate, HasChildren

(* create, mkdir and symlink. *)
LEMMA MakesRepeats ==
    ASSUME NEW c \in Call, CallOK(c), c.op \in Makes,
           NEW m, NEW d, IsTree(d), IsTree(m), Allowed(c, d), HasParents(c, m),
           NEW strict \in BOOLEAN, SameIn(c, m, d, strict), strict => c.op \notin Partial,
           NEW stamp \in Nat, NEW e, e = Done(c, d, stamp)
    PROVE  /\ CanUpdate(c, m)
           /\ SameIn(c, Updated(c, m, e[c.path], e[Parent(c.path)]), e, strict)
<1> DEFINE p == c.path
           r == Parent(c.path)
           new == [dir |-> c.op = "mkdir", link |-> c.op = "symlink", stamp |-> stamp]
           u == Updated(c, m, e[p], e[r])
<1>1. p \in Seq(Names) /\ r \in Seq(Names)
  BY PathTypes
<1>2. c.op \in Namespace /\ c.op \notin Moves /\ c.op \notin Removes /\ Parents(c) = {r}
  BY OpCases DEF Namespace, Parents
<1>3. r # p
  BY <1>2, ParentsOutside
<1>4. p \notin DOMAIN d /\ r \in DOMAIN d /\ d[r].dir
  BY AllowedIs DEF IsDir
<1>5. InRegion(c, p) /\ InRegion(c, r)
  BY <1>1, <1>2, RegionIs
<1>6. Same(m, d, p, strict) /\ Same(m, d, r, strict)
  BY <1>1, <1>5 DEF SameIn
<1>7. p \notin DOMAIN m /\ r \in DOMAIN m /\ m[r].dir = d[r].dir
  BY <1>4, <1>6 DEF Same
<1>8. CanUpdate(c, m)
  BY <1>7, CanUpdateIs
<1>9. e = Stamped(Set(d, p, new), {r}, stamp)
  <2>1. Done(c, d, stamp) = Stamped(Set(d, p, new), Parents(c), stamp)
    BY Zenon, DoneIs
  <2>2. QED
    BY Zenon, <1>2, <2>1
<1>10. /\ p \in DOMAIN e /\ r \in DOMAIN e
       /\ e[r] = [d[r] EXCEPT !.stamp = stamp]
  <2>1. PICK v : v = Set(d, p, new)
    OBVIOUS
  <2>2. p \in DOMAIN v /\ r \in DOMAIN v /\ v[r] = d[r]
    BY <1>3, <1>4, <2>1 DEF Set
  <2>3. e = Stamped(v, {r}, stamp)
    BY <1>9, <2>1
  <2>4. QED
    BY <2>2, <2>3, StampedAt
<1>11. e[r].dir = d[r].dir
  <2>1. d[r] \in Stat
    BY <1>4 DEF IsTree
  <2>2. QED
    BY <1>10, <2>1 DEF Stat
<1>12. p \in DOMAIN u /\ u[p] = e[p]
  <2>1. CASE c.op = "create"
    <3>1. u = Set(m, p, e[p])
      BY <2>1, UpdatedIs
    <3>2. QED
      BY <3>1 DEF Set
  <2>2. CASE c.op \in {"mkdir", "symlink"}
    <3>1. u = Set(Set(m, p, e[p]), r, e[r])
      BY <2>2, UpdatedIs
    <3>2. QED
      BY <1>3, <3>1 DEF Set
  <2>3. QED
    BY <2>1, <2>2, OpCases
<1>13. r \in DOMAIN u /\ u[r] = IF c.op = "create" THEN m[r] ELSE e[r]
  <2>1. CASE c.op = "create"
    <3>1. u = Set(m, p, e[p])
      BY <2>1, UpdatedIs
    <3>2. QED
      BY <1>3, <1>7, <2>1, <3>1 DEF Set
  <2>2. CASE c.op \in {"mkdir", "symlink"}
    <3>1. u = Set(Set(m, p, e[p]), r, e[r])
      BY <2>2, UpdatedIs
    <3>2. QED
      BY <2>2, <3>1 DEF Set
  <2>3. QED
    BY <2>1, <2>2, OpCases
<1> SUFFICES SameIn(c, u, e, strict)
  BY <1>8
<1> HIDE DEF u, new
<1>14. Same(u, e, p, strict)
  BY <1>10, <1>12 DEF Same
<1>15. Same(u, e, r, strict)
  <2>1. CASE c.op = "create"
    <3>1. u[r] = m[r] /\ ~strict
      BY <1>13, <2>1 DEF Partial
    <3>2. QED
      BY <1>4, <1>7, <1>10, <1>11, <1>13, <3>1 DEF Same
  <2>2. CASE c.op # "create"
    <3>1. u[r] = e[r]
      BY <1>13, <2>2
    <3>2. QED
      BY <1>10, <1>13, <3>1 DEF Same
  <2>3. QED
    BY <2>1, <2>2
<1>16. ASSUME NEW q \in Seq(Names), InRegion(c, q) PROVE q = p \/ q = r
  BY <1>2, <1>16, RegionIs
<1>17. QED
  BY <1>14, <1>15, <1>16 DEF SameIn

(* rmdir and unlink. *)
LEMMA RemovesRepeats ==
    ASSUME NEW c \in Call, CallOK(c), c.op \in Removes,
           NEW m, NEW d, IsTree(d), IsTree(m), Allowed(c, d), HasParents(c, m),
           NEW strict \in BOOLEAN, SameIn(c, m, d, strict),
           NEW stamp \in Nat, NEW e, e = Done(c, d, stamp)
    PROVE  /\ CanUpdate(c, m)
           /\ SameIn(c, Updated(c, m, e[c.path], e[Parent(c.path)]), e, strict)
<1> DEFINE p == c.path
           r == Parent(c.path)
           u == Updated(c, m, e[p], e[r])
<1>1. p \in Seq(Names) /\ r \in Seq(Names)
  BY PathTypes
<1>2. c.op \in Namespace /\ c.op \notin Moves /\ c.op \notin Makes /\ Parents(c) = {r}
  BY OpCases DEF Namespace, Parents
<1>3. r # p /\ ~IsPrefix(p, r)
  BY <1>2, ParentsOutside
<1>4. p \in DOMAIN d /\ Under(d, p) = {p}
  BY AllowedIs
<1>5. InRegion(c, p) /\ InRegion(c, r) /\ \A q \in Seq(Names) : IsPrefix(p, q) => InRegion(c, q)
  BY <1>1, <1>2, RegionIs
<1>6. /\ r \in DOMAIN m <=> r \in DOMAIN d
      /\ p \in DOMAIN m
      /\ \A q \in Seq(Names) : IsPrefix(p, q) => (q \in DOMAIN m <=> q \in DOMAIN d)
  BY <1>1, <1>4, <1>5 DEF SameIn, Same
<1>7. r \in DOMAIN m /\ r \in DOMAIN d
  BY <1>2, <1>6 DEF HasParents, IsDir
<1>8. Under(m, p) = {p}
  <2>1. Under(m, p) = Under(d, p)
    BY <1>6 DEF Under, IsTree
  <2>2. QED
    BY <1>4, <2>1
<1>9. CanUpdate(c, m)
  BY <1>6, <1>8, CanUpdateIs
<1>10. e = Stamped(Drop(d, p), {r}, stamp)
  <2>1. Done(c, d, stamp) = Stamped(Drop(d, p), Parents(c), stamp)
    BY Zenon, DoneIs
  <2>2. QED
    BY Zenon, <1>2, <2>1
<1>11. DOMAIN e = DOMAIN d \ {p}
  BY <1>10 DEF Stamped, Drop
<1>12. u = Set(Drop(m, p), r, e[r])
  BY UpdatedIs
<1> SUFFICES SameIn(c, u, e, strict)
  BY <1>9
<1> HIDE DEF u
<1>13. DOMAIN u = DOMAIN m \ {p} /\ u[r] = e[r]
  BY <1>3, <1>7, <1>12 DEF Set, Drop
<1>14. ASSUME NEW q \in Seq(Names), InRegion(c, q) PROVE Same(u, e, q, strict)
  <2>1. CASE q = r
    BY <1>3, <1>7, <1>11, <1>13, <2>1 DEF Same
  <2>2. CASE IsPrefix(p, q)
    <3>1. q \in DOMAIN d => q = p
      BY <1>4, <2>2 DEF Under
    <3>2. q \notin DOMAIN e /\ q \notin DOMAIN u
      BY <1>6, <1>11, <1>13, <2>2, <3>1
    <3>3. QED
      BY <3>2 DEF Same
  <2>3. q = r \/ IsPrefix(p, q)
    BY <1>1, <1>2, <1>14, RegionIs, PrefixOfItself
  <2>4. QED
    BY <2>1, <2>2, <2>3
<1>15. QED
  BY <1>14 DEF SameIn

(* rename, when it replaces nothing. *)
LEMMA RenameRepeats ==
    ASSUME NEW c \in Call, CallOK(c), c.op = "rename",
           NEW m, NEW d, IsTree(d), IsTree(m), Allowed(c, d), HasParents(c, m),
           c.to \notin DOMAIN m,
           SameIn(c, m, d, FALSE),
           NEW stamp \in Nat, NEW e, e = Done(c, d, stamp), NEW stat, NEW parent
    PROVE  /\ CanUpdate(c, m)
           /\ SameIn(c, Updated(c, m, stat, parent), e, FALSE)
<1> DEFINE p == c.path
           r == c.to
           u == Updated(c, m, stat, parent)
           v == Move(d, p, r)
<1>1. /\ p \in Seq(Names) /\ r \in Seq(Names)
      /\ Parent(p) \in Seq(Names) /\ Parent(r) \in Seq(Names)
  BY PathTypes
<1>2. c.op \in Namespace /\ c.op \in Moves /\ Parents(c) = {Parent(p), Parent(r)}
  BY DEF Namespace, Moves, Parents
<1>3. Apart(p, r)
  BY <1>2 DEF CallOK
<1>4. /\ ~IsPrefix(p, Parent(p)) /\ ~IsPrefix(r, Parent(p))
      /\ ~IsPrefix(p, Parent(r)) /\ ~IsPrefix(r, Parent(r))
  BY <1>2, ParentsOutside
<1>5. InRegion(c, p) /\ InRegion(c, r) /\ InRegion(c, Parent(p)) /\ InRegion(c, Parent(r))
  BY <1>1, <1>2, RegionIs
<1>6. \A q \in Seq(Names) : IsPrefix(p, q) \/ IsPrefix(r, q) => InRegion(c, q)
  BY <1>2, RegionIs
<1>7. p \in DOMAIN d /\ r \notin DOMAIN d
  <2>1. p \in DOMAIN d
    BY AllowedIs
  <2>2. r \in DOMAIN m <=> r \in DOMAIN d
    BY <1>1, <1>5 DEF SameIn, Same
  <2>3. QED
    BY <2>1, <2>2
<1>8. p \in DOMAIN m /\ Parent(r) \in DOMAIN m
  <2>1. Parent(r) \in DOMAIN m
    BY <1>2 DEF HasParents, IsDir
  <2>2. p \in DOMAIN m
    BY <1>1, <1>5, <1>7 DEF SameIn, Same
  <2>3. QED
    BY <2>1, <2>2
<1>9. CanUpdate(c, m)
  BY <1>8, CanUpdateIs
<1>10. ASSUME NEW x \in {Parent(p), Parent(r)}
       PROVE  x \in DOMAIN d /\ d[x].dir /\ d[x] \in Stat
  <2>1. IsDir(m, x) /\ x \in Seq(Names) /\ InRegion(c, x)
    BY <1>1, <1>2, <1>5 DEF HasParents
  <2>2. x \in DOMAIN d /\ d[x].dir
    BY <2>1 DEF SameIn, Same, IsDir
  <2>3. QED
    BY <2>2 DEF IsTree
<1>11. e = Stamped(v, Parents(c), stamp)
  BY <1>7, DoneIs
<1>12. u = Move(m, p, r)
  BY UpdatedIs
<1>13. DOMAIN m \subseteq Seq(Names) /\ DOMAIN d \subseteq Seq(Names)
  BY DEF IsTree
<1> SUFFICES SameIn(c, u, e, FALSE)
  BY <1>9
<1>14. ASSUME NEW q \in Seq(Names), q \notin Parents(c)
       PROVE  /\ q \in DOMAIN e <=> q \in DOMAIN v
              /\ q \in DOMAIN v => e[q] = v[q]
  BY <1>11, <1>14, StampedAt
<1>15. ASSUME NEW q \in Parents(c)
       PROVE  /\ q \in DOMAIN e <=> q \in DOMAIN v
              /\ q \in DOMAIN v => e[q] = [v[q] EXCEPT !.stamp = stamp]
  BY <1>11, <1>15, StampedAt
<1> HIDE DEF u, v
<1>16. ASSUME NEW q \in Seq(Names), IsPrefix(p, q) PROVE Same(u, e, q, FALSE)
  <2>1. q \notin DOMAIN u
    BY <1>1, <1>3, <1>12, <1>13, <1>16, MoveAt
  <2>2. q \notin DOMAIN v
    BY <1>1, <1>3, <1>13, <1>16, MoveAt DEF v
  <2>3. q \notin Parents(c)
    BY <1>2, <1>4, <1>16
  <2>4. q \notin DOMAIN e
    BY <1>14, <2>2, <2>3
  <2>5. QED
    BY <2>1, <2>4 DEF Same
<1>17. ASSUME NEW q \in Seq(Names), IsPrefix(r, q) PROVE Same(u, e, q, FALSE)
  <2> DEFINE x == Rebase(q, r, p)
  <2>1. x \in Seq(Names) /\ IsPrefix(p, x)
    BY <1>1, <1>17, RebaseFacts
  <2>2. /\ q \in DOMAIN u <=> q \in DOMAIN m \/ x \in DOMAIN m
        /\ q \in DOMAIN u => u[q] = IF x \in DOMAIN m THEN m[x] ELSE m[q]
    BY <1>1, <1>3, <1>12, <1>13, <1>17, MoveAt
  <2>3. /\ q \in DOMAIN v <=> q \in DOMAIN d \/ x \in DOMAIN d
        /\ q \in DOMAIN v => v[q] = IF x \in DOMAIN d THEN d[x] ELSE d[q]
    BY <1>1, <1>3, <1>13, <1>17, MoveAt DEF v
  <2>4. q \notin Parents(c)
    BY <1>2, <1>4, <1>17
  <2>5. /\ q \in DOMAIN e <=> q \in DOMAIN v
        /\ q \in DOMAIN v => e[q] = v[q]
    BY <1>14, <2>4
  <2> HIDE DEF x
  <2>6. Same(m, d, q, FALSE) /\ Same(m, d, x, FALSE)
    BY <1>6, <1>17, <2>1 DEF SameIn
  <2>7. QED
    BY <2>2, <2>3, <2>5, <2>6 DEF Same
<1>18. ASSUME NEW q \in Parents(c) PROVE Same(u, e, q, FALSE)
  <2>1. q \in {Parent(p), Parent(r)} /\ q \in Seq(Names) /\ ~IsPrefix(p, q) /\ ~IsPrefix(r, q)
    BY <1>1, <1>2, <1>4
  <2>2. q \in DOMAIN d /\ d[q].dir /\ d[q] \in Stat
    BY <1>10, <2>1
  <2>3. Same(m, d, q, FALSE)
    BY <1>5, <2>1 DEF SameIn
  <2>4. q \in DOMAIN u /\ u[q] = m[q]
    <3>1. q \in DOMAIN m
      BY <2>2, <2>3 DEF Same
    <3>2. QED
      BY <1>1, <1>3, <1>12, <1>13, <2>1, <3>1, MoveAt
  <2>5. q \in DOMAIN v /\ v[q] = d[q]
    BY <1>1, <1>3, <1>13, <2>1, <2>2, MoveAt DEF v
  <2>6. q \in DOMAIN e /\ e[q] = [d[q] EXCEPT !.stamp = stamp]
    BY <1>15, <2>5
  <2>7. e[q].dir = d[q].dir
    BY <2>2, <2>6 DEF Stat
  <2>8. u[q].dir = e[q].dir
    BY <2>2, <2>3, <2>4, <2>7 DEF Same
  <2>9. QED
    BY <2>2, <2>4, <2>6, <2>7, <2>8 DEF Same
<1>19. ASSUME NEW q \in Seq(Names), InRegion(c, q)
       PROVE  q \in Parents(c) \/ IsPrefix(p, q) \/ IsPrefix(r, q)
  BY <1>1, <1>2, <1>19, RegionIs, PrefixOfItself
<1>20. QED
  BY <1>16, <1>17, <1>18, <1>19 DEF SameIn

(* rename that exchanges two paths. *)
LEMMA ExchangeRepeats ==
    ASSUME NEW c \in Call, CallOK(c), c.op = "exchange",
           NEW m, NEW d, IsTree(d), IsTree(m), Allowed(c, d), HasParents(c, m),
           SameIn(c, m, d, FALSE),
           NEW stamp \in Nat, NEW e, e = Done(c, d, stamp), NEW stat, NEW parent
    PROVE  /\ CanUpdate(c, m)
           /\ SameIn(c, Updated(c, m, stat, parent), e, FALSE)
<1> DEFINE p == c.path
           r == c.to
           u == Updated(c, m, stat, parent)
           v == Swap(d, p, r)
<1>1. /\ p \in Seq(Names) /\ r \in Seq(Names)
      /\ Parent(p) \in Seq(Names) /\ Parent(r) \in Seq(Names)
  BY PathTypes
<1>2. c.op \in Namespace /\ c.op \in Moves /\ Parents(c) = {Parent(p), Parent(r)}
  BY DEF Namespace, Moves, Parents
<1>3. Apart(p, r)
  BY <1>2 DEF CallOK
<1>4. /\ ~IsPrefix(p, Parent(p)) /\ ~IsPrefix(r, Parent(p))
      /\ ~IsPrefix(p, Parent(r)) /\ ~IsPrefix(r, Parent(r))
  BY <1>2, ParentsOutside
<1>5. InRegion(c, p) /\ InRegion(c, r) /\ InRegion(c, Parent(p)) /\ InRegion(c, Parent(r))
  BY <1>1, <1>2, RegionIs
<1>6. \A q \in Seq(Names) : IsPrefix(p, q) \/ IsPrefix(r, q) => InRegion(c, q)
  BY <1>2, RegionIs
<1>7. p \in DOMAIN d /\ r \in DOMAIN d
  BY AllowedIs
<1>8. p \in DOMAIN m /\ r \in DOMAIN m
  BY <1>1, <1>5, <1>7 DEF SameIn, Same
<1>9. CanUpdate(c, m)
  BY <1>8, CanUpdateIs
<1>10. ASSUME NEW x \in {Parent(p), Parent(r)}
       PROVE  x \in DOMAIN d /\ d[x].dir /\ d[x] \in Stat
  <2>1. IsDir(m, x) /\ x \in Seq(Names) /\ InRegion(c, x)
    BY <1>1, <1>2, <1>5 DEF HasParents
  <2>2. x \in DOMAIN d /\ d[x].dir
    BY <2>1 DEF SameIn, Same, IsDir
  <2>3. QED
    BY <2>2 DEF IsTree
<1>11. e = Stamped(v, Parents(c), stamp)
  BY DoneIs
<1>12. u = Swap(m, p, r)
  BY UpdatedIs
<1>13. DOMAIN m \subseteq Seq(Names) /\ DOMAIN d \subseteq Seq(Names)
  BY DEF IsTree
<1> SUFFICES SameIn(c, u, e, FALSE)
  BY <1>9
<1>14. ASSUME NEW q \in Seq(Names), q \notin Parents(c)
       PROVE  /\ q \in DOMAIN e <=> q \in DOMAIN v
              /\ q \in DOMAIN v => e[q] = v[q]
  BY <1>11, <1>14, StampedAt
<1>15. ASSUME NEW q \in Parents(c)
       PROVE  /\ q \in DOMAIN e <=> q \in DOMAIN v
              /\ q \in DOMAIN v => e[q] = [v[q] EXCEPT !.stamp = stamp]
  BY <1>11, <1>15, StampedAt
<1>16. \A t : DOMAIN t \subseteq Seq(Names) =>
         \A q \in Seq(Names) :
           /\ q \in DOMAIN Swap(t, p, r) <=> Swapped(p, r, q) \in DOMAIN t
           /\ q \in DOMAIN Swap(t, p, r) => Swap(t, p, r)[q] = t[Swapped(p, r, q)]
  BY Zenon, <1>1, <1>3, SwapAnywhere
<1> HIDE DEF u
<1>17. ASSUME NEW q \in Seq(Names), IsPrefix(p, q) \/ IsPrefix(r, q) PROVE Same(u, e, q, FALSE)
  <2> DEFINE x == Swapped(p, r, q)
  <2>1. x \in Seq(Names) /\ (IsPrefix(p, x) \/ IsPrefix(r, x))
    BY <1>1, <1>3, <1>17, SwappedFacts
  <2>2. /\ q \in DOMAIN u <=> x \in DOMAIN m
        /\ q \in DOMAIN u => u[q] = m[x]
    BY <1>12, <1>13, <1>16
  <2>3. /\ q \in DOMAIN v <=> x \in DOMAIN d
        /\ q \in DOMAIN v => v[q] = d[x]
    BY <1>13, <1>16
  <2>4. q \notin Parents(c)
    BY <1>2, <1>4, <1>17
  <2>5. /\ q \in DOMAIN e <=> q \in DOMAIN v
        /\ q \in DOMAIN v => e[q] = v[q]
    BY <1>14, <2>4
  <2> HIDE DEF x
  <2>6. Same(m, d, x, FALSE)
    BY <1>6, <2>1 DEF SameIn
  <2> HIDE DEF v
  <2>7. QED
    BY <2>2, <2>3, <2>5, <2>6 DEF Same
<1>18. ASSUME NEW q \in Parents(c) PROVE Same(u, e, q, FALSE)
  <2>1. q \in {Parent(p), Parent(r)} /\ q \in Seq(Names) /\ ~IsPrefix(p, q) /\ ~IsPrefix(r, q)
    BY <1>1, <1>2, <1>4
  <2>2. q \in DOMAIN d /\ d[q].dir /\ d[q] \in Stat
    BY <1>10, <2>1
  <2>3. Same(m, d, q, FALSE)
    BY <1>5, <2>1 DEF SameIn
  <2>4. Swapped(p, r, q) = q
    BY <2>1 DEF Swapped
  <2>5. q \in DOMAIN u /\ u[q] = m[q]
    <3>1. q \in DOMAIN m
      BY <2>2, <2>3 DEF Same
    <3>2. QED
      BY <1>12, <1>13, <1>16, <2>1, <2>4, <3>1
  <2>6. q \in DOMAIN v /\ v[q] = d[q]
    BY <1>13, <1>16, <2>1, <2>2, <2>4
  <2>7. q \in DOMAIN e /\ e[q] = [d[q] EXCEPT !.stamp = stamp]
    BY <1>15, <2>6
  <2>8. e[q].dir = d[q].dir
    BY <2>2, <2>7 DEF Stat
  <2>9. u[q].dir = e[q].dir
    BY <2>2, <2>3, <2>5, <2>8 DEF Same
  <2>10. QED
    BY <2>2, <2>5, <2>7, <2>8, <2>9 DEF Same
<1>19. ASSUME NEW q \in Seq(Names), InRegion(c, q)
       PROVE  q \in Parents(c) \/ IsPrefix(p, q) \/ IsPrefix(r, q)
  BY <1>1, <1>2, <1>19, RegionIs, PrefixOfItself
<1>20. QED
  BY <1>17, <1>18, <1>19 DEF SameIn

(* chmod, utimens and truncate. *)
LEMMA AttributesRepeat ==
    ASSUME NEW c \in Call, CallOK(c), c.op \in {"utimens", "chmod"},
           NEW m, NEW d, IsTree(d), IsTree(m), Allowed(c, d),
           NEW strict \in BOOLEAN, SameIn(c, m, d, strict),
           NEW stamp \in Nat, NEW e, e = Done(c, d, stamp), NEW parent
    PROVE  /\ CanUpdate(c, m)
           /\ SameIn(c, Updated(c, m, e[c.path], parent), e, strict)
<1> DEFINE p == c.path
           u == Updated(c, m, e[p], parent)
<1>1. p \in Seq(Names)
  BY PathTypes
<1>2. c.op \notin Namespace /\ c.op \notin Moves /\ c.op \notin Removes
  BY OpCases DEF Namespace
<1>3. p \in DOMAIN d
  BY AllowedIs
<1>4. InRegion(c, p)
  BY <1>1, RegionIs
<1>5. p \in DOMAIN m
  BY <1>1, <1>3, <1>4 DEF SameIn, Same
<1>6. CanUpdate(c, m)
  BY <1>5, CanUpdateIs
<1>7. e = Stamped(d, {p}, stamp)
  BY DoneIs
<1>8. p \in DOMAIN e
  BY <1>3, <1>7, StampedAt
<1>9. u = Set(m, p, e[p])
  BY UpdatedIs
<1> SUFFICES SameIn(c, u, e, strict)
  BY <1>6
<1> HIDE DEF u
<1>10. p \in DOMAIN u /\ u[p] = e[p]
  BY <1>9 DEF Set
<1>11. Same(u, e, p, strict)
  BY <1>8, <1>10 DEF Same
<1>12. ASSUME NEW q \in Seq(Names), InRegion(c, q) PROVE q = p
  BY <1>2, <1>12, RegionIs
<1>13. QED
  BY <1>11, <1>12 DEF SameIn

(* Who knows the attributes of directories, too, knows the rest. *)
LEMMA SameWeakens ==
    ASSUME NEW m, NEW d, NEW q, NEW strict \in BOOLEAN, NEW loose \in BOOLEAN,
           loose => strict, Same(m, d, q, strict)
    PROVE  Same(m, d, q, loose)
BY DEF Same

(* The cache, right about what a call needs before the server does it, can repeat it
   after, and is then right about the same paths. *)
LEMMA CallRepeats ==
    ASSUME NEW c \in Call, CallOK(c),
           NEW m, NEW d, IsTree(d), IsTree(m), Allowed(c, d), HasParents(c, m),
           c.op = "rename" => c.to \notin DOMAIN m,
           NEW strict \in BOOLEAN, SameIn(c, m, d, strict),
           NEW loose \in BOOLEAN, loose => strict /\ c.op \notin Partial,
           NEW stamp \in Nat, NEW e, e = Done(c, d, stamp)
    PROVE  /\ CanUpdate(c, m)
           /\ SameIn(c, Updated(c, m, e[c.path], e[Parent(c.path)]), e, loose)
<1>1. SameIn(c, m, d, loose)
  BY SameWeakens DEF SameIn
<1>2. loose => c.op \notin Partial
  OBVIOUS
<1>3. CASE c.op \in Makes
  BY <1>1, <1>2, <1>3, MakesRepeats
<1>4. CASE c.op \in Removes
  BY <1>1, <1>4, RemovesRepeats
<1>5. c.op \in Moves => loose = FALSE
  BY DEF Partial
<1>6. CASE c.op = "rename"
  <2>1. SameIn(c, m, d, FALSE)
    BY <1>1, <1>5, <1>6 DEF Moves
  <2>2. /\ CanUpdate(c, m)
        /\ SameIn(c, Updated(c, m, e[c.path], e[Parent(c.path)]), e, FALSE)
    BY <1>6, <2>1, RenameRepeats
  <2>3. QED
    BY <1>5, <1>6, <2>2 DEF Moves
<1>7. CASE c.op = "exchange"
  <2>1. SameIn(c, m, d, FALSE)
    BY <1>1, <1>5, <1>7 DEF Moves
  <2>2. /\ CanUpdate(c, m)
        /\ SameIn(c, Updated(c, m, e[c.path], e[Parent(c.path)]), e, FALSE)
    BY <1>7, <2>1, ExchangeRepeats
  <2>3. QED
    BY <1>5, <1>7, <2>2 DEF Moves
<1>8. CASE c.op \in {"utimens", "chmod"}
  BY <1>1, <1>8, AttributesRepeat
<1>9. QED
  BY <1>3, <1>4, <1>6, <1>7, <1>8, OpCases

-----------------------------------------------------------------------------
(* Types, and what holds of each variable alone.                           *)

IsFunction(t) == t = [q \in DOMAIN t |-> t[q]]

CallsOK == \A t \in Threads : CallOK(call[t])
Functions == IsFunction(disk) /\ IsFunction(mirror) /\ IsFunction(snapshot)

Typed == TypeOK /\ CallsOK /\ Functions

(* Both trees stay functions: only so are they equal when they agree everywhere. *)
LEMMA DoneIsFunction ==
    ASSUME NEW c \in Call, NEW t, NEW stamp
    PROVE  IsFunction(Done(c, t, stamp))
<1>1. \A u, ps : IsFunction(Stamped(u, ps, stamp))
  BY DEF IsFunction, Stamped
<1>2. CASE c.op \in Makes
  <2>1. Done(c, t, stamp) =
          Stamped(Set(t, c.path, [dir |-> c.op = "mkdir", link |-> c.op = "symlink", stamp |-> stamp]), Parents(c), stamp)
    BY Zenon, <1>2, DoneIs
  <2>2. QED
    BY Zenon, <1>1, <2>1
<1>3. CASE c.op \in Removes
  <2>1. Done(c, t, stamp) = Stamped(Drop(t, c.path), Parents(c), stamp)
    BY <1>3, DoneIs
  <2>2. QED
    BY Zenon, <1>1, <2>1
<1>4. CASE c.op = "rename"
  <2>1. Done(c, t, stamp) =
          Stamped(Move(IF c.to \in DOMAIN t THEN Drop(t, c.to) ELSE t, c.path, c.to),
                  Parents(c), stamp)
    BY <1>4, DoneIs
  <2>2. QED
    BY Zenon, <1>1, <2>1
<1>5. CASE c.op = "exchange"
  <2>1. Done(c, t, stamp) = Stamped(Swap(t, c.path, c.to), Parents(c), stamp)
    BY <1>5, DoneIs
  <2>2. QED
    BY Zenon, <1>1, <2>1
<1>6. CASE c.op \in {"utimens", "chmod"}
  <2>1. Done(c, t, stamp) = Stamped(t, {c.path}, stamp)
    BY <1>6, DoneIs
  <2>2. QED
    BY Zenon, <1>1, <2>1
<1>7. QED
  BY <1>2, <1>3, <1>4, <1>5, <1>6, OpCases

(* The same of Updated. *)
LEMMA UpdatedIsFunction ==
    ASSUME NEW c \in Call, NEW m, NEW stat, NEW parent
    PROVE  IsFunction(Updated(c, m, stat, parent))
<1>1. \A t, p, s : IsFunction(Set(t, p, s))
  BY DEF IsFunction, Set
<1>2. \A t, p, r : IsFunction(Move(t, p, r))
  BY DEF IsFunction, Move
<1>3. \A t, p, r : IsFunction(Swap(t, p, r))
  BY DEF IsFunction, Swap
<1>4. CASE c.op = "create" \/ c.op \in {"utimens", "chmod"}
  <2>1. Updated(c, m, stat, parent) = Set(m, c.path, stat)
    BY <1>4, UpdatedIs
  <2>2. QED
    BY Zenon, <1>1, <2>1
<1>5. CASE c.op \in {"mkdir", "symlink"}
  <2>1. Updated(c, m, stat, parent) = Set(Set(m, c.path, stat), Parent(c.path), parent)
    BY <1>5, UpdatedIs
  <2>2. QED
    BY Zenon, <1>1, <2>1
<1>6. CASE c.op \in Removes
  <2>1. Updated(c, m, stat, parent) = Set(Drop(m, c.path), Parent(c.path), parent)
    BY <1>6, UpdatedIs
  <2>2. QED
    BY Zenon, <1>1, <2>1
<1>7. CASE c.op = "rename"
  <2>1. Updated(c, m, stat, parent) = Move(m, c.path, c.to)
    BY <1>7, UpdatedIs
  <2>2. QED
    BY Zenon, <1>2, <2>1
<1>8. CASE c.op = "exchange"
  <2>1. Updated(c, m, stat, parent) = Swap(m, c.path, c.to)
    BY <1>8, UpdatedIs
  <2>2. QED
    BY Zenon, <1>3, <2>1
<1>9. QED
  BY <1>4, <1>5, <1>6, <1>7, <1>8, OpCases

(* The calls that the kernel makes are calls. *)
LEMMA CallsTyped ==
    ASSUME NEW c \in Calls
    PROVE  /\ c \in Call
           /\ c.op \in Moves => c.path # Root /\ c.to # Root
           /\ c.op \notin Moves => c.to = Root
<1>1. Root \in Paths
  <2>1. Root \in [1..0 -> Names]
    BY DEF Root
  <2>2. Root \in SeqOf(Names, 2)
    BY <2>1 DEF SeqOf
  <2>3. QED
    BY <2>2 DEF Paths, BoundedSeq
<1>2. Ops \subseteq AllOps
  BY ConstantsAssumption
<1>3. CASE c \in [op : Ops \ Moves, path : Paths, to : {Root}]
  BY <1>1, <1>2, <1>3 DEF Call
<1>4. CASE c \in [op : Ops \cap Moves, path : Paths \ {Root}, to : Paths \ {Root}]
  BY <1>2, <1>4 DEF Call
<1>5. QED
  BY <1>3, <1>4 DEF Calls

(* The counters, in arithmetic alone. *)
LEMMA CountersTyped ==
    ASSUME Typed
    PROVE  /\ changes + 1 \in Nat
           /\ Count => events' \in 0..MaxEvents
<1>1. MaxEvents \in Nat
  BY ConstantsAssumption
<1>2. changes \in Nat /\ events \in 0..MaxEvents
  BY DEF Typed, TypeOK
<1>3. QED
  BY <1>1, <1>2 DEF Count

(* The variables have their types at first. *)
LEMMA TypedInit ==
    ASSUME Init
    PROVE  Typed
<1>1. PICK n \in Names :
        disk = [q \in {Root, <<n>>, <<n, n>>} |-> [dir |-> q # <<n, n>>, link |-> FALSE, stamp |-> 0]]
  BY DEF Init
<1>2. 0 \in Nat /\ 0 \in 0..MaxEvents
  BY ConstantsAssumption
<1>3. \A q : [dir |-> q # <<n, n>>, link |-> FALSE, stamp |-> 0] \in Stat
  BY <1>2 DEF Stat
<1>4. {Root, <<n>>, <<n, n>>} \subseteq Seq(Names)
  BY DEF Root
<1>5. IsTree(disk)
  BY <1>1, <1>3, <1>4 DEF IsTree
<1>6. IsFunction(disk)
  BY <1>1 DEF IsFunction
<1>7. NoStat \in Stat
  BY <1>2 DEF NoStat, Stat
<1>8. [op |-> "chmod", path |-> Root, to |-> Root] \in Call
  <2>1. Root \in [1..0 -> Names]
    BY DEF Root
  <2>2. Root \in Paths
    BY <2>1 DEF Paths, BoundedSeq, SeqOf
  <2>3. QED
    BY <2>2 DEF Call, AllOps
<1>9. TypeOK
  <2>1. mirror = disk /\ snapshot = mirror
    BY DEF Init
  <2>2. IsTree(mirror) /\ IsTree(snapshot)
    BY <1>5, <2>1
  <2>3. QED
    BY <1>2, <1>5, <1>7, <1>8, <2>2 DEF Init, TypeOK
<1>10. CallsOK
  BY DEF Init, CallsOK, CallOK, Namespace, Makes, Removes, Moves
<1>11. Functions
  <2>1. mirror = disk /\ snapshot = mirror
    BY DEF Init
  <2>2. QED
    BY <1>6, <2>1 DEF Functions
<1>12. QED
  BY <1>9, <1>10, <1>11 DEF Typed

(* A call that begins is one that the kernel makes (CallOK). *)
LEMMA TypedBegin ==
    ASSUME Typed, NEW t \in Threads, NEW c \in Calls, Begin(t, c)
    PROVE  Typed'
<1>1. /\ Count /\ Looked(c)
      /\ call' = [call EXCEPT ![t] = c]
      /\ step' = [step EXCEPT ![t] = "remote"]
      /\ tainted' = (tainted \/ load # "idle")
      /\ UNCHANGED <<disk, mirror, st, pst, late, changes, load, snapshot, due, dirsStale>>
  BY DEF Begin, Goto, loadVars
<1>2. c \in Call /\ CallOK(c)
  <2>1. c.op \in Namespace => c.path # Root
    BY <1>1 DEF Looked
  <2>2. c.op \in Moves => Apart(c.path, c.to)
    BY <1>1 DEF Looked
  <2>3. QED
    BY <2>1, <2>2, CallsTyped DEF CallOK
<1>3. TypeOK'
  <2>1. events' \in 0..MaxEvents
    BY <1>1, CountersTyped
  <2>2. IsTree(disk)' /\ IsTree(mirror)' /\ IsTree(snapshot)'
    BY <1>1 DEF Typed, TypeOK, IsTree
  <2>3. QED
    BY <1>1, <1>2, <2>1, <2>2 DEF Typed, TypeOK
<1>4. CallsOK'
  BY <1>1, <1>2 DEF Typed, TypeOK, CallsOK
<1>5. Functions'
  BY <1>1 DEF Typed, Functions, IsFunction
<1>6. QED
  BY <1>3, <1>4, <1>5 DEF Typed

\* The server executes a call.
Executes(c) ==
    /\ Allowed(c, disk)
    /\ disk' = Done(c, disk, changes + 1)

(* What the server makes is a tree that has the path whose attributes were set. *)
LEMMA TypedExecutes ==
    ASSUME Typed, NEW c \in Call, Executes(c)
    PROVE  /\ IsTree(disk)' /\ IsFunction(disk)'
           /\ c.op \in {"utimens", "chmod"} => c.path \in DOMAIN disk' /\ disk'[c.path] \in Stat
<1>1. PICK stamp \in Nat : stamp = changes + 1
  BY CountersTyped
<1>2. IsTree(disk)
  BY DEF Typed, TypeOK
<1>3. PICK e : e = disk'
  OBVIOUS
<1>4. Allowed(c, disk) /\ e = Done(c, disk, stamp)
  BY <1>1, <1>3 DEF Executes
<1>5. IsTree(e)
  BY <1>2, <1>4, DoneTyped
<1>6. IsFunction(e)
  BY <1>4, DoneIsFunction
<1>7. ASSUME c.op \in {"utimens", "chmod"} PROVE c.path \in DOMAIN e /\ e[c.path] \in Stat
  <2>1. e = Stamped(disk, {c.path}, stamp)
    BY <1>4, <1>7, DoneIs
  <2>2. c.path \in DOMAIN disk
    BY <1>4, <1>7, AllowedIs
  <2>3. c.path \in DOMAIN e
    BY <2>1, <2>2, StampedAt
  <2>4. QED
    BY <1>5, <2>3 DEF IsTree
<1>8. QED
  BY <1>3, <1>5, <1>6, <1>7 DEF IsTree, IsFunction

(* A tree of which utimens follows a symbolic link is a tree. *)
LEMMA TypedFollows ==
    ASSUME Typed, disk' \in Followed(disk, changes + 1)
    PROVE  IsTree(disk)' /\ IsFunction(disk)'
<1>1. PICK stamp \in Nat : stamp = changes + 1
  BY CountersTyped
<1>2. PICK e : e = disk'
  OBVIOUS
<1>3. e = disk \/ \E q \in DOMAIN disk : e = Stamped(disk, {q}, stamp)
  BY <1>1, <1>2 DEF Followed
<1>4. IsTree(disk) /\ IsFunction(disk)
  BY DEF Typed, TypeOK, Functions
<1>5. ASSUME NEW q PROVE IsTree(Stamped(disk, {q}, stamp))
  BY <1>4, StampedTyped
<1>6. ASSUME NEW q PROVE IsFunction(Stamped(disk, {q}, stamp))
  BY DEF IsFunction, Stamped
<1>7. IsTree(e) /\ IsFunction(e)
  BY <1>3, <1>4, <1>5, <1>6
<1>8. QED
  BY <1>2, <1>7 DEF IsTree, IsFunction

(* What the server makes is a tree, and chmod reads its attributes. *)
LEMMA TypedRemote ==
    ASSUME Typed, NEW t \in Threads, Remote(t) \/ RemoteFollows(t)
    PROVE  Typed'
<1>1. /\ changes' = changes + 1
      /\ step' = [step EXCEPT ![t] = After(call[t])]
      /\ UNCHANGED <<mirror, call, pst, late, events, load, snapshot, due>>
  BY DEF Remote, RemoteFollows, Change, Goto, loadVars
<1>2. PICK c \in Call : c = call[t]
  BY DEF Typed, TypeOK
<1>3. step' \in [Threads -> {"idle", "remote", "stat", "parent", "update"}]
  <2>1. After(call[t]) \in {"stat", "parent", "update"}
    BY DEF After
  <2>2. QED
    BY <1>1, <2>1 DEF Typed, TypeOK
<1>4. Remote(t) => Executes(c)
  BY <1>2 DEF Remote, Change, Executes
<1>5. st' \in [Threads -> Stat]
  <2>1. CASE Remote(t)
    <3>1. st' = IF c.op = "chmod" THEN [st EXCEPT ![t] = disk'[c.path]] ELSE st
      BY <1>2, <2>1 DEF Remote
    <3>2. c.op = "chmod" => disk'[c.path] \in Stat
      BY <1>4, <2>1, TypedExecutes
    <3>3. QED
      BY <3>1, <3>2 DEF Typed, TypeOK
  <2>2. CASE RemoteFollows(t)
    BY <2>2 DEF RemoteFollows, Typed, TypeOK
  <2>3. QED
    BY <2>1, <2>2
<1>6. tainted' \in BOOLEAN /\ dirsStale' \in BOOLEAN
  BY DEF Remote, RemoteFollows, Taint, Typed, TypeOK
<1>7. IsTree(disk)' /\ IsFunction(disk)'
  <2>1. CASE Remote(t)
    BY <1>4, <2>1, TypedExecutes
  <2>2. CASE RemoteFollows(t)
    <3>1. disk' \in Followed(disk, changes + 1)
      BY <2>2 DEF RemoteFollows, Change
    <3>2. QED
      BY <3>1, TypedFollows
  <2>3. QED
    BY <2>1, <2>2
<1>8. TypeOK'
  <2>1. IsTree(mirror)' /\ IsTree(snapshot)'
    BY <1>1 DEF Typed, TypeOK, IsTree
  <2>2. changes' \in Nat
    BY <1>1, CountersTyped
  <2>3. QED
    BY <1>1, <1>3, <1>5, <1>6, <1>7, <2>1, <2>2 DEF Typed, TypeOK
<1>9. CallsOK'
  BY <1>1 DEF Typed, CallsOK
<1>10. Functions'
  BY <1>1, <1>7 DEF Typed, Functions, IsFunction
<1>11. QED
  BY <1>8, <1>9, <1>10 DEF Typed

(* What it makes late is a tree, too. *)
LEMMA TypedLate ==
    ASSUME Typed, NEW c \in late, RemoteLate(c)
    PROVE  Typed'
<1>1. /\ changes' = changes + 1 /\ late' = late \ {c} /\ tainted' = TRUE
      /\ UNCHANGED <<mirror, call, step, st, pst, events, load, snapshot, due, dirsStale>>
  BY DEF RemoteLate, Change, Taint, callVars, loadVars
<1>2. c \in Call
  BY DEF Typed, TypeOK
<1>3. IsTree(disk)' /\ IsFunction(disk)'
  <2>1. CASE Follows(c, disk)
    <3>1. disk' \in Followed(disk, changes + 1)
      BY <2>1 DEF RemoteLate, Change
    <3>2. QED
      BY <3>1, TypedFollows
  <2>2. CASE ~Follows(c, disk)
    <3>1. Executes(c)
      BY <2>2 DEF RemoteLate, Change, Executes
    <3>2. QED
      BY <1>2, <3>1, TypedExecutes
  <2>3. QED
    BY <2>1, <2>2
<1>4. TypeOK'
  <2>1. IsTree(mirror)' /\ IsTree(snapshot)'
    BY <1>1 DEF Typed, TypeOK, IsTree
  <2>2. changes' \in Nat
    BY <1>1, CountersTyped
  <2>3. QED
    BY <1>1, <1>3, <2>1, <2>2 DEF Typed, TypeOK
<1>5. CallsOK' /\ Functions'
  BY <1>1, <1>3 DEF Typed, CallsOK, Functions, IsFunction
<1>6. QED
  BY <1>4, <1>5 DEF Typed

(* The attributes that come are those of a path of the tree. *)
LEMMA TypedAsks ==
    ASSUME Typed, NEW t \in Threads,
           RemoteFails(t) \/ RemoteTimesOut(t) \/ GetStat(t) \/ GetParent(t) \/ GetFails(t)
    PROVE  Typed'
<1>1. UNCHANGED <<disk, mirror, call, events, changes, load, snapshot, due, dirsStale>>
  BY DEF RemoteFails, RemoteTimesOut, GetStat, GetParent, GetFails, counters, loadVars, historyVars
<1>2. step' \in [Threads -> {"idle", "remote", "stat", "parent", "update"}]
  BY DEF RemoteFails, RemoteTimesOut, GetStat, GetParent, GetFails, Goto, Typed, TypeOK
<1>3. st' \in [Threads -> Stat]
  <2>1. CASE GetStat(t)
    <3>1. disk[call[t].path] \in Stat
      BY <2>1 DEF GetStat, Typed, TypeOK, IsTree
    <3>2. QED
      BY <2>1, <3>1 DEF GetStat, Typed, TypeOK
  <2>2. CASE ~GetStat(t)
    BY <2>2 DEF RemoteFails, RemoteTimesOut, GetParent, GetFails, Typed, TypeOK
  <2>3. QED
    BY <2>1, <2>2
<1>4. pst' \in [Threads -> Stat]
  <2>1. CASE GetParent(t)
    <3>1. disk[Parent(call[t].path)] \in Stat
      BY <2>1 DEF GetParent, Typed, TypeOK, IsTree
    <3>2. QED
      BY <2>1, <3>1 DEF GetParent, Typed, TypeOK
  <2>2. CASE ~GetParent(t)
    BY <2>2 DEF RemoteFails, RemoteTimesOut, GetStat, GetFails, Typed, TypeOK
  <2>3. QED
    BY <2>1, <2>2
<1>5. tainted' \in BOOLEAN /\ late' \in SUBSET Call
  BY DEF RemoteFails, RemoteTimesOut, GetStat, GetParent, GetFails, Taint, historyVars, Typed, TypeOK
<1>6. TypeOK'
  <2>1. IsTree(disk)' /\ IsTree(mirror)' /\ IsTree(snapshot)'
    BY <1>1 DEF Typed, TypeOK, IsTree
  <2>2. QED
    BY <1>1, <1>2, <1>3, <1>4, <1>5, <2>1 DEF Typed, TypeOK
<1>7. CallsOK' /\ Functions'
  BY <1>1 DEF Typed, CallsOK, Functions, IsFunction
<1>8. QED
  BY <1>6, <1>7 DEF Typed

(* What the cache makes is a tree, also where it throws half way. *)
LEMMA TypedUpdates ==
    ASSUME Typed, NEW t \in Threads, Update(t) \/ UpdateThrows(t)
    PROVE  Typed'
<1>1. UNCHANGED <<disk, call, st, pst, late, events, changes, load, snapshot, due, dirsStale>>
  BY DEF Update, UpdateThrows, counters, loadVars, historyVars
<1>2. PICK c \in Call : c = call[t]
  BY DEF Typed, TypeOK
<1>3. CallOK(c) /\ IsTree(mirror) /\ IsFunction(mirror) /\ st[t] \in Stat /\ pst[t] \in Stat
  BY <1>2 DEF Typed, TypeOK, CallsOK, Functions
<1>4. PICK m : m = mirror'
  OBVIOUS
<1>5. IsTree(m) /\ IsFunction(m)
  <2>1. CASE Update(t)
    <3>1. m = Updated(c, mirror, st[t], pst[t])
      BY <1>2, <1>4, <2>1 DEF Update
    <3>2. IsTree(Updated(c, mirror, st[t], pst[t]))
      BY <1>3, UpdatedTyped
    <3>3. IsFunction(Updated(c, mirror, st[t], pst[t]))
      BY UpdatedIsFunction
    <3>4. QED
      BY Zenon, <3>1, <3>2, <3>3
  <2>2. CASE UpdateThrows(t)
    <3>1. m = HalfUpdated(c, mirror, pst[t])
      BY <1>2, <1>4, <2>2 DEF UpdateThrows
    <3>2. m = mirror \/ m = Set(mirror, Parent(c.path), pst[t])
      BY <3>1 DEF HalfUpdated
    <3>3. IsTree(Set(mirror, Parent(c.path), pst[t]))
      <4>1. Parent(c.path) \in Seq(Names)
        BY PathTypes
      <4>2. QED
        BY <1>3, <4>1, SetTyped
    <3>4. IsFunction(Set(mirror, Parent(c.path), pst[t]))
      BY DEF IsFunction, Set
    <3>5. QED
      BY Zenon, <1>3, <3>2, <3>3, <3>4
  <2>3. QED
    BY <2>1, <2>2
<1>6. step' \in [Threads -> {"idle", "remote", "stat", "parent", "update"}]
  BY DEF Update, UpdateThrows, Goto, Typed, TypeOK
<1>7. tainted' \in BOOLEAN
  BY DEF Update, UpdateThrows, Taint, historyVars, Typed, TypeOK
<1>8. TypeOK'
  <2>1. IsTree(disk)' /\ IsTree(mirror)' /\ IsTree(snapshot)'
    BY <1>1, <1>4, <1>5 DEF Typed, TypeOK, IsTree
  <2>2. QED
    BY <1>1, <1>6, <1>7, <2>1 DEF Typed, TypeOK
<1>9. CallsOK'
  BY <1>1 DEF Typed, CallsOK
<1>10. Functions'
  BY <1>1, <1>4, <1>5 DEF Typed, Functions, IsFunction
<1>11. QED
  BY <1>8, <1>9, <1>10 DEF Typed

(* A change on the server takes a stamp within the bound. *)
LEMMA TypedEdit ==
    ASSUME Typed, NEW c \in Calls, Edit(c)
    PROVE  Typed'
<1>1. /\ Count /\ Executes(c)
      /\ changes' = changes + 1
      /\ due' = TRUE
      /\ UNCHANGED <<mirror, call, step, st, pst, late, load, snapshot, tainted, dirsStale>>
  BY DEF Edit, Change, Executes, callVars, loadVars
<1>2. c \in Call
  BY CallsTyped
<1>3. IsTree(disk)' /\ IsFunction(disk)'
  BY <1>1, <1>2, TypedExecutes
<1>4. TypeOK'
  <2>1. events' \in 0..MaxEvents /\ changes' \in Nat
    BY <1>1, CountersTyped
  <2>2. IsTree(mirror)' /\ IsTree(snapshot)'
    BY <1>1 DEF Typed, TypeOK, IsTree
  <2>3. QED
    BY <1>1, <1>3, <2>1, <2>2 DEF Typed, TypeOK
<1>5. CallsOK'
  BY <1>1 DEF Typed, CallsOK
<1>6. Functions'
  BY <1>1, <1>3 DEF Typed, Functions, IsFunction
<1>7. QED
  BY <1>4, <1>5, <1>6 DEF Typed

(* A load replaces a tree by a tree. *)
LEMMA TypedLoads ==
    ASSUME Typed, Scan \/ Populate \/ LoadFails
    PROVE  Typed'
<1>1. UNCHANGED <<disk, call, step, st, pst, late, changes>>
  BY DEF Scan, Populate, LoadFails, counters, callVars
<1>2. events' \in 0..MaxEvents
  <2>1. CASE Scan
    BY <2>1, CountersTyped DEF Scan
  <2>2. CASE Populate \/ LoadFails
    BY <2>2 DEF Populate, LoadFails, counters, Typed, TypeOK
  <2>3. QED
    BY <2>1, <2>2
<1>3. load' \in {"idle", "populate"} /\ due' \in BOOLEAN /\ tainted' \in BOOLEAN /\ dirsStale' \in BOOLEAN
  BY DEF Scan, Populate, LoadFails, Taint, historyVars, Typed, TypeOK
<1>4. /\ mirror' \in {mirror, snapshot}
      /\ snapshot' \in {disk, snapshot}
  BY DEF Scan, Populate, LoadFails
<1>5. IsTree(disk)' /\ IsTree(mirror)' /\ IsTree(snapshot)'
  BY <1>1, <1>4 DEF Typed, TypeOK, IsTree
<1>6. TypeOK'
  BY <1>1, <1>2, <1>3, <1>5 DEF Typed, TypeOK
<1>7. CallsOK'
  BY <1>1 DEF Typed, CallsOK
<1>8. Functions'
  BY <1>1, <1>4 DEF Typed, Functions, IsFunction
<1>9. QED
  BY <1>6, <1>7, <1>8 DEF Typed

(* Every step keeps the types. *)
LEMMA TypedStep ==
    ASSUME Typed, [Next]_vars
    PROVE  Typed'
<1>1. CASE UNCHANGED vars
  <2>1. UNCHANGED <<disk, mirror, call, step, st, pst, late, events, changes, load, snapshot,
                    due, tainted, dirsStale>>
    BY <1>1 DEF vars, callVars, counters, loadVars, historyVars
  <2>2. IsTree(disk)' /\ IsTree(mirror)' /\ IsTree(snapshot)'
    BY <2>1 DEF Typed, TypeOK, IsTree
  <2>3. TypeOK'
    BY <2>1, <2>2 DEF Typed, TypeOK
  <2>4. CallsOK' /\ Functions'
    BY <2>1 DEF Typed, CallsOK, Functions, IsFunction
  <2>5. QED
    BY <2>3, <2>4 DEF Typed
<1>2. ASSUME NEW t \in Threads, CallStep(t) PROVE Typed'
  BY <1>2, TypedBegin, TypedRemote, TypedAsks, TypedUpdates DEF CallStep
<1>3. ASSUME NEW c \in Calls, Edit(c) PROVE Typed'
  BY <1>3, TypedEdit
<1>4. ASSUME NEW c \in late, RemoteLate(c) PROVE Typed'
  BY <1>4, TypedLate
<1>5. QED
  BY <1>1, <1>2, <1>3, <1>4, TypedLoads DEF Next

-----------------------------------------------------------------------------
(* The invariant.                                                          *)

\* The server has executed the call of t, and the cache has not yet.
Executed(t) == step[t] \in {"stat", "parent", "update"}

\* Nothing has happened that only the next load puts right.
Sound == load = "idle" /\ ~due /\ ~tainted

\* The cache after the call of t, made with the attributes that the server has now.
Mirrored(t) == Updated(call[t], mirror, disk[call[t].path], disk[Parent(call[t].path)])

\* The kernel's locks keep the calls of two threads apart.
CallsApart ==
    \A t, u \in Threads :
        t # u /\ step[t] # "idle" /\ step[u] # "idle" => ~Conflict(call[t], call[u])

StepsFit == \A t \in Threads : step[t] = "stat" => call[t].op \in Makes \cup {"utimens"}

ParentsAreDirs == \A t \in Threads : step[t] # "idle" => HasParents(call[t], mirror)

\* The cache is right wherever no call is between the server and the cache;
Elsewhere ==
    \A q \in Seq(Names) :
        (\A t \in Threads : Executed(t) => ~InRegion(call[t], q))
            => Same(mirror, disk, q, ~dirsStale)

\* each call can still be repeated, and will make its part of the cache right,
UpdateIsRight ==
    \A t \in Threads :
        Executed(t) /\ ~Replaces(call[t])
            => /\ CanUpdate(call[t], mirror)
               /\ SameIn(call[t], Mirrored(t), disk, ~dirsStale)

\* for the attributes it has asked for are still those that the server has.
StatsAreRight ==
    \A t \in Threads :
        /\ step[t] \in {"parent", "update"} /\ call[t].op \in Makes \cup {"utimens", "chmod"}
             => st[t] = disk[call[t].path]
        /\ step[t] = "update" /\ call[t].op \in {"mkdir", "symlink"} \cup Removes
             => pst[t] = disk[Parent(call[t].path)]

LoadIsRight ==
    load = "populate" /\ ~due /\ ~tainted
        => snapshot = disk /\ \A t \in Threads : step[t] = "idle"

Consistent == ParentsAreDirs /\ Elsewhere /\ UpdateIsRight /\ StatsAreRight

IInv == Typed /\ CallsApart /\ StepsFit /\ (Sound => Consistent) /\ LoadIsRight

-----------------------------------------------------------------------------
(* What the steps have in common.                                          *)

(* The cache stays right about a path at which neither tree changes. *)
LEMMA SameAgree ==
    ASSUME NEW m, NEW n, NEW d, NEW e, NEW q, NEW strict \in BOOLEAN,
           Same(m, d, q, strict), Agree(n, m, q), Agree(e, d, q)
    PROVE  Same(n, e, q, strict)
BY DEF Same, Agree

(* A conflict is mutual. *)
LEMMA ConflictSymmetric ==
    ASSUME NEW c, NEW d, Conflict(c, d)
    PROVE  Conflict(d, c)
BY DEF Conflict

(* The directories that a call needs are in its region. *)
LEMMA ParentsAlike ==
    ASSUME NEW c \in Call, CallOK(c), NEW m, NEW n, AgreeIn(c, n, m), HasParents(c, m)
    PROVE  HasParents(c, n)
<1>1. Parent(c.path) \in Seq(Names) /\ Parent(c.to) \in Seq(Names)
  BY PathTypes
<1>2. c.op \in Namespace => Agree(n, m, Parent(c.path))
  BY <1>1, RegionIs DEF AgreeIn
<1>3. c.op \in Moves => Agree(n, m, Parent(c.to))
  BY <1>1, RegionIs DEF AgreeIn
<1>4. QED
  BY <1>2, <1>3 DEF HasParents, IsDir, Agree

(* The attributes an update reads. *)
LEMMA UpdatedReads ==
    ASSUME NEW c \in Call, NEW m, NEW s, NEW r, NEW s2, NEW r2,
           c.op \in Makes \cup {"utimens", "chmod"} => s = s2,
           c.op \in {"mkdir", "symlink"} \cup Removes => r = r2
    PROVE  Updated(c, m, s, r) = Updated(c, m, s2, r2)
<1>1. CASE c.op = "create" \/ c.op \in {"utimens", "chmod"}
  <2>1. Updated(c, m, s, r) = Set(m, c.path, s) /\ Updated(c, m, s2, r2) = Set(m, c.path, s2)
    BY <1>1, UpdatedIs
  <2>2. s = s2
    BY <1>1 DEF Makes
  <2>3. QED
    BY <2>1, <2>2
<1>2. CASE c.op \in {"mkdir", "symlink"}
  <2>1. Updated(c, m, s, r) = Set(Set(m, c.path, s), Parent(c.path), r)
    BY <1>2, UpdatedIs
  <2>2. Updated(c, m, s2, r2) = Set(Set(m, c.path, s2), Parent(c.path), r2)
    BY <1>2, UpdatedIs
  <2>3. s = s2 /\ r = r2
    BY <1>2 DEF Makes
  <2>4. QED
    BY <2>1, <2>2, <2>3
<1>3. CASE c.op \in Removes
  <2>1. Updated(c, m, s, r) = Set(Drop(m, c.path), Parent(c.path), r)
    BY <1>3, UpdatedIs
  <2>2. Updated(c, m, s2, r2) = Set(Drop(m, c.path), Parent(c.path), r2)
    BY <1>3, UpdatedIs
  <2>3. r = r2
    BY <1>3
  <2>4. QED
    BY <2>1, <2>2, <2>3
<1>4. CASE c.op = "rename"
  <2>1. Updated(c, m, s, r) = Move(m, c.path, c.to)
    BY <1>4, UpdatedIs
  <2>2. Updated(c, m, s2, r2) = Move(m, c.path, c.to)
    BY <1>4, UpdatedIs
  <2>3. QED
    BY <2>1, <2>2
<1>5. CASE c.op = "exchange"
  <2>1. Updated(c, m, s, r) = Swap(m, c.path, c.to)
    BY <1>5, UpdatedIs
  <2>2. Updated(c, m, s2, r2) = Swap(m, c.path, c.to)
    BY <1>5, UpdatedIs
  <2>3. QED
    BY <2>1, <2>2
<1>6. QED
  BY <1>1, <1>2, <1>3, <1>4, <1>5, OpCases

(* The paths whose attributes an update reads exist, if the update is right. *)
LEMMA ReadsExist ==
    ASSUME NEW c \in Call, CallOK(c), NEW m, NEW s, NEW r, NEW d, NEW strict \in BOOLEAN,
           SameIn(c, Updated(c, m, s, r), d, strict)
    PROVE  /\ c.op \in Makes \cup {"utimens", "chmod"} => c.path \in DOMAIN d
           /\ c.op \in {"mkdir", "symlink"} \cup Removes => Parent(c.path) \in DOMAIN d
<1> DEFINE u == Updated(c, m, s, r)
<1>1. c.path \in Seq(Names) /\ Parent(c.path) \in Seq(Names)
  BY PathTypes
<1>2. c.op \in Makes \cup {"utimens", "chmod"} => c.path \in DOMAIN u
  <2>1. CASE c.op = "create" \/ c.op \in {"utimens", "chmod"}
    <3>1. u = Set(m, c.path, s)
      BY <2>1, UpdatedIs
    <3>2. QED
      BY <3>1 DEF Set
  <2>2. CASE c.op \in {"mkdir", "symlink"}
    <3>1. u = Set(Set(m, c.path, s), Parent(c.path), r)
      BY <2>2, UpdatedIs
    <3>2. QED
      BY <3>1 DEF Set
  <2>3. QED
    BY <2>1, <2>2, OpCases
<1>3. c.op \in {"mkdir", "symlink"} \cup Removes => Parent(c.path) \in DOMAIN u
  <2>1. CASE c.op \in {"mkdir", "symlink"}
    <3>1. u = Set(Set(m, c.path, s), Parent(c.path), r)
      BY <2>1, UpdatedIs
    <3>2. QED
      BY <3>1 DEF Set
  <2>2. CASE c.op \in Removes
    <3>1. u = Set(Drop(m, c.path), Parent(c.path), r)
      BY <2>2, UpdatedIs
    <3>2. QED
      BY <3>1 DEF Set
  <2>3. QED
    BY <2>1, <2>2
<1>4. InRegion(c, c.path)
  BY <1>1, RegionIs
<1>5. c.op \in {"mkdir", "symlink"} \cup Removes => InRegion(c, Parent(c.path))
  <2>1. c.op \in {"mkdir", "symlink"} \cup Removes => c.op \in Namespace
    BY DEF Namespace, Makes
  <2>2. QED
    BY <1>1, <2>1, RegionIs
<1> HIDE DEF u
<1>6. SameIn(c, u, d, strict)
  BY DEF u
<1>7. QED
  BY <1>1, <1>2, <1>3, <1>4, <1>5, <1>6 DEF SameIn, Same

(* Calls of two threads under way touch different paths. *)
LEMMA OthersRegion ==
    ASSUME IInv, NEW t \in Threads, NEW u \in Threads, t # u, step[t] # "idle", step[u] # "idle",
           NEW q \in Seq(Names), InRegion(call[t], q)
    PROVE  ~InRegion(call[u], q)
<1>1. call[t] \in Call /\ call[u] \in Call
  BY DEF IInv, Typed, TypeOK
<1>2. CallOK(call[t]) /\ CallOK(call[u])
  BY DEF IInv, Typed, CallsOK
<1>3. ~Conflict(call[t], call[u])
  BY DEF IInv, CallsApart
<1>4. QED
  BY <1>1, <1>2, <1>3, RegionsApart

(* A thread whose call ends, or goes on, stays apart from the others. *)
LEMMA StaysApart ==
    ASSUME IInv, call' = call, \A t \in Threads : step'[t] # "idle" => step[t] # "idle"
    PROVE  CallsApart'
BY DEF IInv, CallsApart

-----------------------------------------------------------------------------
(* The steps.                                                              *)

(* The invariant holds at first, *)
LEMMA InvInit ==
    ASSUME Init
    PROVE  IInv
<1>1. Typed
  BY TypedInit
<1>2. \A t \in Threads : step[t] = "idle"
  BY DEF Init
<1>3. mirror = disk /\ load = "idle"
  BY DEF Init
<1>4. CallsApart /\ StepsFit /\ LoadIsRight
  BY <1>2, <1>3 DEF CallsApart, StepsFit, LoadIsRight
<1>5. ParentsAreDirs /\ UpdateIsRight /\ StatsAreRight
  BY <1>2 DEF ParentsAreDirs, UpdateIsRight, StatsAreRight, Executed
<1>6. Elsewhere
  BY <1>3 DEF Elsewhere, Same
<1>7. QED
  BY <1>1, <1>4, <1>5, <1>6 DEF IInv, Consistent

(* when a call begins, *)
LEMMA InvBegin ==
    ASSUME IInv, NEW t \in Threads, NEW c \in Calls, Begin(t, c)
    PROVE  IInv'
<1>1. /\ step[t] = "idle"
      /\ Looked(c)
      /\ \A u \in Threads : step[u] # "idle" => ~Conflict(c, call[u])
      /\ call' = [call EXCEPT ![t] = c]
      /\ step' = [step EXCEPT ![t] = "remote"]
      /\ tainted' = (tainted \/ load # "idle")
      /\ UNCHANGED <<disk, mirror, st, pst, load, snapshot, due, dirsStale>>
  BY DEF Begin, Goto, loadVars
<1>2. Typed'
  BY TypedBegin DEF IInv
<1>3. /\ call' \in [Threads -> Call] /\ step' \in [Threads -> {"idle", "remote", "stat", "parent", "update"}]
      /\ call'[t] = c /\ step'[t] = "remote"
      /\ \A u \in Threads \ {t} : call'[u] = call[u] /\ step'[u] = step[u]
  BY <1>1, <1>2 DEF IInv, Typed, TypeOK
<1>4. CallsApart'
  <2>1. SUFFICES ASSUME NEW u \in Threads, NEW v \in Threads, u # v,
                        step'[u] # "idle", step'[v] # "idle"
                 PROVE  ~Conflict(call'[u], call'[v])
    BY DEF CallsApart
  <2>2. CASE u = t
    <3>1. ~Conflict(c, call[v])
      BY <1>1, <1>3, <2>1, <2>2
    <3>2. QED
      BY <1>3, <2>1, <2>2, <3>1
  <2>3. CASE v = t
    <3>1. ~Conflict(c, call[u])
      BY <1>1, <1>3, <2>1, <2>3
    <3>2. ~Conflict(call[u], c)
      BY <3>1, ConflictSymmetric
    <3>3. QED
      BY <1>3, <2>1, <2>3, <3>2
  <2>4. CASE u # t /\ v # t
    BY <1>3, <2>1, <2>4 DEF IInv, CallsApart
  <2>5. QED
    BY <2>2, <2>3, <2>4
<1>5. StepsFit'
  BY <1>3 DEF IInv, StepsFit
<1>6. LoadIsRight'
  BY <1>1 DEF LoadIsRight
<1>7. ASSUME Sound' PROVE Consistent'
  <2>1. Sound
    BY <1>1, <1>7 DEF Sound, IInv, Typed, TypeOK
  <2>2. Consistent
    BY <2>1 DEF IInv
  <2>3. ParentsAreDirs'
    <3>1. HasParents(c, mirror)
      BY <1>1 DEF Looked, HasParents
    <3>2. SUFFICES ASSUME NEW u \in Threads, step'[u] # "idle"
                   PROVE  HasParents(call'[u], mirror')
      BY DEF ParentsAreDirs
    <3>3. CASE u = t
      BY <1>1, <1>3, <3>1, <3>3
    <3>4. CASE u # t
      BY <1>1, <1>3, <2>2, <3>2, <3>4 DEF Consistent, ParentsAreDirs
    <3>5. QED
      BY <3>3, <3>4
  <2>4. \A u \in Threads : Executed(u)' <=> (u # t /\ Executed(u))
    BY <1>1, <1>3 DEF Executed
  <2>5. Elsewhere'
    <3>1. SUFFICES ASSUME NEW q \in Seq(Names),
                          \A u \in Threads : Executed(u)' => ~InRegion(call'[u], q)
                   PROVE  Same(mirror', disk', q, ~dirsStale')
      BY DEF Elsewhere
    <3>2. \A u \in Threads : Executed(u) => u # t
      BY <1>1 DEF Executed
    <3>3. \A u \in Threads : Executed(u) => ~InRegion(call[u], q)
      BY <1>3, <2>4, <3>1, <3>2
    <3>4. Same(mirror, disk, q, ~dirsStale)
      BY <2>2, <3>3 DEF Consistent, Elsewhere
    <3>5. QED
      BY <1>1, <3>4
  <2>6. UpdateIsRight'
    <3>1. SUFFICES ASSUME NEW u \in Threads, Executed(u)', ~Replaces(call[u])'
                   PROVE  /\ CanUpdate(call'[u], mirror')
                          /\ SameIn(call'[u], Mirrored(u)', disk', ~dirsStale')
      BY DEF UpdateIsRight
    <3>2. u # t /\ Executed(u)
      BY <2>4, <3>1
    <3>3. call'[u] = call[u]
      BY <1>3, <3>2
    <3>4. ~Replaces(call[u])
      BY <1>1, <3>1, <3>3 DEF Replaces
    <3>5. Mirrored(u)' = Mirrored(u)
      BY <1>1, <3>3 DEF Mirrored
    <3>6. CanUpdate(call[u], mirror) /\ SameIn(call[u], Mirrored(u), disk, ~dirsStale)
      BY <2>2, <3>2, <3>4 DEF Consistent, UpdateIsRight
    <3>7. QED
      BY <1>1, <3>3, <3>5, <3>6
  <2>7. StatsAreRight'
    <3>1. SUFFICES ASSUME NEW u \in Threads
                   PROVE  /\ step'[u] \in {"parent", "update"} /\ call'[u].op \in Makes \cup {"utimens", "chmod"}
                               => st'[u] = disk'[call'[u].path]
                          /\ step'[u] = "update" /\ call'[u].op \in {"mkdir", "symlink"} \cup Removes
                               => pst'[u] = disk'[Parent(call'[u].path)]
      BY DEF StatsAreRight
    <3>2. CASE u = t
      BY <1>3, <3>2
    <3>3. CASE u # t
      <4>1. step'[u] = step[u] /\ call'[u] = call[u]
        BY <1>3, <3>3
      <4>2. QED
        BY <1>1, <2>2, <4>1 DEF Consistent, StatsAreRight
    <3>4. QED
      BY <3>2, <3>3
  <2>8. QED
    BY <2>3, <2>5, <2>6, <2>7 DEF Consistent
<1>8. QED
  BY <1>2, <1>4, <1>5, <1>6, <1>7 DEF IInv

(* A call that fails, or leaves a trace only the next load removes. *)
LEMMA InvEnds ==
    ASSUME IInv, NEW t \in Threads, Typed',
           call' = call, UNCHANGED <<load, snapshot, due>>,
           step[t] # "idle", step' = [step EXCEPT ![t] = "idle"], tainted' = TRUE
    PROVE  IInv'
<1>1. \A u \in Threads : step'[u] # "idle" => step'[u] = step[u]
  BY DEF IInv, Typed, TypeOK
<1>2. CallsApart'
  BY <1>1, StaysApart
<1>3. StepsFit'
  BY <1>1 DEF IInv, StepsFit
<1>4. LoadIsRight' /\ ~Sound'
  BY DEF LoadIsRight, Sound
<1>5. QED
  BY <1>2, <1>3, <1>4 DEF IInv

(* when the server refuses it, or does not answer, *)
LEMMA InvRemoteFails ==
    ASSUME IInv, NEW t \in Threads, RemoteFails(t) \/ RemoteTimesOut(t)
    PROVE  IInv'
<1>1. /\ step[t] = "remote" /\ step' = [step EXCEPT ![t] = "idle"]
      /\ UNCHANGED <<disk, mirror, call, st, pst, load, snapshot, due, tainted, dirsStale>>
  BY DEF RemoteFails, RemoteTimesOut, Goto, loadVars, historyVars
<1>2. Typed'
  BY TypedAsks DEF IInv
<1>3. step'[t] = "idle" /\ \A u \in Threads : step'[u] # "idle" => step'[u] = step[u]
  BY <1>1 DEF IInv, Typed, TypeOK
<1>4. CallsApart'
  BY <1>1, <1>3, StaysApart
<1>5. StepsFit'
  BY <1>1, <1>3 DEF IInv, StepsFit
<1>6. LoadIsRight'
  BY <1>1 DEF IInv, LoadIsRight
<1>7. ASSUME Sound' PROVE Consistent'
  <2>1. Consistent
    BY <1>1, <1>7 DEF IInv, Sound
  <2>2. \A u \in Threads : Executed(u)' <=> Executed(u)
    <3>1. \A u \in Threads \ {t} : step'[u] = step[u]
      BY <1>1 DEF IInv, Typed, TypeOK
    <3>2. QED
      BY <1>1, <1>3, <3>1 DEF Executed
  <2>3. ParentsAreDirs'
    BY <1>1, <1>3, <2>1 DEF Consistent, ParentsAreDirs
  <2>4. Elsewhere'
    BY <1>1, <2>1, <2>2 DEF Consistent, Elsewhere
  <2>5. UpdateIsRight'
    BY <1>1, <2>1, <2>2 DEF Consistent, UpdateIsRight, Mirrored, Replaces
  <2>6. StatsAreRight'
    BY <1>1, <1>3, <2>1 DEF Consistent, StatsAreRight
  <2>7. QED
    BY <2>3, <2>4, <2>5, <2>6 DEF Consistent
<1>8. QED
  BY <1>2, <1>4, <1>5, <1>6, <1>7 DEF IInv

(* when a thread asks for attributes, *)
LEMMA InvGets ==
    ASSUME IInv, NEW t \in Threads, GetStat(t) \/ GetParent(t)
    PROVE  IInv'
<1>1. /\ step[t] \in {"stat", "parent"}
      /\ step' \in {[step EXCEPT ![t] = "parent"], [step EXCEPT ![t] = "update"]}
      /\ UNCHANGED <<disk, mirror, call, load, snapshot, due, tainted, dirsStale>>
  BY DEF GetStat, GetParent, Goto, loadVars, historyVars
<1>2. Typed'
  BY TypedAsks DEF IInv
<1>3. /\ step'[t] \in {"parent", "update"}
      /\ \A u \in Threads \ {t} : step'[u] = step[u]
  BY <1>1 DEF IInv, Typed, TypeOK
<1>4. CallsApart'
  <2>1. \A u \in Threads : step'[u] # "idle" => step[u] # "idle"
    BY <1>1, <1>3
  <2>2. QED
    BY <1>1, <2>1, StaysApart
<1>5. StepsFit'
  BY <1>1, <1>3 DEF IInv, StepsFit
<1>6. LoadIsRight'
  BY <1>1 DEF IInv, LoadIsRight
<1>7. ASSUME Sound' PROVE Consistent'
  <2>1. Consistent
    BY <1>1, <1>7 DEF IInv, Sound
  <2>2. \A u \in Threads : Executed(u)' <=> Executed(u)
    BY <1>1, <1>3 DEF Executed
  <2>3. ParentsAreDirs'
    BY <1>1, <1>3, <2>1 DEF Consistent, ParentsAreDirs
  <2>4. Elsewhere'
    BY <1>1, <2>1, <2>2 DEF Consistent, Elsewhere
  <2>5. UpdateIsRight'
    BY <1>1, <2>1, <2>2 DEF Consistent, UpdateIsRight, Mirrored, Replaces
  <2>6. /\ \A u \in Threads \ {t} : st'[u] = st[u] /\ pst'[u] = pst[u]
        /\ GetStat(t) => st'[t] = disk[call[t].path]
        /\ GetParent(t) => st'[t] = st[t] /\ pst'[t] = disk[Parent(call[t].path)]
    BY DEF GetStat, GetParent, IInv, Typed, TypeOK
  <2>7. StatsAreRight'
    <3>1. SUFFICES ASSUME NEW u \in Threads
                   PROVE  /\ step'[u] \in {"parent", "update"} /\ call[u].op \in Makes \cup {"utimens", "chmod"}
                               => st'[u] = disk[call[u].path]
                          /\ step'[u] = "update" /\ call[u].op \in {"mkdir", "symlink"} \cup Removes
                               => pst'[u] = disk[Parent(call[u].path)]
      BY <1>1 DEF StatsAreRight
    <3>2. CASE u # t
      BY <1>3, <2>1, <2>6, <3>2 DEF Consistent, StatsAreRight
    <3>3. CASE u = t /\ GetStat(t)
      <4>1. call[t].op \in Makes \cup {"utimens"}
        BY <3>3 DEF GetStat, IInv, StepsFit
      <4>2. step'[t] = "update" => call[t].op \notin {"mkdir", "symlink"}
        BY <3>3 DEF GetStat, Goto, IInv, Typed, TypeOK
      <4>3. call[t].op \notin Removes
        BY <4>1 DEF Makes, Removes
      <4>4. QED
        BY <2>6, <3>3, <4>2, <4>3
    <3>4. CASE u = t /\ GetParent(t)
      <4>1. step[t] = "parent"
        BY <3>4 DEF GetParent
      <4>2. QED
        BY <2>1, <2>6, <3>4, <4>1 DEF Consistent, StatsAreRight
    <3>5. QED
      BY <3>2, <3>3, <3>4
  <2>8. QED
    BY <2>3, <2>4, <2>5, <2>7 DEF Consistent
<1>8. QED
  BY <1>2, <1>4, <1>5, <1>6, <1>7 DEF IInv

(* The server does what t calls for: what the cache will make of it, and of the calls of
   the others, is right. *)
LEMMA InvRemote ==
    ASSUME IInv, NEW t \in Threads, Remote(t)
    PROVE  IInv'
<1>1. /\ step[t] = "remote" /\ step' = [step EXCEPT ![t] = After(call[t])]
      /\ Executes(call[t])
      /\ dirsStale' = (dirsStale \/ call[t].op \in Partial)
      /\ st' = IF call[t].op = "chmod" THEN [st EXCEPT ![t] = disk'[call[t].path]] ELSE st
      /\ UNCHANGED <<mirror, call, pst, load, snapshot, due, tainted>>
  BY DEF Remote, Change, Goto, Executes, loadVars
<1>2. Typed'
  BY TypedRemote DEF IInv
<1>3. /\ step'[t] = After(call[t])
      /\ \A u \in Threads \ {t} : step'[u] = step[u] /\ st'[u] = st[u]
      /\ call[t].op = "chmod" => st'[t] = disk'[call[t].path]
  BY <1>1 DEF IInv, Typed, TypeOK
<1>4. step'[t] \in {"stat", "parent", "update"}
  BY <1>3 DEF After
<1>5. CallsApart'
  <2>1. \A u \in Threads : step'[u] # "idle" => step[u] # "idle"
    BY <1>1, <1>3
  <2>2. QED
    BY <1>1, <2>1, StaysApart
<1>6. StepsFit'
  <2>1. step'[t] = "stat" => call[t].op \in Makes \cup {"utimens"}
    BY <1>3 DEF After
  <2>2. QED
    BY <1>1, <1>3, <2>1 DEF IInv, StepsFit
<1>7. LoadIsRight'
  BY <1>1 DEF IInv, LoadIsRight
<1>8. ASSUME Sound' PROVE Consistent'
  <2>1. Consistent
    BY <1>1, <1>8 DEF IInv, Sound
  <2>2. PICK c \in Call : c = call[t]
    BY DEF IInv, Typed, TypeOK
  <2>3. CallOK(c) /\ IsTree(disk) /\ IsTree(mirror) /\ DOMAIN disk \subseteq Seq(Names)
    BY <2>2 DEF IInv, Typed, TypeOK, CallsOK, IsTree
  <2>4. PICK e : e = disk'
    OBVIOUS
  <2>5. Allowed(c, disk) /\ e = Done(c, disk, changes + 1) /\ changes + 1 \in Nat
    BY <1>1, <2>2, <2>4, CountersTyped DEF Executes, IInv
  <2>6. ASSUME NEW q \in Seq(Names), ~InRegion(c, q) PROVE Agree(e, disk, q)
    BY <2>3, <2>5, <2>6, DoneElsewhere
  <2>7. /\ dirsStale \in BOOLEAN /\ dirsStale' \in BOOLEAN
        /\ ~dirsStale' => ~dirsStale /\ c.op \notin Partial
    BY <1>1, <2>2 DEF IInv, Typed, TypeOK
  <2>8. PICK strict \in BOOLEAN, loose \in BOOLEAN : strict = ~dirsStale /\ loose = ~dirsStale'
    BY <2>7
  <2>9. loose => strict /\ c.op \notin Partial
    BY <2>7, <2>8
  <2>10. \A u \in Threads : Executed(u)' <=> (u = t \/ Executed(u))
    BY <1>3, <1>4 DEF Executed
  <2>11. \A u \in Threads : Executed(u) => u # t /\ step[u] # "idle"
    BY <1>1 DEF Executed
  <2>12. ASSUME NEW u \in Threads, Executed(u), NEW q \in Seq(Names), InRegion(call[u], q)
         PROVE  ~InRegion(c, q)
    BY <1>1, <2>2, <2>11, <2>12, OthersRegion
  <2>13. SameIn(c, mirror, disk, strict)
    <3>1. SUFFICES ASSUME NEW q \in Seq(Names), InRegion(c, q)
                   PROVE  Same(mirror, disk, q, strict)
      BY DEF SameIn
    <3>2. \A u \in Threads : Executed(u) => ~InRegion(call[u], q)
      BY <2>12, <3>1
    <3>3. QED
      BY <2>1, <2>8, <3>2 DEF Consistent, Elsewhere
  <2>14. ASSUME NEW u \in Threads, Executed(u), ~Replaces(call[u])
         PROVE  /\ CanUpdate(call[u], mirror)
                /\ SameIn(call[u], Mirrored(u), disk, strict)
    BY <2>1, <2>8, <2>14 DEF Consistent, UpdateIsRight
  <2>15. ASSUME NEW u \in Threads, Executed(u), ~Replaces(call[u])
         PROVE  /\ call[u].op \in Makes \cup {"utimens", "chmod"} =>
                     e[call[u].path] = disk[call[u].path]
                /\ call[u].op \in {"mkdir", "symlink"} \cup Removes =>
                     e[Parent(call[u].path)] = disk[Parent(call[u].path)]
    <3>1. call[u] \in Call /\ CallOK(call[u])
      BY DEF IInv, Typed, TypeOK, CallsOK
    <3>2. /\ call[u].op \in Makes \cup {"utimens", "chmod"} => call[u].path \in DOMAIN disk
          /\ call[u].op \in {"mkdir", "symlink"} \cup Removes => Parent(call[u].path) \in DOMAIN disk
      BY <2>14, <2>15, <3>1, ReadsExist DEF Mirrored
    <3>3. call[u].path \in Seq(Names) /\ Parent(call[u].path) \in Seq(Names)
      BY <3>1, PathTypes
    <3>4. InRegion(call[u], call[u].path)
      BY <3>1, <3>3, RegionIs
    <3>5. call[u].op \in {"mkdir", "symlink"} \cup Removes => InRegion(call[u], Parent(call[u].path))
      <4>1. call[u].op \in {"mkdir", "symlink"} \cup Removes => call[u].op \in Namespace
        BY DEF Namespace, Makes
      <4>2. QED
        BY <3>1, <3>3, <4>1, RegionIs
    <3>6. Agree(e, disk, call[u].path)
      BY <2>6, <2>12, <2>15, <3>3, <3>4
    <3>7. call[u].op \in {"mkdir", "symlink"} \cup Removes => Agree(e, disk, Parent(call[u].path))
      BY <2>6, <2>12, <2>15, <3>3, <3>5
    <3>8. QED
      BY <3>2, <3>6, <3>7 DEF Agree
  <2>16. ParentsAreDirs'
    BY <1>1, <1>3, <2>1 DEF Consistent, ParentsAreDirs
  <2>17. Elsewhere'
    <3>1. SUFFICES ASSUME NEW q \in Seq(Names),
                          \A u \in Threads : Executed(u)' => ~InRegion(call'[u], q)
                   PROVE  Same(mirror', disk', q, ~dirsStale')
      BY DEF Elsewhere
    <3>2. ~InRegion(c, q) /\ \A u \in Threads : Executed(u) => ~InRegion(call[u], q)
      BY <1>1, <2>2, <2>10, <3>1
    <3>3. Same(mirror, disk, q, strict)
      BY <2>1, <2>8, <3>2 DEF Consistent, Elsewhere
    <3>4. Agree(e, disk, q) /\ Agree(mirror, mirror, q)
      BY <2>6, <3>2 DEF Agree
    <3>5. Same(mirror, e, q, strict)
      BY <3>3, <3>4, SameAgree
    <3>6. Same(mirror, e, q, loose)
      BY <2>9, <3>5, SameWeakens
    <3>7. QED
      BY <1>1, <2>4, <2>8, <3>6
  <2>18. UpdateIsRight'
    <3>1. SUFFICES ASSUME NEW u \in Threads, Executed(u)', ~Replaces(call[u])'
                   PROVE  /\ CanUpdate(call[u], mirror)
                          /\ SameIn(call[u], Mirrored(u)', e, loose)
      BY <1>1, <2>4, <2>8 DEF UpdateIsRight
    <3>2. ~Replaces(call[u])
      BY <1>1, <3>1 DEF Replaces
    <3>3. Mirrored(u)' = Updated(call[u], mirror, e[call[u].path], e[Parent(call[u].path)])
      BY <1>1, <2>4 DEF Mirrored
    <3>4. CASE u = t
      <4>1. c.op = "rename" => c.to \notin DOMAIN mirror
        BY <2>2, <3>2, <3>4 DEF Replaces
      <4>2. HasParents(c, mirror)
        BY <1>1, <2>1, <2>2 DEF Consistent, ParentsAreDirs
      <4>3. /\ CanUpdate(c, mirror)
            /\ SameIn(c, Updated(c, mirror, e[c.path], e[Parent(c.path)]), e, loose)
        BY <2>3, <2>5, <2>9, <2>13, <4>1, <4>2, CallRepeats
      <4>4. QED
        BY <2>2, <3>3, <3>4, <4>3
    <3>5. CASE u # t
      <4>1. Executed(u)
        BY <2>10, <3>1, <3>5
      <4>2. CanUpdate(call[u], mirror) /\ SameIn(call[u], Mirrored(u), disk, strict)
        BY <2>14, <3>2, <4>1
      <4>3. Mirrored(u)' = Mirrored(u)
        <5>1. call[u] \in Call
          BY DEF IInv, Typed, TypeOK
        <5>2. Updated(call[u], mirror, e[call[u].path], e[Parent(call[u].path)])
                = Updated(call[u], mirror, disk[call[u].path], disk[Parent(call[u].path)])
          BY <2>15, <3>2, <4>1, <5>1, UpdatedReads
        <5>3. QED
          BY <3>3, <5>2 DEF Mirrored
      <4>4. ASSUME NEW q \in Seq(Names), InRegion(call[u], q)
            PROVE  Same(Mirrored(u), e, q, loose)
        <5>1. Agree(e, disk, q)
          BY <2>6, <2>12, <4>1, <4>4
        <5>2. Same(Mirrored(u), disk, q, strict)
          BY <4>2, <4>4 DEF SameIn
        <5>3. Agree(Mirrored(u), Mirrored(u), q)
          BY DEF Agree
        <5>4. Same(Mirrored(u), e, q, strict)
          BY <5>1, <5>2, <5>3, SameAgree
        <5>5. QED
          BY <2>9, <5>4, SameWeakens
      <4>5. QED
        BY <4>2, <4>3, <4>4 DEF SameIn
    <3>6. QED
      BY <3>4, <3>5
  <2>19. StatsAreRight'
    <3>1. SUFFICES ASSUME NEW u \in Threads
                   PROVE  /\ step'[u] \in {"parent", "update"} /\ call[u].op \in Makes \cup {"utimens", "chmod"}
                               => st'[u] = e[call[u].path]
                          /\ step'[u] = "update" /\ call[u].op \in {"mkdir", "symlink"} \cup Removes
                               => pst[u] = e[Parent(call[u].path)]
      BY <1>1, <2>4 DEF StatsAreRight
    <3>2. CASE u = t
      <4>1. step'[t] = "update" => call[t].op \notin Makes \cup {"utimens"} \cup Removes
        BY <1>3 DEF After
      <4>2. step'[t] = "parent" => call[t].op \in Removes
        BY <1>3 DEF After
      <4>3. call[t].op \in Removes => call[t].op \notin Makes \cup {"utimens", "chmod"}
        BY DEF Makes, Removes
      <4>4. call[t].op \in {"mkdir", "symlink"} => call[t].op \in Makes
        BY DEF Makes
      <4>5. QED
        BY <1>3, <2>4, <3>2, <4>1, <4>2, <4>3, <4>4
    <3>3. CASE u # t
      <4>1. step'[u] = step[u] /\ st'[u] = st[u]
        BY <1>3, <3>3
      <4>2. step[u] \in {"parent", "update"} => Executed(u)
        BY DEF Executed
      <4>3. call[u].op \in Makes \cup {"utimens", "chmod"} \cup {"mkdir", "symlink"} \cup Removes
              => ~Replaces(call[u])
        BY DEF Replaces, Makes, Removes
      <4>4. /\ step[u] \in {"parent", "update"} /\ call[u].op \in Makes \cup {"utimens", "chmod"}
                 => st[u] = disk[call[u].path]
            /\ step[u] = "update" /\ call[u].op \in {"mkdir", "symlink"} \cup Removes
                 => pst[u] = disk[Parent(call[u].path)]
        BY <2>1 DEF Consistent, StatsAreRight
      <4>5. QED
        BY <2>15, <4>1, <4>2, <4>3, <4>4
    <3>4. QED
      BY <3>2, <3>3
  <2>20. QED
    BY <2>16, <2>17, <2>18, <2>19 DEF Consistent
<1>9. QED
  BY <1>2, <1>5, <1>6, <1>7, <1>8 DEF IInv

(* The cache repeats a call: its region is right from now on, those of the others stay as they are. *)
LEMMA InvUpdate ==
    ASSUME IInv, NEW t \in Threads, Update(t)
    PROVE  IInv'
<1>1. /\ step[t] = "update" /\ step' = [step EXCEPT ![t] = "idle"]
      /\ CanUpdate(call[t], mirror)
      /\ mirror' = Updated(call[t], mirror, st[t], pst[t])
      /\ UNCHANGED <<disk, call, st, pst, load, snapshot, due, tainted, dirsStale>>
  BY DEF Update, Goto, loadVars, historyVars
<1>2. Typed'
  BY TypedUpdates DEF IInv
<1>3. step'[t] = "idle" /\ \A u \in Threads \ {t} : step'[u] = step[u]
  BY <1>1 DEF IInv, Typed, TypeOK
<1>4. CallsApart'
  <2>1. \A u \in Threads : step'[u] # "idle" => step[u] # "idle"
    BY <1>1, <1>3
  <2>2. QED
    BY <1>1, <2>1, StaysApart
<1>5. StepsFit'
  BY <1>1, <1>3 DEF IInv, StepsFit
<1>6. LoadIsRight'
  BY <1>1 DEF IInv, LoadIsRight
<1>7. ASSUME Sound' PROVE Consistent'
  <2>1. Consistent
    BY <1>1, <1>7 DEF IInv, Sound
  <2>2. PICK c \in Call : c = call[t]
    BY DEF IInv, Typed, TypeOK
  <2>3. CallOK(c) /\ DOMAIN mirror \subseteq Seq(Names) /\ DOMAIN mirror' \subseteq Seq(Names)
    BY <1>2, <2>2 DEF IInv, Typed, TypeOK, CallsOK, IsTree
  <2>4. PICK m : m = mirror'
    OBVIOUS
  <2>5. PICK strict \in BOOLEAN : strict = ~dirsStale
    BY DEF IInv, Typed, TypeOK
  <2>6. \A u \in Threads : Executed(u)' <=> (u # t /\ Executed(u))
    BY <1>3 DEF Executed
  <2>7. Executed(t) /\ \A u \in Threads : Executed(u) => step[u] # "idle"
    BY <1>1 DEF Executed
  <2>8. ~Replaces(c)
    BY <1>1, <2>2, CanUpdateIs DEF Replaces
  <2>9. SameIn(c, m, disk, strict)
    <3>1. SameIn(c, Mirrored(t), disk, strict)
      BY <2>1, <2>2, <2>5, <2>7, <2>8 DEF Consistent, UpdateIsRight
    <3>2. c.op \in Makes \cup {"utimens", "chmod"} => st[t] = disk[c.path]
      BY <1>1, <2>1, <2>2 DEF Consistent, StatsAreRight
    <3>3. c.op \in {"mkdir", "symlink"} \cup Removes => pst[t] = disk[Parent(c.path)]
      BY <1>1, <2>1, <2>2 DEF Consistent, StatsAreRight
    <3>4. Updated(c, mirror, st[t], pst[t])
            = Updated(c, mirror, disk[c.path], disk[Parent(c.path)])
      BY <3>2, <3>3, UpdatedReads
    <3>5. m = Mirrored(t)
      BY <1>1, <2>2, <2>4, <3>4 DEF Mirrored
    <3>6. QED
      BY <3>1, <3>5
  <2>10. ASSUME NEW q \in Seq(Names), ~InRegion(c, q) PROVE Agree(m, mirror, q)
    <3>1. Agree(Updated(c, mirror, st[t], pst[t]), mirror, q)
      BY <2>3, <2>10, UpdatedElsewhere
    <3>2. QED
      BY <1>1, <2>2, <2>4, <3>1
  <2>11. ASSUME NEW u \in Threads, u # t, step[u] # "idle"
         PROVE  AgreeIn(call[u], m, mirror)
    <3>1. ASSUME NEW q \in Seq(Names), InRegion(call[u], q) PROVE ~InRegion(c, q)
      BY <1>1, <2>2, <2>11, <3>1, OthersRegion
    <3>2. QED
      BY <2>10, <3>1 DEF AgreeIn
  <2>12. ParentsAreDirs'
    <3>1. SUFFICES ASSUME NEW u \in Threads, step'[u] # "idle" PROVE HasParents(call[u], m)
      BY <1>1, <2>4 DEF ParentsAreDirs
    <3>2. u # t /\ step[u] # "idle"
      BY <1>3, <3>1
    <3>3. HasParents(call[u], mirror)
      BY <2>1, <3>2 DEF Consistent, ParentsAreDirs
    <3>4. call[u] \in Call /\ CallOK(call[u])
      BY DEF IInv, Typed, TypeOK, CallsOK
    <3>5. QED
      BY <2>11, <3>2, <3>3, <3>4, ParentsAlike
  <2>13. Elsewhere'
    <3>1. SUFFICES ASSUME NEW q \in Seq(Names),
                          \A u \in Threads : Executed(u)' => ~InRegion(call'[u], q)
                   PROVE  Same(mirror', disk', q, ~dirsStale')
      BY DEF Elsewhere
    <3>2. CASE InRegion(c, q)
      <4>1. Same(m, disk, q, strict)
        BY <2>9, <3>2 DEF SameIn
      <4>2. QED
        BY <1>1, <2>4, <2>5, <4>1
    <3>3. CASE ~InRegion(c, q)
      <4>1. \A u \in Threads : Executed(u) => ~InRegion(call[u], q)
        BY <1>1, <2>2, <2>6, <3>1, <3>3
      <4>2. Same(mirror, disk, q, strict)
        BY <2>1, <2>5, <4>1 DEF Consistent, Elsewhere
      <4>3. Agree(m, mirror, q) /\ Agree(disk, disk, q)
        BY <2>10, <3>3 DEF Agree
      <4>4. Same(m, disk, q, strict)
        BY <4>2, <4>3, SameAgree
      <4>5. QED
        BY <1>1, <2>4, <2>5, <4>4
    <3>4. QED
      BY <3>2, <3>3
  <2>14. UpdateIsRight'
    <3>1. SUFFICES ASSUME NEW u \in Threads, Executed(u)', ~Replaces(call[u])'
                   PROVE  /\ CanUpdate(call[u], m)
                          /\ SameIn(call[u], Mirrored(u)', disk, strict)
      BY <1>1, <2>4, <2>5 DEF UpdateIsRight
    <3>2. u # t /\ Executed(u) /\ step[u] # "idle"
      BY <2>6, <2>7, <3>1
    <3>3. PICK d \in Call : d = call[u]
      BY DEF IInv, Typed, TypeOK
    <3>4. CallOK(d) /\ AgreeIn(d, m, mirror)
      BY <2>11, <3>2, <3>3 DEF IInv, Typed, CallsOK
    <3>5. ~Replaces(d)
      <4>1. d.op = "rename" => d.to \in Seq(Names) /\ InRegion(d, d.to)
        BY <3>4, PathTypes, RegionIs DEF Moves
      <4>2. d.op = "rename" => (d.to \in DOMAIN m <=> d.to \in DOMAIN mirror)
        BY <3>4, <4>1 DEF AgreeIn, Agree
      <4>3. ~(d.op = "rename" /\ d.to \in DOMAIN m)
        BY <1>1, <2>4, <3>1, <3>3 DEF Replaces
      <4>4. QED
        BY <4>2, <4>3 DEF Replaces
    <3>6. CanUpdate(d, mirror) /\ SameIn(d, Mirrored(u), disk, strict)
      BY <2>1, <2>5, <3>2, <3>3, <3>5 DEF Consistent, UpdateIsRight
    <3>7. PICK s, r : s = disk[d.path] /\ r = disk[Parent(d.path)]
      OBVIOUS
    <3>8. Mirrored(u) = Updated(d, mirror, s, r) /\ Mirrored(u)' = Updated(d, m, s, r)
      BY <1>1, <2>4, <3>3, <3>7 DEF Mirrored
    <3>9. /\ CanUpdate(d, m) <=> CanUpdate(d, mirror)
          /\ AgreeIn(d, Updated(d, m, s, r), Updated(d, mirror, s, r))
      BY <2>3, <2>4, <3>4, UpdatedAlike
    <3>10. ASSUME NEW q \in Seq(Names), InRegion(d, q)
           PROVE  Same(Updated(d, m, s, r), disk, q, strict)
      <4>1. Agree(Updated(d, m, s, r), Updated(d, mirror, s, r), q)
        BY <3>9, <3>10 DEF AgreeIn
      <4>2. Same(Updated(d, mirror, s, r), disk, q, strict)
        BY <3>6, <3>8, <3>10 DEF SameIn
      <4>3. Agree(disk, disk, q)
        BY DEF Agree
      <4>4. QED
        BY <4>1, <4>2, <4>3, SameAgree
    <3>11. SameIn(d, Mirrored(u)', disk, strict)
      BY <3>8, <3>10 DEF SameIn
    <3>12. CanUpdate(d, m)
      BY Zenon, <3>6, <3>9
    <3>13. QED
      BY <3>3, <3>11, <3>12
  <2>15. StatsAreRight'
    <3>1. \A u \in Threads : step'[u] \in {"parent", "update"} => step'[u] = step[u]
      BY <1>3
    <3>2. QED
      BY <1>1, <2>1, <3>1 DEF Consistent, StatsAreRight
  <2>16. QED
    BY <2>12, <2>13, <2>14, <2>15 DEF Consistent
<1>8. QED
  BY <1>2, <1>4, <1>5, <1>6, <1>7 DEF IInv

(* A load that nothing disturbed brings the served tree, and no call is under way. *)
LEMMA InvLoads ==
    ASSUME IInv, Scan \/ Populate \/ LoadFails
    PROVE  IInv'
<1>1. UNCHANGED <<disk, call, step, st, pst>>
  BY DEF Scan, Populate, LoadFails, callVars
<1>2. Typed'
  BY TypedLoads DEF IInv
<1>3. CallsApart' /\ StepsFit'
  BY <1>1 DEF IInv, CallsApart, StepsFit
<1>4. LoadIsRight'
  BY DEF Scan, Populate, LoadFails, callVars, LoadIsRight
<1>5. ASSUME Sound' PROVE Consistent'
  <2>1. Populate
    BY <1>5 DEF Scan, LoadFails, Taint, Sound
  <2>2. mirror' = disk /\ \A t \in Threads : step[t] = "idle"
    BY <1>5, <2>1 DEF Populate, historyVars, Sound, IInv, LoadIsRight
  <2>3. Elsewhere'
    <3>1. \A q \in Seq(Names) : Same(mirror', disk', q, ~dirsStale')
      BY <1>1, <2>2 DEF Same
    <3>2. QED
      BY <3>1 DEF Elsewhere
  <2>4. ParentsAreDirs' /\ UpdateIsRight' /\ StatsAreRight'
    BY <1>1, <2>2 DEF ParentsAreDirs, UpdateIsRight, StatsAreRight, Executed
  <2>5. QED
    BY <2>3, <2>4 DEF Consistent
<1>6. QED
  BY <1>2, <1>3, <1>4, <1>5 DEF IInv

(* A change on the server is due from now on. *)
LEMMA InvEdit ==
    ASSUME IInv, NEW c \in Calls, Edit(c)
    PROVE  IInv'
<1>1. due' = TRUE /\ UNCHANGED <<call, step>>
  BY DEF Edit, callVars
<1>2. Typed'
  BY TypedEdit DEF IInv
<1>3. CallsApart' /\ StepsFit'
  BY <1>1 DEF IInv, CallsApart, StepsFit
<1>4. LoadIsRight' /\ ~Sound'
  BY <1>1 DEF LoadIsRight, Sound
<1>5. QED
  BY <1>2, <1>3, <1>4 DEF IInv

(* A call that fails after its change was made leaves it to the next load. *)
LEMMA InvTainted ==
    ASSUME IInv, NEW t \in Threads, GetFails(t) \/ UpdateThrows(t)
    PROVE  IInv'
<1>1. Typed'
  BY TypedAsks, TypedUpdates DEF IInv
<1>2. /\ call' = call /\ UNCHANGED <<load, snapshot, due>>
      /\ step[t] # "idle" /\ step' = [step EXCEPT ![t] = "idle"] /\ tainted' = TRUE
  BY DEF GetFails, UpdateThrows, Taint, Goto, loadVars
<1>3. QED
  BY <1>1, <1>2, InvEnds

(* So does one that follows a symbolic link, *)
LEMMA InvFollows ==
    ASSUME IInv, NEW t \in Threads, RemoteFollows(t)
    PROVE  IInv'
<1>1. /\ step[t] = "remote" /\ step' = [step EXCEPT ![t] = After(call[t])]
      /\ tainted' = TRUE /\ UNCHANGED <<call, load, snapshot, due>>
  BY DEF RemoteFollows, Goto, Taint, loadVars
<1>2. Typed'
  BY TypedRemote DEF IInv
<1>3. /\ step'[t] = After(call[t])
      /\ \A u \in Threads \ {t} : step'[u] = step[u]
  BY <1>1 DEF IInv, Typed, TypeOK
<1>4. CallsApart'
  <2>1. \A u \in Threads : step'[u] # "idle" => step[u] # "idle"
    BY <1>1, <1>3
  <2>2. QED
    BY <1>1, <2>1, StaysApart
<1>5. StepsFit'
  <2>1. step'[t] = "stat" => call[t].op \in Makes \cup {"utimens"}
    BY <1>3 DEF After
  <2>2. QED
    BY <1>1, <1>3, <2>1 DEF IInv, StepsFit
<1>6. LoadIsRight' /\ ~Sound'
  BY <1>1 DEF LoadIsRight, Sound
<1>7. QED
  BY <1>2, <1>4, <1>5, <1>6 DEF IInv

(* and a command that is executed late. *)
LEMMA InvLate ==
    ASSUME IInv, NEW c \in late, RemoteLate(c)
    PROVE  IInv'
<1>1. tainted' = TRUE /\ UNCHANGED <<call, step>>
  BY DEF RemoteLate, Taint, callVars
<1>2. Typed'
  BY TypedLate DEF IInv
<1>3. CallsApart' /\ StepsFit'
  BY <1>1 DEF IInv, CallsApart, StepsFit
<1>4. LoadIsRight' /\ ~Sound'
  BY <1>1 DEF LoadIsRight, Sound
<1>5. QED
  BY <1>2, <1>3, <1>4 DEF IInv

(* A step that changes nothing keeps the invariant. *)
LEMMA InvStutter ==
    ASSUME IInv, UNCHANGED vars
    PROVE  IInv'
<1>1. UNCHANGED <<disk, mirror, call, step, st, pst, load, snapshot, due, tainted, dirsStale>>
  BY DEF vars, callVars, loadVars, historyVars
<1>2. Typed'
  BY TypedStep DEF IInv
<1>3. CallsApart' /\ StepsFit' /\ LoadIsRight'
  BY <1>1 DEF IInv, CallsApart, StepsFit, LoadIsRight
<1>4. ASSUME Sound' PROVE Consistent'
  <2>1. Consistent
    BY <1>1, <1>4 DEF IInv, Sound
  <2>2. ParentsAreDirs' /\ StatsAreRight'
    BY <1>1, <2>1 DEF Consistent, ParentsAreDirs, StatsAreRight
  <2>3. Elsewhere'
    BY <1>1, <2>1 DEF Consistent, Elsewhere, Executed
  <2>4. UpdateIsRight'
    BY <1>1, <2>1 DEF Consistent, UpdateIsRight, Executed, Mirrored, Replaces
  <2>5. QED
    BY <2>2, <2>3, <2>4 DEF Consistent
<1>5. QED
  BY <1>2, <1>3, <1>4 DEF IInv

(* Every step keeps the invariant. *)
LEMMA InvNext ==
    ASSUME IInv, [Next]_vars
    PROVE  IInv'
<1>1. ASSUME NEW t \in Threads, CallStep(t) PROVE IInv'
  <2>1. CASE \E c \in Calls : Begin(t, c)
    BY <2>1, InvBegin
  <2>2. CASE Remote(t)
    BY <2>2, InvRemote
  <2>3. CASE RemoteFails(t) \/ RemoteTimesOut(t)
    BY <2>3, InvRemoteFails
  <2>4. CASE GetStat(t) \/ GetParent(t)
    BY <2>4, InvGets
  <2>5. CASE Update(t)
    BY <2>5, InvUpdate
  <2>6. CASE GetFails(t) \/ UpdateThrows(t)
    BY <2>6, InvTainted
  <2>7. CASE RemoteFollows(t)
    BY <2>7, InvFollows
  <2>8. QED
    BY <1>1, <2>1, <2>2, <2>3, <2>4, <2>5, <2>6, <2>7 DEF CallStep
<1>2. ASSUME NEW c \in Calls, Edit(c) PROVE IInv'
  BY <1>2, InvEdit
<1>3. ASSUME NEW c \in late, RemoteLate(c) PROVE IInv'
  BY <1>3, InvLate
<1>4. QED
  BY <1>1, <1>2, <1>3, InvLoads, InvStutter DEF Next

-----------------------------------------------------------------------------
(* The theorems.                                                           *)

\* In every state in which nothing waits for a load to put it right (due, tainted):
\* the cache is right wherever no call is under way, and every call under way
\* will make its own part right.
THEOREM Invariance == Spec => []IInv
<1>1. Init => IInv
  BY InvInit
<1>2. IInv /\ [Next]_vars => IInv'
  BY InvNext
<1>3. QED
  BY <1>1, <1>2, PTL DEF Spec

\* The variables keep their types: trees stay trees through every call.
THEOREM TypeCorrect == Spec => []TypeOK
<1>1. IInv => TypeOK
  BY DEF IInv, Typed
<1>2. QED
  BY <1>1, Invariance, PTL

(* With no call under way, every path is elsewhere. *)
LEMMA WholeTree ==
    ASSUME IInv, Quiet, ~due, ~tainted
    PROVE  \A q \in Seq(Names) : Same(mirror, disk, q, ~dirsStale)
<1>1. Sound
  BY DEF Quiet, Sound
<1>2. Elsewhere
  BY <1>1 DEF IInv, Consistent
<1>3. \A t \in Threads : ~Executed(t)
  BY DEF Quiet, Executed
<1>4. QED
  BY <1>2, <1>3 DEF Elsewhere

\* When nothing is under way, the cache holds the served tree (CachedVfs::mkdir to
\* truncate, BackgroundLoader::populate_tree), if the last load was disturbed by nothing,
\* and no call, change on the server or late command since.
THEOREM TreesAgree == Spec => []SameTree
<1>1. ASSUME IInv PROVE SameTree
  <2>1. SUFFICES ASSUME Quiet, ~due, ~tainted PROVE SameFiles
    BY DEF SameTree
  <2>2. \A q \in Seq(Names) : Same(mirror, disk, q, ~dirsStale)
    BY <1>1, <2>1, WholeTree
  <2>3. DOMAIN mirror \subseteq Seq(Names) /\ DOMAIN disk \subseteq Seq(Names)
    BY <1>1 DEF IInv, Typed, TypeOK, IsTree
  <2>4. DOMAIN mirror = DOMAIN disk
    BY <2>2, <2>3 DEF Same
  <2>5. ASSUME NEW p \in DOMAIN disk
        PROVE  mirror[p].dir = disk[p].dir /\ (~disk[p].dir => mirror[p] = disk[p])
    BY <2>2, <2>3 DEF Same
  <2>6. QED
    BY <2>4, <2>5 DEF SameFiles
<1>2. QED
  BY <1>1, Invariance, PTL

\* Then the attributes of its directories are the same too, unless a call left them alone.
THEOREM DirectoriesAgree == Spec => []SameDirectories
<1>1. ASSUME IInv PROVE SameDirectories
  <2>1. SUFFICES ASSUME Quiet, ~due, ~tainted, ~dirsStale PROVE mirror = disk
    BY DEF SameDirectories
  <2>2. \A q \in Seq(Names) : Same(mirror, disk, q, TRUE)
    <3>1. \A q \in Seq(Names) : Same(mirror, disk, q, ~dirsStale)
      BY <1>1, <2>1, WholeTree
    <3>2. QED
      BY <2>1, <3>1
  <2>3. DOMAIN mirror \subseteq Seq(Names) /\ DOMAIN disk \subseteq Seq(Names)
    BY <1>1 DEF IInv, Typed, TypeOK, IsTree
  <2>4. DOMAIN mirror = DOMAIN disk
    BY <2>2, <2>3 DEF Same
  <2>5. \A q \in DOMAIN disk : mirror[q] = disk[q]
    BY <2>2, <2>3 DEF Same
  <2>6. mirror = [q \in DOMAIN mirror |-> mirror[q]] /\ disk = [q \in DOMAIN disk |-> disk[q]]
    BY <1>1 DEF IInv, Typed, Functions, IsFunction
  <2>7. QED
    BY <2>4, <2>5, <2>6
<1>2. QED
  BY <1>1, Invariance, PTL

\* What the server did for a call can be repeated in the cache, unless it replaced a file
\* (make_node, remove_single, rename and exchange of cache::Tree do not throw).
THEOREM UpdatesPossible == Spec => []UpdatePossible
<1>1. ASSUME IInv PROVE UpdatePossible
  <2>1. SUFFICES ASSUME ~due, ~tainted, NEW t \in Threads, step[t] = "update", ~Replaces(call[t])
                 PROVE  CanUpdate(call[t], mirror)
    BY DEF UpdatePossible
  <2>2. load = "idle"
    BY <1>1, <2>1 DEF IInv, LoadIsRight, Typed, TypeOK
  <2>3. UpdateIsRight
    BY <1>1, <2>1, <2>2 DEF IInv, Consistent, Sound
  <2>4. QED
    BY <2>1, <2>3 DEF UpdateIsRight, Executed
<1>2. QED
  BY <1>1, Invariance, PTL
=============================================================================
