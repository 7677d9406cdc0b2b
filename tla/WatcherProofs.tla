--------------------------- MODULE WatcherProofs ---------------------------
(***************************************************************************)
(* Proofs about Watcher: whatever the number of paths, changes and         *)
(* commands, the times and the order in which events are taken, the client *)
(* is not told of its own changes, and a listed path is forgotten in time. *)
(*                                                                         *)
(* The times of the items are not sorted, as a worker reads the clock      *)
(* before it has the lock, and still TemporalIgnores::check searches them  *)
(* with std::lower_bound.  LowerBoundFacts says what that search returns   *)
(* in any sequence; the rest is that the times are almost sorted.          *)
(***************************************************************************)
EXTENDS Watcher, Naturals, SequencesExt, SequenceTheorems, WellFoundedInduction, TLAPS

-----------------------------------------------------------------------------
(* Sequences and induction on the natural numbers.                         *)

(* Popping the first element removes it and nothing else. *)
LEMMA TailFacts ==
    ASSUME NEW S, NEW s \in Seq(S), s # <<>>
    PROVE  /\ Head(s) \in S
           /\ Head(s) \in ToSet(s)
           /\ Tail(s) \in Seq(S)
           /\ Len(s) = 1 <=> Tail(s) = <<>>
           /\ ToSet(Tail(s)) \subseteq ToSet(s)
           /\ IsInjective(s) => /\ IsInjective(Tail(s))
                                /\ Head(s) \notin ToSet(Tail(s))
<1>1. /\ Head(s) = s[1]
      /\ Len(s) \in Nat \ {0}
      /\ Tail(s) \in Seq(S)
      /\ Len(Tail(s)) = Len(s) - 1
      /\ \A k \in 1..(Len(s) - 1) : Tail(s)[k] = s[k + 1]
  OBVIOUS
<1>2. /\ Head(s) \in S
      /\ Head(s) \in ToSet(s)
      /\ ToSet(Tail(s)) \subseteq ToSet(s)
  BY <1>1 DEF ToSet
<1>3. ASSUME IsInjective(s)
      PROVE  IsInjective(Tail(s)) /\ Head(s) \notin ToSet(Tail(s))
  BY <1>1, <1>3 DEF ToSet, IsInjective
<1>4. Len(s) = 1 <=> Tail(s) = <<>>
  <2> DEFINE t == Tail(s)
  <2>1. t \in Seq(S) /\ Len(t) = Len(s) - 1 /\ Len(s) \in Nat
    BY <1>1
  <2> HIDE DEF t
  <2>2. Len(s) = 1 <=> t = <<>>
    BY <2>1, EmptySeq
  <2>3. QED
    BY <2>2 DEF t
<1>5. QED
  BY <1>1, <1>2, <1>3, <1>4

(* Popping the first element removes no other. *)
LEMMA HeadOrTail ==
    ASSUME NEW S, NEW s \in Seq(S), s # <<>>
    PROVE  ToSet(s) = {Head(s)} \cup ToSet(Tail(s))
<1> DEFINE t == Tail(s)
<1>1. /\ Head(s) = s[1] /\ Head(s) \in ToSet(s)
      /\ t \in Seq(S) /\ Len(t) = Len(s) - 1
      /\ ToSet(t) \subseteq ToSet(s)
      /\ Len(s) \in Nat \ {0}
      /\ \A k \in 1..(Len(s) - 1) : t[k] = s[k + 1]
  BY TailFacts
<1> HIDE DEF t
<1>2. DOMAIN s = 1..Len(s) /\ DOMAIN t = 1..Len(t)
  BY <1>1
<1>3. ASSUME NEW k \in 1..Len(s), k # 1 PROVE s[k] \in ToSet(t)
  <2>1. k - 1 \in DOMAIN t /\ s[k] = t[k - 1]
    BY <1>1, <1>2, <1>3
  <2>2. QED
    BY <2>1 DEF ToSet
<1>4. \A x \in ToSet(s) : \E k \in 1..Len(s) : x = s[k]
  BY <1>2 DEF ToSet
<1>5. ToSet(s) \subseteq {Head(s)} \cup ToSet(t)
  BY <1>1, <1>3, <1>4
<1>6. QED
  BY <1>1, <1>5 DEF t

(* Dropping the first r elements keeps the others. *)
LEMMA DropFacts ==
    ASSUME NEW S, NEW s \in Seq(S), NEW r \in 0..Len(s)
    PROVE  /\ SubSeq(s, r + 1, Len(s)) \in Seq(S)
           /\ Len(SubSeq(s, r + 1, Len(s))) = Len(s) - r
           /\ \A i \in DOMAIN SubSeq(s, r + 1, Len(s)) :
                r + i \in DOMAIN s /\ SubSeq(s, r + 1, Len(s))[i] = s[r + i]
<1> DEFINE d == SubSeq(s, r + 1, Len(s))
<1>1. /\ d \in Seq(S) /\ Len(d) = Len(s) - r
      /\ \A i \in 1..(Len(s) - r) : d[i] = s[r + i]
  OBVIOUS
<1> HIDE DEF d
<1>2. DOMAIN d = 1..(Len(s) - r) /\ DOMAIN s = 1..Len(s) /\ Len(s) \in Nat
  BY <1>1
<1>3. \A i \in 1..(Len(s) - r) : r + i \in 1..Len(s)
  BY <1>2
<1>4. QED
  BY <1>1, <1>2, <1>3 DEF d

(* The order of the natural numbers is well-founded. *)
LEMMA LessThan ==
    \E R : IsWellFoundedOn(R, Nat) /\ \A x, y \in Nat : <<x, y>> \in R <=> x < y
<1> DEFINE R == OpToRel(<, Nat)
<1>1. IsWellFoundedOn(R, Nat)
  BY NatLessThanWellFounded
<1>2. \A x, y \in Nat : <<x, y>> \in R <=> x < y
  BY DEF OpToRel
<1> HIDE DEF R
<1>3. QED
  BY <1>1, <1>2

(* A set of natural numbers has a least element. *)
LEMMA LeastNatural ==
    ASSUME NEW S, S \subseteq Nat, S # {}
    PROVE  \E m \in S : \A k \in S : m <= k
<1>1. PICK R : IsWellFoundedOn(R, Nat) /\ \A x, y \in Nat : <<x, y>> \in R <=> x < y
  BY LessThan
<1>2. PICK m \in S : \A k \in S : ~ (<<k, m>> \in R)
  <2>1. IsWellFoundedOn(R, Nat) /\ S \subseteq Nat /\ S # {}
    BY <1>1
  <2>2. QED
    BY <2>1, WFMin, Zenon
<1>3. ASSUME NEW k \in S PROVE m <= k
  <2>1. k \in Nat /\ m \in Nat /\ ~(k < m)
    BY <1>1, <1>2
  <2>2. QED
    BY <2>1
<1>4. QED
  BY <1>3

(* Induction on the natural numbers, for a set: the numbers of which something holds. *)
LEMMA InductionOnSet ==
    ASSUME NEW S, \A n \in Nat : (\A m \in Nat : m < n => m \in S) => n \in S
    PROVE  Nat \subseteq S
<1> DEFINE T == Nat \ S
<1>1. SUFFICES ASSUME T # {} PROVE FALSE
  OBVIOUS
<1> HIDE DEF T
<1>2. PICK n \in T : \A k \in T : n <= k
  BY <1>1, LeastNatural DEF T
<1>3. ASSUME NEW m \in Nat, m < n PROVE m \in S
  <2>1. ~(n <= m) /\ n \in Nat
    BY <1>3 DEF T
  <2>2. QED
    BY <1>2, <2>1 DEF T
<1>4. QED
  BY <1>2, <1>3 DEF T

-----------------------------------------------------------------------------
(* One step of the binary search in a sequence. *)
LEMMA SearchExists ==
    ASSUME NEW s, NEW time, Len(s) \in Nat
    PROVE  \E f :
             /\ f = [len \in 0..Len(s) |->
                      [first \in 0..(Len(s) - len) |->
                        IF len = 0 THEN first
                        ELSE IF s[first + (len \div 2) + 1].time < time
                        THEN f[len - (len \div 2) - 1][first + (len \div 2) + 1]
                        ELSE f[len \div 2][first]]]
             /\ LowerBound(s, time) = f[Len(s)][0]
<1> DEFINE L == Len(s)
           Step(f, len) == [first \in 0..(L - len) |->
                        IF len = 0 THEN first
                        ELSE IF s[first + (len \div 2) + 1].time < time
                        THEN f[len - (len \div 2) - 1][first + (len \div 2) + 1]
                        ELSE f[len \div 2][first]]
           Is(f, n) == f = [len \in 0..n |-> Step(f, len)]
           N == {n \in Nat : \E f : Is(f, n)}
<1>1. ASSUME NEW f, NEW g, NEW n \in Nat, NEW len \in 0..n, \A k \in 0..(len - 1) : f[k] = g[k]
      PROVE  Step(f, len) = Step(g, len)
  <2>1. CASE len = 0
    BY <2>1
  <2>2. CASE len # 0
    <3>1. len - (len \div 2) - 1 \in 0..(len - 1) /\ len \div 2 \in 0..(len - 1)
      BY <2>2
    <3>2. f[len - (len \div 2) - 1] = g[len - (len \div 2) - 1] /\ f[len \div 2] = g[len \div 2]
      BY <1>1, <3>1
    <3>3. QED
      BY <2>2, <3>2
  <2>3. QED
    BY <2>1, <2>2
<1>2. ASSUME NEW n \in Nat, \A m \in Nat : m < n => m \in N PROVE n \in N
  <2> HIDE DEF Step
  <2>1. PICK g : n = 0 \/ Is(g, n - 1)
    BY <1>2
  <2> DEFINE f == [len \in 0..n |-> IF len = n THEN Step(g, n) ELSE g[len]]
  <2>2. ASSUME NEW len \in 0..n PROVE f[len] = Step(f, len)
    <3>1. \A k \in 0..(len - 1) : f[k] = g[k]
      OBVIOUS
    <3>2. Step(f, len) = Step(g, len)
      <4> HIDE DEF f
      <4>1. QED
        BY <3>1, <1>1
    <3>3. f[len] = Step(g, len)
      <4>1. CASE len = n
        BY <4>1
      <4>2. CASE len # n
        BY <2>1, <4>2
      <4>3. QED
        BY <4>1, <4>2
    <3>4. QED
      BY <3>2, <3>3
  <2>3. f = [len \in 0..n |-> f[len]]
    OBVIOUS
  <2> HIDE DEF f
  <2>4. [len \in 0..n |-> f[len]] = [len \in 0..n |-> Step(f, len)]
    BY <2>2
  <2>5. Is(f, n)
    BY <2>3, <2>4
  <2>6. QED
    BY <2>5
<1>3. PICK f : Is(f, L)
  <2> HIDE DEF Is
  <2>1. Nat \subseteq N
    <3> HIDE DEF N
    <3>1. QED
      BY <1>2, InductionOnSet
  <2>2. QED
    BY <2>1
<1> DEFINE g == CHOOSE h : Is(h, L)
<1>4. Is(g, L)
  <2> HIDE DEF Is
  <2>1. QED
    BY <1>3
<1>5. LowerBound(s, time) = g[L][0]
  BY DEF LowerBound
<1>6. QED
  BY <1>4, <1>5

(* The binary search ends behind an item that is smaller, or before the first, and before *)
(* one that is not, or behind the last, although the items need not be sorted. *)
LEMMA LowerBoundFacts ==
    ASSUME NEW s \in Seq(Item), NEW time
    PROVE  /\ LowerBound(s, time) \in 0..Len(s)
           /\ LowerBound(s, time) # 0 => s[LowerBound(s, time)].time < time
           /\ LowerBound(s, time) # Len(s) => ~(s[LowerBound(s, time) + 1].time < time)
<1> DEFINE L == Len(s)
           Ends(r, first, len) == /\ r \in first..(first + len)
                                  /\ r # first => s[r].time < time
                                  /\ r # first + len => ~(s[r + 1].time < time)
<1>1. L \in Nat
  OBVIOUS
<1>2. PICK f :
         /\ f = [len \in 0..L |->
                  [first \in 0..(L - len) |->
                    IF len = 0 THEN first
                    ELSE IF s[first + (len \div 2) + 1].time < time
                    THEN f[len - (len \div 2) - 1][first + (len \div 2) + 1]
                    ELSE f[len \div 2][first]]]
         /\ LowerBound(s, time) = f[L][0]
  BY <1>1, SearchExists
<1> DEFINE N == {len \in Nat : len <= L => \A first \in 0..(L - len) : Ends(f[len][first], first, len)}
<1>3. ASSUME NEW len \in Nat, \A m \in Nat : m < len => m \in N PROVE len \in N
  <2> SUFFICES ASSUME len <= L, NEW first \in 0..(L - len) PROVE Ends(f[len][first], first, len)
    OBVIOUS
  <2> DEFINE half == len \div 2
  <2>1. f[len][first] = IF len = 0 THEN first
                        ELSE IF s[first + half + 1].time < time
                        THEN f[len - half - 1][first + half + 1]
                        ELSE f[half][first]
    <3>1. len \in 0..L
      BY <1>1
    <3>2. f[len] = [x \in 0..(L - len) |->
                     IF len = 0 THEN x
                     ELSE IF s[x + half + 1].time < time
                     THEN f[len - half - 1][x + half + 1]
                     ELSE f[half][x]]
      BY <1>2, <3>1, Zenon
    <3>3. QED
      BY <3>2
  <2>2. CASE len = 0
    BY <1>1, <2>1, <2>2
  <2>3. CASE len # 0 /\ s[first + half + 1].time < time
    <3> DEFINE m == len - half - 1
    <3>1. m \in Nat /\ m < len /\ m <= L /\ first + half + 1 \in 0..(L - m) /\ half \in Nat
      BY <1>1, <2>3
    <3>2. Ends(f[m][first + half + 1], first + half + 1, m)
      <4> HIDE DEF m, Ends
      <4>1. QED
        BY <1>3, <3>1
    <3>3. f[len][first] = f[m][first + half + 1]
      BY <2>1, <2>3
    <3>4. QED
      <4> DEFINE r == f[m][first + half + 1]
      <4>1. /\ r \in (first + half + 1)..(first + len) /\ first + half + 1 + m = first + len
            /\ r # first
        BY <1>1, <3>1, <3>2
      <4> HIDE DEF r
      <4>2. Ends(r, first, len)
        BY <1>1, <2>3, <3>1, <3>2, <4>1 DEF r
      <4>3. QED
        BY <3>3, <4>2 DEF r
  <2>4. CASE len # 0 /\ ~(s[first + half + 1].time < time)
    <3>1. half \in Nat /\ half < len /\ half <= L /\ first \in 0..(L - half)
      BY <1>1, <2>4
    <3>2. Ends(f[half][first], first, half)
      <4> HIDE DEF half, Ends
      <4>1. QED
        BY <1>3, <3>1
    <3>3. f[len][first] = f[half][first]
      BY <2>1, <2>4
    <3>4. QED
      <4> DEFINE r == f[half][first]
      <4> HIDE DEF r, half
      <4>1. Ends(r, first, len)
        BY <1>1, <2>4, <3>1, <3>2 DEF r
      <4>2. QED
        BY <3>3, <4>1 DEF r
  <2>5. QED
    BY <2>2, <2>3, <2>4
<1>4. Ends(f[L][0], 0, L)
  <2> HIDE DEF Ends
  <2>1. Nat \subseteq N
    <3> HIDE DEF N
    <3>1. QED
      BY <1>3, InductionOnSet
  <2>2. QED
    BY <1>1, <2>1
<1>5. QED
  BY <1>1, <1>2, <1>4

-----------------------------------------------------------------------------
(* The inductive invariant.                                                *)

\* The path p is listed since the time at, or later.
HasItem(p, at) == \E i \in DOMAIN items : items[i].path = p /\ items[i].time >= at

\* It is not yet too late for the watcher to find what was listed at the time at.
Soon(at) == clock <= at + Duration - Skew

\* A worker gets the lock soon after it read the clock...
ReadInTime ==
    /\ op # NoOp => Soon(op.at)
    /\ op.at <= clock
    /\ op.now # Never =>
        /\ op.list # <<>>
        /\ op.at <= op.now /\ op.now <= clock /\ clock <= op.now + Skew

\* ...so that the times in the list are sorted but for what two workers are apart.
AlmostSorted ==
    /\ \A i \in DOMAIN items : items[i].time <= clock
    /\ \A i, j \in DOMAIN items : i < j => items[i].time <= items[j].time + Skew

\* A command's paths are to be listed, or listed.
OpListed == \A p \in ToSet(op.todo) : p \in ToSet(op.list) \/ HasItem(p, op.at)

\* An event a command raised is on a listed path, and not late.
Expected(e) == e.by = "client" => HasItem(e.path, e.at) /\ Soon(e.at)

\* So are the events the watcher will look at, and the one it looks at.
EventsExpected ==
    /\ watcher = "wait" => \A i \in DOMAIN events : Expected(events[i])
    /\ watcher = "check" => Expected(event)

\* Where no event is waited for nothing is watched.
Unwatched == watcher \in {"init", "watch", "done"} => ~watching /\ events = <<>>

ListInv == ReadInTime /\ AlmostSorted /\ OpListed

IInv == TypeOK /\ ListInv /\ EventsExpected /\ Unwatched /\ NoEcho

-----------------------------------------------------------------------------
(* What the operators of the model do.                                     *)

(* The numbers the constants are. *)
LEMMA ConstantFacts ==
    /\ MaxTime \in Nat /\ Skew \in Nat /\ Duration \in Nat /\ Skew <= Duration
    /\ MaxEdits \in Nat /\ MaxOps \in Nat /\ MaxOthers \in Nat
    /\ Times \subseteq Nat /\ 0 \in Times /\ Never \notin Times
BY ConstantsAssumption DEF Times, Never

(* A change raises its events, at the end, while the tree is watched. *)
LEMMA TouchFacts ==
    ASSUME TypeOK, NEW p \in Paths, NEW by \in {"local", "client"}, NEW at \in Times,
           Touch(p, by, at)
    PROVE  /\ tree' \in SUBSET Paths /\ events' \in Seq(Event)
           /\ ~watching => events' = events
           /\ \A i \in DOMAIN events' :
                \/ i \in DOMAIN events /\ events'[i] = events[i]
                \/ events'[i].path = p /\ events'[i].by = by /\ events'[i].at = at
<1> DEFINE change == [path |-> p, ignored |-> FALSE, by |-> by, at |-> at]
           removal == [change EXCEPT !.ignored = TRUE]
<1>1. /\ change \in Event /\ change.path = p /\ change.by = by /\ change.at = at
      /\ removal \in Event /\ removal.path = p /\ removal.by = by /\ removal.at = at
  BY DEF Event
<1>2. /\ tree' \in {tree, tree \cup {p}, tree \ {p}}
      /\ events' \in IF ~watching THEN {events}
                     ELSE IF p \in tree \ tree'
                     THEN {events \o <<change, removal>>, events \o <<removal, change>>}
                     ELSE {Append(events, change)}
  BY DEF Touch
<1> HIDE DEF change, removal
<1>3. events \in Seq(Event) /\ tree \in SUBSET Paths
  BY DEF TypeOK
<1>4. ASSUME NEW x \in {change, removal}, NEW y \in {change, removal}, events' = events \o <<x, y>>
      PROVE  /\ events' \in Seq(Event)
             /\ \A i \in DOMAIN events' :
                  (i \in DOMAIN events /\ events'[i] = events[i]) \/ events'[i] \in {x, y}
  <2>1. /\ <<x, y>> \in Seq(Event) /\ Len(<<x, y>>) = 2 /\ <<x, y>>[1] = x /\ <<x, y>>[2] = y
    BY <1>1
  <2>2. /\ events' \in Seq(Event) /\ Len(events') = Len(events) + 2
        /\ \A i \in 1..(Len(events) + 2) :
             events'[i] = IF i <= Len(events) THEN events[i] ELSE <<x, y>>[i - Len(events)]
    BY <1>3, <1>4, <2>1, ConcatProperties
  <2>3. QED
    BY <1>3, <2>1, <2>2
<1>5. CASE events' = Append(events, change)
  BY <1>1, <1>2, <1>3, <1>5
<1>6. QED
  BY <1>1, <1>2, <1>3, <1>4, <1>5

(* The times of the items are numbers. *)
LEMMA ItemFacts ==
    ASSUME NEW s \in Seq(Item), NEW i \in DOMAIN s
    PROVE  s[i] \in Item /\ s[i].path \in Paths /\ s[i].time \in Nat
<1>1. s[i] \in Item
  OBVIOUS
<1>2. QED
  BY <1>1, ConstantFacts DEF Item

(* A check keeps the end of the list... *)
LEMMA KeptFacts ==
    ASSUME TypeOK
    PROVE  \E r \in 0..Len(items) :
             /\ Kept \in Seq(Item) /\ Len(Kept) = Len(items) - r
             /\ \A i \in DOMAIN Kept : r + i \in DOMAIN items /\ Kept[i] = items[r + i]
             /\ r # 0 => items[r].time < clock - Duration
             /\ r # Len(items) => ~(items[r + 1].time < clock - Duration)
<1> DEFINE r == LowerBound(items, clock - Duration)
<1>1. items \in Seq(Item) /\ Len(items) \in Nat /\ DOMAIN items = 1..Len(items)
  BY DEF TypeOK
<1>2. /\ r \in 0..Len(items)
      /\ r # 0 => items[r].time < clock - Duration
      /\ r # Len(items) => ~(items[r + 1].time < clock - Duration)
  BY <1>1, LowerBoundFacts
<1>3. Kept = SubSeq(items, r + 1, Len(items))
  BY DEF Kept
<1> HIDE DEF r
<1>4. /\ Kept \in Seq(Item) /\ Len(Kept) = Len(items) - r
      /\ \A i \in DOMAIN Kept : r + i \in DOMAIN items /\ Kept[i] = items[r + i]
  BY <1>1, <1>2, <1>3, DropFacts
<1>5. QED
  BY <1>2, <1>4

(* ...with every item that is not obsolete yet. *)
LEMMA KeptListed ==
    ASSUME TypeOK, AlmostSorted, NEW p, NEW at \in Times, Soon(at), HasItem(p, at)
    PROVE  \E i \in DOMAIN Kept : Kept[i].path = p /\ Kept[i].time >= at
<1>1. PICK r \in 0..Len(items) :
         /\ Kept \in Seq(Item) /\ Len(Kept) = Len(items) - r
         /\ \A i \in DOMAIN Kept : r + i \in DOMAIN items /\ Kept[i] = items[r + i]
         /\ r # 0 => items[r].time < clock - Duration
  BY KeptFacts
<1>2. PICK i \in DOMAIN items : items[i].path = p /\ items[i].time >= at
  BY DEF HasItem
<1>3. /\ items \in Seq(Item) /\ clock \in Nat /\ at \in Nat /\ r \in Nat
      /\ DOMAIN items = 1..Len(items) /\ DOMAIN Kept = 1..(Len(items) - r) /\ Len(items) \in Nat
  BY <1>1, ConstantFacts DEF TypeOK
<1>4. ASSUME i <= r PROVE FALSE
  <2>1. r \in DOMAIN items /\ r # 0
    BY <1>2, <1>3, <1>1, <1>4
  <2>2. items[i].time \in Nat /\ items[r].time \in Nat
    BY <1>2, <1>3, <2>1, ItemFacts
  <2>3. items[i].time <= items[r].time + Skew
    <3>1. CASE i = r
      BY <2>2, <3>1, ConstantFacts
    <3>2. CASE i < r
      BY <1>2, <2>1, <3>2 DEF AlmostSorted
    <3>3. QED
      BY <1>2, <1>3, <1>4, <3>1, <3>2
  <2> DEFINE x == items[i].time
             y == items[r].time
  <2>4. x >= at /\ y < clock - Duration /\ x <= y + Skew /\ x \in Nat /\ y \in Nat
    BY <1>1, <1>2, <2>1, <2>2, <2>3
  <2> HIDE DEF x, y
  <2>5. QED
    BY <1>3, <2>4, ConstantFacts DEF Soon
<1>5. i - r \in DOMAIN Kept /\ r + (i - r) = i
  BY <1>2, <1>3, <1>4
<1>6. Kept[i - r] = items[i]
  BY <1>1, <1>5
<1>7. QED
  BY <1>2, <1>5, <1>6

(* What is kept is almost sorted, too, and nothing of it is older than a second and a skew. *)
LEMMA KeptSorted ==
    ASSUME TypeOK, AlmostSorted
    PROVE  /\ Kept \in Seq(Item)
           /\ \A i \in DOMAIN Kept : /\ Kept[i].time <= clock
                                     /\ Kept[i].time >= clock - Duration - Skew
           /\ \A i, j \in DOMAIN Kept : i < j => Kept[i].time <= Kept[j].time + Skew
<1>1. PICK r \in 0..Len(items) :
         /\ Kept \in Seq(Item) /\ Len(Kept) = Len(items) - r
         /\ \A i \in DOMAIN Kept : r + i \in DOMAIN items /\ Kept[i] = items[r + i]
         /\ r # Len(items) => ~(items[r + 1].time < clock - Duration)
  BY KeptFacts
<1>2. items \in Seq(Item) /\ clock \in Nat /\ r \in Nat /\ Len(items) \in Nat
  BY <1>1, ConstantFacts DEF TypeOK
<1>3. DOMAIN Kept = 1..(Len(items) - r)
  BY <1>1
<1>4. ASSUME NEW i \in DOMAIN Kept, NEW j \in DOMAIN Kept, i < j
      PROVE  Kept[i].time <= Kept[j].time + Skew
  <2>1. r + i \in DOMAIN items /\ r + j \in DOMAIN items /\ r + i < r + j
    BY <1>1, <1>2, <1>3, <1>4
  <2>2. items[r + i].time <= items[r + j].time + Skew
    BY <2>1 DEF AlmostSorted
  <2>3. QED
    BY <1>1, <2>2
<1>5. ASSUME NEW i \in DOMAIN Kept
      PROVE  Kept[i].time <= clock /\ Kept[i].time >= clock - Duration - Skew
  <2>1. 1 \in DOMAIN Kept /\ r # Len(items)
    BY <1>1, <1>2, <1>3
  <2>2. ~(Kept[1].time < clock - Duration)
    BY <1>1, <2>1
  <2>3. Kept[i].time \in Nat /\ Kept[1].time \in Nat
    BY <1>1, <2>1, ItemFacts
  <2>4. Kept[1].time <= Kept[i].time + Skew
    <3>1. CASE i = 1
      BY <2>3, <3>1, ConstantFacts
    <3>2. CASE i # 1
      <4>1. 1 < i
        BY <1>2, <1>3, <3>2
      <4>2. QED
        BY <1>4, <2>1, <4>1
    <3>3. QED
      BY <3>1, <3>2
  <2>5. Kept[i].time <= clock
    BY <1>1 DEF AlmostSorted
  <2> DEFINE x == Kept[1].time
             y == Kept[i].time
  <2>6. ~(x < clock - Duration) /\ x <= y + Skew /\ y <= clock /\ x \in Nat /\ y \in Nat
    BY <2>2, <2>3, <2>4, <2>5
  <2> HIDE DEF x, y
  <2>7. y <= clock /\ y >= clock - Duration - Skew
    BY <1>2, <2>6, ConstantFacts
  <2>8. QED
    BY <2>7 DEF y
<1>6. QED
  BY <1>1, <1>4, <1>5

-----------------------------------------------------------------------------
(* The initial states.                                                     *)

(* The invariant holds initially: nothing is listed and nothing has happened. *)
LEMMA InitInv == Init => IInv
<1> SUFFICES ASSUME Init PROVE IInv
  OBVIOUS
<1>1. /\ items = <<>> /\ events = <<>> /\ clock = 0 /\ watcher = "wait"
      /\ op = NoOp /\ op.todo = <<>> /\ op.now = Never /\ op.at = 0
  BY DEF Init, NoOp
<1>2. TypeOK
  <2>1. NoOp \in [list : Seq(Paths), todo : Seq(Paths), now : Times \cup {Never}, at : Times]
    BY ConstantFacts DEF NoOp
  <2>2. event \in Event
    BY ConstantFacts DEF Init, Event
  <2>3. /\ items \in Seq(Item) /\ events \in Seq(Event) /\ clock \in Times
        /\ edits \in 0..MaxEdits /\ ops \in 0..MaxOps /\ others \in 0..MaxOthers
    BY <1>1, ConstantFacts DEF Init
  <2>4. QED
    BY <2>1, <2>2, <2>3 DEF Init, TypeOK, PC
<1>3. ListInv
  <2>1. ToSet(op.todo) = {}
    BY <1>1 DEF ToSet
  <2>2. DOMAIN items = {}
    BY <1>1
  <2>3. QED
    BY <1>1, <2>1, <2>2, ConstantFacts DEF ListInv, ReadInTime, AlmostSorted, OpListed
<1>4. EventsExpected
  BY <1>1 DEF EventsExpected
<1>5. Unwatched /\ NoEcho
  BY <1>1 DEF Unwatched, NoEcho
<1>6. QED
  BY <1>2, <1>3, <1>4, <1>5 DEF IInv

-----------------------------------------------------------------------------
(* The types.                                                              *)

OpType == [list : Seq(Paths), todo : Seq(Paths), now : Times \cup {Never}, at : Times]

(* The fields of a command. *)
LEMMA OpFacts ==
    ASSUME TypeOK
    PROVE  /\ op \in OpType /\ NoOp \in OpType /\ clock \in Times
           /\ op.list \in Seq(Paths) /\ op.todo \in Seq(Paths)
           /\ op.now \in Times \cup {Never} /\ op.at \in Times
           /\ NoOp.list = <<>> /\ NoOp.todo = <<>> /\ NoOp.now = Never /\ NoOp.at = 0
<1>1. op \in OpType /\ clock \in Times
  BY DEF TypeOK, OpType
<1>2. /\ NoOp \in OpType
      /\ NoOp.list = <<>> /\ NoOp.todo = <<>> /\ NoOp.now = Never /\ NoOp.at = 0
  BY ConstantFacts DEF NoOp, OpType
<1>3. QED
  BY <1>1, <1>2 DEF OpType

(* The paths of a command are a sequence. *)
LEMMA CommandFacts ==
    ASSUME NEW c \in Commands
    PROVE  c \in Seq(Paths) /\ c # <<>>
<1>1. CASE c \in {<<p>> : p \in Paths}
  <2>1. PICK p \in Paths : c = <<p>>
    BY <1>1
  <2>2. QED
    BY <2>1
<1>2. CASE c \in Paths \X Paths
  <2>1. PICK p, q \in Paths : c = <<p, q>>
    BY <1>2
  <2>2. QED
    BY <2>1
<1>3. QED
  BY <1>1, <1>2 DEF Commands

(* The steps of the workers, of others on the server and of time keep the types. *)
LEMMA ServerTypes ==
    ASSUME TypeOK, ReadInTime,
           \/ \E p \in Paths : Edit(p)
           \/ \E c \in Commands : Begin(c)
           \/ ReadClock \/ Add \/ Execute \/ ExecuteFails
           \/ \E p \in Paths, time \in Times : AddOther(p, time)
           \/ Tick
    PROVE  TypeOK'
<1> USE OpFacts, ConstantFacts
<1>1. ASSUME NEW p \in Paths, Edit(p) PROVE TypeOK'
  <2>1. tree' \in SUBSET Paths /\ events' \in Seq(Event)
    BY <1>1, TouchFacts DEF Edit
  <2>2. edits' \in 0..MaxEdits
    BY <1>1 DEF Edit, TypeOK
  <2>3. unseen' \in SUBSET Paths /\ missed' \in SUBSET Paths
    BY <1>1 DEF Edit, TypeOK
  <2>4. QED
    BY <1>1, <2>1, <2>2, <2>3 DEF Edit, TypeOK
<1>2. ASSUME NEW c \in Commands, Begin(c) PROVE TypeOK'
  <2>1. op' \in OpType
    BY <1>2, CommandFacts DEF Begin, OpType
  <2>2. ops' \in 0..MaxOps
    BY <1>2 DEF Begin, TypeOK
  <2>3. QED
    BY <1>2, <2>1, <2>2 DEF Begin, TypeOK, OpType, watcherVars, historyVars
<1>3. CASE ReadClock
  <2>1. op' \in OpType
    BY <1>3 DEF ReadClock, OpType
  <2>2. QED
    BY <1>3, <2>1 DEF ReadClock, TypeOK, OpType, watcherVars, historyVars
<1>4. CASE Add
  <2>1. op.list # <<>> /\ op.now # Never
    BY <1>4 DEF Add, ReadInTime
  <2>2. Head(op.list) \in Paths /\ Tail(op.list) \in Seq(Paths) /\ op.now \in Times
    BY <1>4, <2>1 DEF Add
  <2>3. op' \in OpType
    BY <1>4, <2>2 DEF Add, OpType
  <2>4. [path |-> Head(op.list), time |-> op.now] \in Item
    BY <2>2 DEF Item
  <2>5. items' \in Seq(Item)
    BY <1>4, <2>4 DEF Add, TypeOK
  <2>6. QED
    BY <1>4, <2>3, <2>5 DEF Add, TypeOK, OpType, watcherVars, historyVars
<1>5. CASE Execute
  <2>1. Head(op.todo) \in Paths /\ Tail(op.todo) \in Seq(Paths)
    BY <1>5 DEF Execute
  <2>2. op' \in OpType
    BY <1>5, <2>1 DEF Execute, OpType
  <2>3. tree' \in SUBSET Paths /\ events' \in Seq(Event)
    BY <1>5, <2>1, TouchFacts DEF Execute
  <2>4. QED
    BY <1>5, <2>2, <2>3 DEF Execute, TypeOK, OpType, historyVars
<1>6. CASE ExecuteFails
  BY <1>6 DEF ExecuteFails, TypeOK, OpType, watcherVars, historyVars
<1>7. ASSUME NEW p \in Paths, NEW time \in Times, AddOther(p, time) PROVE TypeOK'
  <2>1. [path |-> p, time |-> time] \in Item
    BY DEF Item
  <2>2. items' \in Seq(Item)
    BY <1>7, <2>1 DEF AddOther, TypeOK
  <2>3. others' \in 0..MaxOthers
    BY <1>7 DEF AddOther, TypeOK
  <2>4. QED
    BY <1>7, <2>2, <2>3 DEF AddOther, TypeOK, watcherVars, historyVars
<1>8. CASE Tick
  <2>1. clock' \in Times
    BY <1>8 DEF Tick, Times
  <2>2. QED
    BY <1>8, <2>1 DEF Tick, TypeOK, watcherVars, historyVars
<1>9. QED
  BY <1>1, <1>2, <1>3, <1>4, <1>5, <1>6, <1>7, <1>8

(* So do those of the watcher. *)
LEMMA WatcherTypes == ASSUME TypeOK, WatcherNext \/ Stop PROVE TypeOK'
<1> USE DEF serverVars, historyVars, Leave
<1> DEFINE Rest == /\ tree \in SUBSET Paths /\ edits \in 0..MaxEdits /\ ops \in 0..MaxOps
                   /\ clock \in Times /\ others \in 0..MaxOthers
                   /\ op \in [list : Seq(Paths), todo : Seq(Paths), now : Times \cup {Never},
                              at : Times]
           Lists == items \in Seq(Item) /\ events \in Seq(Event) /\ event \in Event
           Where == /\ watcher \in PC /\ watching \in BOOLEAN /\ quit \in BOOLEAN
                    /\ fingerprint \in (SUBSET Paths) \cup {NoPrint}
                    /\ unseen \in SUBSET Paths /\ missed \in SUBSET Paths
<1>1. Rest /\ Lists /\ Where
  BY DEF TypeOK
<1>2. Rest'
  <2>1. UNCHANGED <<tree, edits, ops, clock, op, others>>
    BY DEF WatcherNext, WatcherStep, Initialize, Watch, WatchFails, Take, Ignore, Accept,
           Stabilize, StabilizeThrows, Notify, Break, Stop
  <2>2. QED
    BY <1>1, <2>1
<1>3. Lists'
  <2>1. UNCHANGED event \/ (watcher = "wait" /\ events # <<>> /\ event' = Head(events))
    BY DEF WatcherNext, WatcherStep, Initialize, Watch, WatchFails, Take, Ignore, Accept,
           Stabilize, StabilizeThrows, Notify, Break, Stop
  <2>2. events' \in {events, <<>>} \/ (events # <<>> /\ events' = Tail(events))
    BY DEF WatcherNext, WatcherStep, Initialize, Watch, WatchFails, Take, Ignore, Accept,
           Stabilize, StabilizeThrows, Notify, Break, Stop
  <2>3. items' \in {items, Kept}
    BY DEF WatcherNext, WatcherStep, Initialize, Watch, WatchFails, Take, Ignore, Accept,
           Stabilize, StabilizeThrows, Notify, Break, Stop
  <2>4. Kept \in Seq(Item)
    BY KeptFacts
  <2>5. event' \in Event
    BY <1>1, <2>1
  <2>6. events' \in Seq(Event)
    <3>1. <<>> \in Seq(Event) /\ (events # <<>> => Tail(events) \in Seq(Event))
      BY <1>1
    <3>2. QED
      BY <1>1, <2>2, <3>1
  <2>7. QED
    BY <1>1, <2>3, <2>4, <2>5, <2>6
<1>4. Where'
  <2>1. watcher' \in PC
    BY <1>1 DEF PC, WatcherNext, WatcherStep, Initialize, Watch, WatchFails, Take, Ignore, Accept,
           Stabilize, StabilizeThrows, Notify, Break, Stop
  <2>2. watching' \in {TRUE, FALSE, watching} /\ quit' \in {quit, TRUE}
    BY DEF WatcherNext, WatcherStep, Initialize, Watch, WatchFails, Take, Ignore, Accept,
           Stabilize, StabilizeThrows, Notify, Break, Stop
  <2>3. fingerprint' \in {fingerprint, NoPrint, tree}
    BY DEF WatcherNext, WatcherStep, Initialize, Watch, WatchFails, Take, Ignore, Accept,
           Stabilize, StabilizeThrows, Notify, Break, Stop
  <2>4. unseen' \in {unseen, {}} /\ missed' \in {missed, {}, missed \cup unseen}
    BY DEF WatcherNext, WatcherStep, Initialize, Watch, WatchFails, Take, Ignore, Accept,
           Stabilize, StabilizeThrows, Notify, Break, Stop
  <2>5. QED
    BY <1>1, <2>1, <2>2, <2>3, <2>4
<1>5. QED
  BY <1>2, <1>3, <1>4 DEF TypeOK

-----------------------------------------------------------------------------
(* The steps of the workers, of others on the server and of time.          *)

\* The part of the invariant that is about more than types.
Listing == ListInv /\ EventsExpected /\ Unwatched /\ NoEcho

(* A step that lists nothing and ends no command. *)
LEMMA SameList ==
    ASSUME UNCHANGED <<op, items, clock>>
    PROVE  /\ ListInv => ListInv'
           /\ \A p, at : HasItem(p, at) => HasItem(p, at)'
           /\ \A e : Expected(e) => Expected(e)'
BY DEF ListInv, ReadInTime, AlmostSorted, OpListed, HasItem, Expected, Soon

(* A path is listed: the times stay almost sorted, as the worker gets the lock in time. *)
LEMMA ListFacts ==
    ASSUME TypeOK, AlmostSorted, NEW x \in Item, x.time <= clock, clock <= x.time + Skew,
           items' = Append(items, x), clock' = clock
    PROVE  /\ AlmostSorted'
           /\ \A p, at : HasItem(p, at) => HasItem(p, at)'
           /\ \A at : at <= x.time => HasItem(x.path, at)'
<1> DEFINE n == Len(items)
<1>1. /\ items \in Seq(Item) /\ n \in Nat /\ DOMAIN items = 1..n /\ DOMAIN items' = 1..(n + 1)
      /\ \A i \in 1..n : items'[i] = items[i]
      /\ items'[n + 1] = x
  BY DEF TypeOK
<1> HIDE DEF n
<1>2. \A i \in 1..n : items[i].time \in Nat
  BY <1>1, ItemFacts
<1>3. x.time \in Nat /\ clock \in Nat
  BY ConstantFacts DEF Item, TypeOK
<1>4. ASSUME NEW i \in 1..(n + 1) PROVE items'[i].time <= clock
  BY <1>1, <1>4 DEF AlmostSorted
<1>5. ASSUME NEW i \in 1..(n + 1), NEW j \in 1..(n + 1), i < j
      PROVE  items'[i].time <= items'[j].time + Skew
  <2>1. i \in 1..n
    BY <1>1, <1>5
  <2>2. CASE j \in 1..n
    BY <1>1, <1>5, <2>1, <2>2 DEF AlmostSorted
  <2>3. CASE j = n + 1
    <3>1. items[i].time <= clock /\ items[i].time \in Nat
      BY <1>1, <1>2, <2>1 DEF AlmostSorted
    <3>2. items[i].time <= x.time + Skew
      BY <1>3, <3>1, ConstantFacts
    <3>3. QED
      BY <1>1, <2>1, <2>3, <3>2
  <2>4. QED
    BY <1>1, <2>2, <2>3
<1>6. AlmostSorted'
  BY <1>1, <1>4, <1>5 DEF AlmostSorted
<1>7. ASSUME NEW p, NEW at, HasItem(p, at) PROVE HasItem(p, at)'
  <2>1. PICK i \in 1..n : items[i].path = p /\ items[i].time >= at
    BY <1>1, <1>7 DEF HasItem
  <2>2. i \in DOMAIN items' /\ items'[i] = items[i]
    BY <1>1
  <2>3. QED
    BY <2>1, <2>2 DEF HasItem
<1>8. ASSUME NEW at, at <= x.time PROVE HasItem(x.path, at)'
  <2>1. n + 1 \in DOMAIN items'
    BY <1>1
  <2>2. items'[n + 1].time >= at
    BY <1>1, <1>8
  <2>3. QED
    BY <1>1, <2>1, <2>2 DEF HasItem
<1>9. QED
  BY <1>6, <1>7, <1>8

(* The events wait, and the watcher stays, while what was listed stays so. *)
LEMMA EventsStay ==
    ASSUME Listing, UNCHANGED <<events, event, watcher, watching>>,
           clock' = clock, \A p, at : HasItem(p, at) => HasItem(p, at)'
    PROVE  EventsExpected' /\ Unwatched' /\ NoEcho'
<1>1. \A e : Expected(e) => Expected(e)'
  BY DEF Expected, Soon
<1>2. EventsExpected'
  BY <1>1 DEF Listing, EventsExpected
<1>3. QED
  BY <1>2 DEF Listing, Unwatched, NoEcho

(* Somebody changes a path. *)
LEMMA EditInv == ASSUME IInv, NEW p \in Paths, Edit(p) PROVE Listing'
<1> USE DEF IInv, Listing
<1>1. UNCHANGED <<op, items, clock>> /\ UNCHANGED <<event, watcher>>
  BY DEF Edit
<1>2. TypeOK /\ Touch(p, "local", 0)
  BY DEF Edit
<1>3. UNCHANGED watching /\ (~watching => events' = events)
  BY <1>2, TouchFacts, ConstantFacts DEF Edit
<1>4. \A i \in DOMAIN events' : \/ i \in DOMAIN events /\ events'[i] = events[i]
                                \/ events'[i].by = "local"
  BY <1>2, TouchFacts, ConstantFacts
<1>5. ListInv'
  BY <1>1, SameList
<1>6. \A e : Expected(e) => Expected(e)'
  BY <1>1, SameList
<1>7. EventsExpected'
  <2>1. ASSUME watcher' = "wait", NEW i \in DOMAIN events' PROVE Expected(events[i])'
    <3>1. CASE i \in DOMAIN events /\ events'[i] = events[i]
      <4>1. Expected(events[i])
        BY <1>1, <2>1, <3>1 DEF EventsExpected
      <4>2. QED
        BY <1>6, <3>1, <4>1 DEF Expected
    <3>2. CASE events'[i].by = "local"
      BY <3>2 DEF Expected
    <3>3. QED
      BY <1>4, <2>1, <3>1, <3>2
  <2>2. QED
    BY <1>1, <1>6, <2>1 DEF EventsExpected
<1>8. Unwatched' /\ NoEcho'
  BY <1>1, <1>3 DEF Unwatched, NoEcho
<1>9. QED
  BY <1>5, <1>7, <1>8

(* A worker begins a command: its paths are to be listed. *)
LEMMA BeginInv == ASSUME IInv, NEW c \in Commands, Begin(c) PROVE Listing'
<1> USE DEF IInv, Listing
<1>1. /\ op' = [list |-> c, todo |-> c, now |-> clock, at |-> clock]
      /\ UNCHANGED <<items, clock>> /\ UNCHANGED <<events, event, watcher, watching>>
  BY DEF Begin, watcherVars
<1>2. /\ op'.list = c /\ op'.todo = c /\ op'.now = clock /\ op'.at = clock
      /\ clock \in Nat /\ c # <<>>
  BY <1>1, CommandFacts, ConstantFacts DEF TypeOK
<1>3. ReadInTime'
  BY <1>1, <1>2, ConstantFacts DEF ReadInTime, Soon
<1>4. AlmostSorted' /\ OpListed'
  BY <1>1, <1>2 DEF ListInv, AlmostSorted, OpListed
<1>5. EventsExpected' /\ Unwatched' /\ NoEcho'
  BY <1>1, EventsStay DEF HasItem
<1>6. QED
  BY <1>3, <1>4, <1>5 DEF ListInv

(* It reads the clock again for a second path. *)
LEMMA ReadClockInv == ASSUME IInv, ReadClock PROVE Listing'
<1> USE DEF IInv, Listing
<1>1. /\ op' = [op EXCEPT !.now = clock] /\ op.list # <<>>
      /\ UNCHANGED <<items, clock>> /\ UNCHANGED <<events, event, watcher, watching>>
  BY DEF ReadClock, watcherVars
<1>2. /\ op'.list = op.list /\ op'.todo = op.todo /\ op'.now = clock /\ op'.at = op.at
      /\ clock \in Nat /\ op # NoOp
  BY <1>1, OpFacts, ConstantFacts DEF OpType
<1>3. ReadInTime'
  BY <1>1, <1>2, ConstantFacts DEF ListInv, ReadInTime, Soon
<1>4. AlmostSorted' /\ OpListed'
  BY <1>1, <1>2 DEF ListInv, AlmostSorted, OpListed, HasItem
<1>5. EventsExpected' /\ Unwatched' /\ NoEcho'
  BY <1>1, EventsStay DEF HasItem
<1>6. QED
  BY <1>3, <1>4, <1>5 DEF ListInv

(* It lists a path. *)
LEMMA AddInv == ASSUME IInv, Add PROVE Listing'
<1> USE DEF IInv, Listing
<1>0. PICK x : x = [path |-> Head(op.list), time |-> op.now]
  OBVIOUS
<1>1. /\ op' = [op EXCEPT !.now = Never, !.list = Tail(@)] /\ op.now # Never
      /\ items' = Append(items, x)
      /\ clock' = clock /\ UNCHANGED <<events, event, watcher, watching>>
  BY <1>0 DEF Add, watcherVars
<1>2. /\ op.list # <<>> /\ op.at <= op.now /\ op.now <= clock /\ clock <= op.now + Skew
      /\ op.now \in Times
  BY <1>1, OpFacts DEF ListInv, ReadInTime
<1>3. /\ Head(op.list) \in Paths /\ ToSet(op.list) = {Head(op.list)} \cup ToSet(Tail(op.list))
  BY <1>2, OpFacts, TailFacts, HeadOrTail
<1>4. x \in Item /\ x.path = Head(op.list) /\ x.time = op.now
  BY <1>0, <1>2, <1>3 DEF Item
<1>5. /\ op'.list = Tail(op.list) /\ op'.todo = op.todo /\ op'.now = Never /\ op'.at = op.at
      /\ op # NoOp
  BY <1>1, OpFacts DEF OpType
<1>6. /\ AlmostSorted'
      /\ \A p, at : HasItem(p, at) => HasItem(p, at)'
      /\ \A at : at <= x.time => HasItem(x.path, at)'
  <2>1. x.time <= clock /\ clock <= x.time + Skew /\ items' = Append(items, x) /\ clock' = clock
    BY <1>1, <1>2, <1>4
  <2>2. TypeOK /\ AlmostSorted
    BY DEF ListInv
  <2>3. QED
    BY <1>4, <2>1, <2>2, ListFacts
<1>7. ReadInTime'
  BY <1>1, <1>5 DEF ListInv, ReadInTime, Soon
<1>8. OpListed'
  <2>1. PICK at : at = op.at
    OBVIOUS
  <2>2. ASSUME NEW p \in ToSet(op.todo), p \notin ToSet(Tail(op.list)) PROVE HasItem(p, at)'
    <3>1. CASE p = Head(op.list)
      BY <1>2, <1>4, <1>6, <2>1, <3>1
    <3>2. CASE p # Head(op.list)
      BY <1>3, <1>6, <2>1, <2>2, <3>2 DEF ListInv, OpListed
    <3>3. QED
      BY <3>1, <3>2
  <2>3. QED
    BY <1>5, <2>1, <2>2 DEF OpListed, HasItem
<1>9. EventsExpected' /\ Unwatched' /\ NoEcho'
  BY <1>1, <1>6, EventsStay
<1>10. QED
  BY <1>6, <1>7, <1>8, <1>9 DEF ListInv

(* So does another worker. *)
LEMMA AddOtherInv ==
    ASSUME IInv, NEW p \in Paths, NEW time \in Times, AddOther(p, time) PROVE Listing'
<1> USE DEF IInv, Listing
<1> DEFINE x == [path |-> p, time |-> time]
<1>1. /\ items' = Append(items, x) /\ time <= clock /\ clock <= time + Skew
      /\ UNCHANGED <<op, clock>> /\ UNCHANGED <<events, event, watcher, watching>>
  BY DEF AddOther, watcherVars
<1>2. x \in Item /\ x.time = time
  BY DEF Item
<1> HIDE DEF x
<1>3. AlmostSorted' /\ \A q, at : HasItem(q, at) => HasItem(q, at)'
  BY <1>1, <1>2, ListFacts DEF ListInv
<1>4. ReadInTime' /\ OpListed'
  BY <1>1, <1>3 DEF ListInv, ReadInTime, OpListed, Soon
<1>5. EventsExpected' /\ Unwatched' /\ NoEcho'
  BY <1>1, <1>3, EventsStay
<1>6. QED
  BY <1>3, <1>4, <1>5 DEF ListInv

(* The system call of a command raises events of a listed path. *)
LEMMA ExecuteInv == ASSUME IInv, Execute PROVE Listing'
<1> USE DEF IInv, Listing
<1> DEFINE p == Head(op.todo)
<1>1. /\ op' = IF Tail(op.todo) = <<>> THEN NoOp ELSE [op EXCEPT !.todo = Tail(op.todo)]
      /\ op.list = <<>> /\ op.todo # <<>>
      /\ UNCHANGED <<items, clock>> /\ UNCHANGED <<event, watcher>>
      /\ Touch(p, "client", op.at)
  BY DEF Execute
<1>2. p \in ToSet(op.todo) /\ p \in Paths /\ ToSet(Tail(op.todo)) \subseteq ToSet(op.todo)
  BY <1>1, OpFacts, TailFacts
<1> HIDE DEF p
<1>3. op # NoOp /\ op.at \in Times
  BY <1>1, OpFacts
<1>4. HasItem(p, op.at) /\ Soon(op.at)
  BY <1>1, <1>2, <1>3 DEF ListInv, OpListed, ReadInTime, ToSet
<1>5. UNCHANGED watching /\ (~watching => events' = events)
  BY <1>1, <1>2, <1>3, TouchFacts DEF Execute
<1>6. \A i \in DOMAIN events' :
        \/ i \in DOMAIN events /\ events'[i] = events[i]
        \/ events'[i].path = p /\ events'[i].at = op.at
  BY <1>1, <1>2, <1>3, TouchFacts
<1>7. ListInv'
  <2>1. CASE op' = NoOp
    <3>1. op'.todo = <<>> /\ op'.now = Never /\ op'.at = 0 /\ clock \in Nat
      BY <2>1, OpFacts, ConstantFacts
    <3>2. ReadInTime'
      BY <1>1, <2>1, <3>1, OpFacts DEF ReadInTime
    <3>3. AlmostSorted' /\ OpListed'
      BY <1>1, <3>1 DEF ListInv, AlmostSorted, OpListed, ToSet
    <3>4. QED
      BY <3>2, <3>3 DEF ListInv
  <2>2. CASE op' # NoOp
    <3>1. /\ op'.list = op.list /\ op'.todo = Tail(op.todo) /\ op'.now = op.now /\ op'.at = op.at
      BY <1>1, <2>2, OpFacts DEF OpType
    <3>2. ReadInTime'
      BY <1>1, <1>3, <3>1 DEF ListInv, ReadInTime, Soon
    <3>3. AlmostSorted' /\ OpListed'
      BY <1>1, <1>2, <3>1 DEF ListInv, AlmostSorted, OpListed, HasItem
    <3>4. QED
      BY <3>2, <3>3 DEF ListInv
  <2>3. QED
    BY <2>1, <2>2
<1>8. (\A q, at : HasItem(q, at) => HasItem(q, at)') /\ (\A at : Soon(at) => Soon(at)')
  BY <1>1 DEF HasItem, Soon
<1>9. EventsExpected'
  <2>1. ASSUME watcher' = "wait", NEW i \in DOMAIN events' PROVE Expected(events[i])'
    <3>1. CASE i \in DOMAIN events /\ events'[i] = events[i]
      <4>1. Expected(events[i])
        BY <1>1, <2>1, <3>1 DEF EventsExpected
      <4>2. QED
        BY <1>8, <3>1, <4>1 DEF Expected
    <3>2. CASE events'[i].path = p /\ events'[i].at = op.at
      BY <1>4, <1>8, <3>2 DEF Expected
    <3>3. QED
      BY <1>6, <2>1, <3>1, <3>2
  <2>2. watcher' = "check" => Expected(event)'
    BY <1>1, <1>8 DEF EventsExpected, Expected
  <2>3. QED
    BY <2>1, <2>2 DEF EventsExpected
<1>10. Unwatched' /\ NoEcho'
  BY <1>1, <1>5 DEF Unwatched, NoEcho
<1>11. QED
  BY <1>7, <1>9, <1>10

(* The system call fails. *)
LEMMA ExecuteFailsInv == ASSUME IInv, ExecuteFails PROVE Listing'
<1> USE DEF IInv, Listing
<1>1. /\ op' = NoOp
      /\ UNCHANGED <<items, clock>> /\ UNCHANGED <<events, event, watcher, watching>>
  BY DEF ExecuteFails, watcherVars
<1>2. op'.todo = <<>> /\ op'.now = Never /\ op'.at = 0 /\ clock \in Nat
  BY <1>1, OpFacts, ConstantFacts
<1>3. ReadInTime'
  BY <1>1, <1>2, OpFacts DEF ReadInTime
<1>4. AlmostSorted' /\ OpListed'
  BY <1>1, <1>2 DEF ListInv, AlmostSorted, OpListed, ToSet
<1>5. EventsExpected' /\ Unwatched' /\ NoEcho'
  BY <1>1, EventsStay DEF HasItem
<1>6. QED
  BY <1>3, <1>4, <1>5 DEF ListInv

(* Time passes, while nothing the watcher has to look at gets late. *)
LEMMA TickInv == ASSUME IInv, Tick PROVE Listing'
<1> USE DEF IInv, Listing
<1>1. /\ UNCHANGED <<op, items>> /\ UNCHANGED <<events, event, watcher, watching>>
      /\ clock' = clock + 1 /\ (op.now # Never => clock < op.now + Skew)
      /\ \A at \in Pending : clock < at + Duration - Skew
  BY DEF Tick, watcherVars
<1>2. clock \in Nat /\ op.at \in Nat /\ op.now \in Nat \cup {Never}
  BY OpFacts, ConstantFacts
<1>3. \A at \in Pending : at \in Nat => clock' <= at + Duration - Skew
  BY <1>1, <1>2, ConstantFacts
<1>4. op # NoOp => op.at \in Pending
  BY DEF Pending
<1>5. ReadInTime'
  BY <1>1, <1>2, <1>3, <1>4, ConstantFacts DEF ListInv, ReadInTime, Soon
<1>6. OpListed'
  BY <1>1 DEF ListInv, OpListed, HasItem
<1>7. AlmostSorted'
  <2>1. \A i \in DOMAIN items : items[i].time \in Nat
    BY ItemFacts DEF TypeOK
  <2>2. \A i \in DOMAIN items : items[i].time <= clock + 1
    BY <1>2, <2>1 DEF ListInv, AlmostSorted
  <2>3. QED
    BY <1>1, <2>2 DEF ListInv, AlmostSorted
<1>8. EventsExpected'
  <2>1. ASSUME watcher = "wait", NEW i \in DOMAIN events, events[i].by = "client"
        PROVE  HasItem(events[i].path, events[i].at) /\ clock' <= events[i].at + Duration - Skew
    <3>1. events[i].at \in Pending
      BY <2>1 DEF Pending
    <3>2. events[i].at \in Nat
      <4>1. events[i] \in Event
        BY DEF TypeOK
      <4>2. QED
        BY <4>1, ConstantFacts DEF Event
    <3>3. QED
      BY <1>3, <2>1, <3>1, <3>2 DEF EventsExpected, Expected
  <2>2. ASSUME watcher = "check", event.by = "client"
        PROVE  HasItem(event.path, event.at) /\ clock' <= event.at + Duration - Skew
    <3>1. event.at \in Pending
      BY <2>2 DEF Pending
    <3>2. event.at \in Nat
      BY ConstantFacts DEF TypeOK, Event
    <3>3. QED
      BY <1>3, <2>2, <3>1, <3>2 DEF EventsExpected, Expected
  <2>3. QED
    BY <1>1, <2>1, <2>2 DEF EventsExpected, Expected, HasItem, Soon
<1>9. Unwatched' /\ NoEcho'
  BY <1>1 DEF Unwatched, NoEcho
<1>10. QED
  BY <1>5, <1>6, <1>7, <1>8, <1>9 DEF ListInv

-----------------------------------------------------------------------------
(* The steps of the watcher.                                               *)

(* It begins to watch or fails to, sees the tree become stable, notifies, or ends: the list *)
(* stays, and the events are lost where nothing is watched. *)
LEMMA WatcherMoves ==
    ASSUME IInv,
           Initialize \/ Watch \/ WatchFails \/ Stabilize \/ StabilizeThrows \/ Notify
               \/ Break \/ Stop
    PROVE  Listing'
<1> USE DEF IInv, Listing, serverVars
<1>1. UNCHANGED <<op, items, clock>> /\ event' = event
  BY DEF Initialize, Watch, WatchFails, Stabilize, StabilizeThrows, Notify, Break, Stop
<1>2. ListInv' /\ \A e : Expected(e) => Expected(e)'
  BY <1>1, SameList
<1>3. CASE Stop
  <2>1. UNCHANGED <<events, watcher, watching>>
    BY <1>3 DEF Stop
  <2>2. EventsExpected' /\ Unwatched' /\ NoEcho'
    BY <1>1, <2>1, EventsStay DEF HasItem
  <2>3. QED
    BY <1>2, <2>2
<1>4. CASE Initialize
  <2>1. /\ watcher = "init" /\ watcher' \in {"watch", "done"}
        /\ watching' = watching /\ events' = events
    BY <1>4 DEF Initialize
  <2>2. Unwatched' /\ NoEcho' /\ EventsExpected'
    BY <2>1 DEF Unwatched, NoEcho, EventsExpected
  <2>3. QED
    BY <1>2, <2>2
<1>5. CASE Watch
  <2>1. watcher = "watch" /\ watcher' = "wait" /\ events' = events
    BY <1>5 DEF Watch
  <2>2. events = <<>>
    BY <2>1 DEF Unwatched
  <2>3. Unwatched' /\ NoEcho' /\ EventsExpected'
    BY <2>1, <2>2 DEF Unwatched, NoEcho, EventsExpected
  <2>4. QED
    BY <1>2, <2>3
<1>6. CASE Stabilize
  <2>1. /\ watcher = "print" /\ watcher' \in {"print", "notify"}
    BY <1>6 DEF Stabilize
  <2>2. Unwatched' /\ NoEcho' /\ EventsExpected'
    BY <1>1, <2>1 DEF Unwatched, NoEcho, EventsExpected
  <2>3. QED
    BY <1>2, <2>2
<1>7. CASE WatchFails \/ StabilizeThrows \/ Notify \/ Break
  <2>1. \E to \in {"init", "done"} : Leave(to)
    BY <1>7 DEF WatchFails, StabilizeThrows, Notify, Break
  <2>2. watcher' \in {"init", "done"} /\ watching' = FALSE /\ events' = <<>>
    BY <2>1 DEF Leave
  <2>3. Unwatched' /\ NoEcho' /\ EventsExpected'
    BY <2>2 DEF Unwatched, NoEcho, EventsExpected
  <2>4. QED
    BY <1>2, <2>3
<1>8. QED
  BY <1>3, <1>4, <1>5, <1>6, <1>7

(* It takes an event of a listed path. *)
LEMMA TakeInv == ASSUME IInv, Take PROVE Listing'
<1> USE DEF IInv, Listing, serverVars
<1>1. /\ UNCHANGED <<op, items, clock>> /\ watcher = "wait" /\ events # <<>>
      /\ event' = Head(events) /\ events' = Tail(events) /\ watcher' \in {"wait", "check"}
  BY DEF Take
<1>2. ListInv' /\ \A e : Expected(e) => Expected(e)'
  BY <1>1, SameList
<1>3. /\ DOMAIN events = 1..Len(events) /\ Len(events) \in Nat \ {0} /\ Head(events) = events[1]
      /\ DOMAIN Tail(events) = 1..(Len(events) - 1)
      /\ \A i \in DOMAIN Tail(events) : Tail(events)[i] = events[i + 1]
  BY <1>1 DEF TypeOK
<1>4. \A i \in DOMAIN events : Expected(events[i])
  BY <1>1 DEF EventsExpected
<1>5. ASSUME NEW i \in DOMAIN Tail(events)
      PROVE  i + 1 \in DOMAIN events /\ Tail(events)[i] = events[i + 1]
  BY <1>3
<1>6. (\A i \in DOMAIN Tail(events) : Expected(Tail(events)[i])) /\ Expected(Head(events))
  BY <1>3, <1>4, <1>5
<1>7. EventsExpected'
  <2>1. \A i \in DOMAIN events' : Expected(events'[i])
    BY <1>1, <1>6
  <2>2. Expected(event')
    BY <1>1, <1>6
  <2>3. \A e : Expected(e) => (e.by = "client" => HasItem(e.path, e.at)' /\ Soon(e.at)')
    BY <1>1 DEF Expected, HasItem, Soon
  <2>4. QED
    BY <2>1, <2>2, <2>3 DEF EventsExpected, Expected
<1>8. Unwatched' /\ NoEcho'
  BY <1>1 DEF Unwatched, NoEcho
<1>9. QED
  BY <1>2, <1>7, <1>8

(* A check keeps what is listed for the commands that are executed. *)
LEMMA CheckList ==
    ASSUME IInv, items' = Kept, UNCHANGED <<op, clock>>
    PROVE  ListInv'
<1> USE DEF IInv
<1>1. ReadInTime'
  BY DEF ListInv, ReadInTime, Soon
<1>2. AlmostSorted'
  BY KeptSorted DEF ListInv, AlmostSorted
<1>3. OpListed'
  <2>1. ASSUME NEW p \in ToSet(op.todo), p \notin ToSet(op.list)
        PROVE  \E i \in DOMAIN Kept : Kept[i].path = p /\ Kept[i].time >= op.at
    <3>1. op.todo # <<>>
      BY <2>1 DEF ToSet
    <3>2. op # NoOp /\ op.at \in Times
      BY <3>1, OpFacts
    <3>3. Soon(op.at) /\ HasItem(p, op.at) /\ AlmostSorted
      BY <2>1, <3>2 DEF ListInv, ReadInTime, OpListed
    <3>4. QED
      BY <3>2, <3>3, KeptListed
  <2>2. QED
    BY <2>1 DEF OpListed, HasItem
<1>4. QED
  BY <1>1, <1>2, <1>3 DEF ListInv

(* An event on a listed path is ignored. *)
LEMMA IgnoreInv == ASSUME IInv, Ignore PROVE Listing'
<1>1. items' = Kept /\ UNCHANGED <<op, clock>> /\ Leave("init")
  BY DEF Ignore
<1>2. ListInv'
  BY <1>1, CheckList
<1>3. watcher' = "init" /\ watching' = FALSE /\ events' = <<>>
  BY <1>1 DEF Leave
<1>4. Unwatched' /\ NoEcho' /\ EventsExpected'
  BY <1>3 DEF Unwatched, NoEcho, EventsExpected
<1>5. QED
  BY <1>2, <1>4 DEF Listing

(* Any other is not a command's: its path would be listed. *)
LEMMA AcceptInv == ASSUME IInv, Accept PROVE Listing'
<1>1. /\ items' = Kept /\ UNCHANGED <<op, clock>> /\ event' = event
      /\ watcher = "check" /\ watcher' = "print" /\ ~Listed(event.path)
  BY DEF Accept
<1>2. ListInv'
  BY <1>1, CheckList
<1>3. event.by = "local"
  <2>1. event.at \in Times /\ event.by \in {"local", "client"}
    BY DEF IInv, TypeOK, Event
  <2>2. SUFFICES ASSUME event.by = "client" PROVE FALSE
    BY <2>1
  <2>3. HasItem(event.path, event.at) /\ Soon(event.at)
    BY <1>1, <2>2 DEF IInv, EventsExpected, Expected
  <2>4. \E i \in DOMAIN Kept : Kept[i].path = event.path /\ Kept[i].time >= event.at
    BY <2>1, <2>3, KeptListed DEF IInv, ListInv
  <2>5. QED
    BY <1>1, <2>4 DEF Listed
<1>4. Unwatched' /\ NoEcho' /\ EventsExpected'
  BY <1>1, <1>3 DEF Unwatched, NoEcho, EventsExpected
<1>5. QED
  BY <1>2, <1>4 DEF Listing

-----------------------------------------------------------------------------
(* The theorems.                                                           *)

(* Every step keeps the invariant. *)
LEMMA NextInv == ASSUME IInv, [Next]_vars PROVE IInv'
<1>1. TypeOK /\ ReadInTime
  BY DEF IInv, ListInv
<1>2. ASSUME NEW p \in Paths, Edit(p) PROVE TypeOK' /\ Listing'
  BY <1>1, <1>2, ServerTypes, EditInv
<1>3. ASSUME NEW c \in Commands, Begin(c) PROVE TypeOK' /\ Listing'
  BY <1>1, <1>3, ServerTypes, BeginInv
<1>4. CASE ReadClock \/ Add \/ Execute \/ ExecuteFails \/ Tick
  <2>1. TypeOK'
    BY <1>1, <1>4, ServerTypes
  <2>2. Listing'
    BY <1>4, ReadClockInv, AddInv, ExecuteInv, ExecuteFailsInv, TickInv
  <2>3. QED
    BY <2>1, <2>2 DEF IInv, Listing
<1>5. ASSUME NEW p \in Paths, NEW time \in Times, AddOther(p, time) PROVE TypeOK' /\ Listing'
  BY <1>1, <1>5, ServerTypes, AddOtherInv
<1>6. CASE WatcherNext \/ Stop
  <2>1. TypeOK'
    BY <1>1, <1>6, WatcherTypes
  <2>2. Listing'
    BY <1>6, WatcherMoves, TakeInv, IgnoreInv, AcceptInv DEF WatcherNext, WatcherStep
  <2>3. QED
    BY <2>1, <2>2 DEF IInv, Listing
<1>7. CASE UNCHANGED vars
  <2>1. /\ UNCHANGED <<tree, edits, ops, clock, op, others, items>>
        /\ UNCHANGED <<watching, events, event, watcher, fingerprint, quit, unseen, missed>>
    BY <1>7 DEF vars, serverVars, watcherVars, historyVars
  <2>2. TypeOK'
    BY <1>1, <2>1 DEF TypeOK
  <2>3. ListInv'
    BY <2>1, SameList DEF IInv
  <2>4. EventsExpected' /\ Unwatched' /\ NoEcho'
    BY <2>1, EventsStay DEF IInv, Listing, HasItem
  <2>5. QED
    BY <2>2, <2>3, <2>4 DEF IInv
<1>8. QED
  BY <1>2, <1>3, <1>4, <1>5, <1>6, <1>7 DEF Next, IInv, Listing

(* The invariant holds in every state. *)
THEOREM Invariance == Spec => []IInv
<1>1. Init => IInv
  BY InitInv
<1>2. IInv /\ [Next]_vars => IInv'
  BY NextInv
<1>3. QED
  BY <1>1, <1>2, PTL DEF Spec

(* The variables keep their types. *)
THEOREM TypeCorrect == Spec => []TypeOK
<1>1. IInv => TypeOK
  BY DEF IInv
<1>2. QED
  BY Invariance, <1>1, PTL

(* No change a worker makes for the client is taken for one made on the server, although the *)
(* list of ignored paths is searched by times that are not sorted: std::lower_bound in *)
(* TemporalIgnores::check never drops an item a command still needs. *)
THEOREM ClientsHearNoEcho == Spec => []NoEcho
<1>1. IInv => NoEcho
  BY DEF IInv
<1>2. QED
  BY Invariance, <1>1, PTL

(* A check forgets what was listed more than a second, and a skew, ago: a change made on the *)
(* server is not ignored longer for the sake of an old command. *)
THEOREM ItemsForgotten == Spec => ForgottenInTime
<1> DEFINE Forgets == items' # items /\ watcher = "check" /\ watcher' # "check" =>
                        \A i \in DOMAIN items' : items'[i].time >= clock - Duration - Skew
<1>1. IInv /\ [Next]_vars => [Forgets]_vars
  <2> SUFFICES ASSUME IInv, Next, items' # items, watcher = "check", watcher' # "check",
                      NEW i \in DOMAIN items'
               PROVE  items'[i].time >= clock - Duration - Skew
    OBVIOUS
  <2>1. items' = Kept
    <3>1. ~(Ignore \/ Accept) => items' = items \/ watcher' = watcher
      BY DEF Next, WatcherNext, WatcherStep, Edit, Begin, ReadClock, Add, AddOther, Execute,
             ExecuteFails, Tick, Initialize, Watch, WatchFails, Take, Stabilize,
             StabilizeThrows, Notify, Break, Stop, serverVars, watcherVars
    <3>2. QED
      BY <3>1 DEF Ignore, Accept
  <2>2. QED
    BY <2>1, KeptSorted DEF IInv, ListInv
<1>2. QED
  BY Invariance, <1>1, PTL DEF Spec, ForgottenInTime
=============================================================================
