---------------------------- MODULE FileIOProofs ----------------------------
(***************************************************************************)
(* Proofs about FileIO, for any calls, any size of the file and of the     *)
(* fragments, and whatever fails: a write returns the number of units that *)
(* it put in the file, and a call on a whole range behaves as one          *)
(* operation (WholeRangeIO), although its fragments are executed in any    *)
(* order and those of failed calls late.                                   *)
(*                                                                         *)
(* The argument is about places.  What a call touches is its own as long   *)
(* as it lasts (Apart, Touching), and what is left of failed calls changes *)
(* only places that are unknown anyway (LateUnknown, LateApart).  So an    *)
(* answer that is not taken yet is still right when it is taken            *)
(* (ReadsAreRight, WritesAreRight), and the units of a call that nobody    *)
(* writes over can be counted (OwnUnits, OwnCounts).                       *)
(***************************************************************************)
EXTENDS FileIO, FiniteSetTheorems, FunctionTheorems, SequenceTheorems, TLAPS

-----------------------------------------------------------------------------
\* The size of fragment i of a call of so many units.
Part(len, i) == Min({len - Offset(i), Fragment})

IOOps == {"read", "write", "append"}
CallRecord ==
    [state : {"idle", "busy", "done"}, op : IOOps \cup {"none"}, start : Nat \ {0}, len : Nat,
     touched : SUBSET Cells, sure : SUBSET Cells, next : Nat \ {0}, got : Seq(Units), count : Nat]
AnswerRecord == [frag : Calls \X (Nat \ {0}), res : Int, data : Seq(Units)]

-----------------------------------------------------------------------------
\* The file, and what is unsure of it.
FileTyped == file \in Seq(Units) /\ unsure \subseteq Cells /\ faults \in 0..MaxFaults

\* A call is within the file; one that is not busy has nothing.
CallsTyped ==
    /\ call \in [Calls -> CallRecord]
    /\ \A c \in Calls :
        /\ call[c].state = "idle" => call[c] = NoCall
        /\ call[c].op = "none" => ~Busy(c) /\ call[c].len = 0 /\ call[c].start = 1
        /\ call[c].op # "none" => call[c].len >= 1 /\ call[c].start + call[c].len - 1 <= Size
        /\ ~Busy(c) => call[c].touched = {} /\ call[c].sure = {} /\ call[c].next = 1
                       /\ call[c].got = <<>> /\ call[c].count = 0
        /\ Busy(c) => call[c].next \in Fragments(call[c].len)

\* A fragment is of a call, and not behind those that its call has answers of.
PendingTyped ==
    \A f \in pending :
        /\ f \in Calls \X (Nat \ {0})
        /\ call[f[1]].op # "none"
        /\ f[2] \in Fragments(call[f[1]].len)
        /\ Busy(f[1]) => f[2] >= call[f[1]].next

\* An answer is of a call that is busy and still has to take it, and the only one of its
\* fragment.
AnswersTyped ==
    /\ \A a \in answers :
        /\ a \in AnswerRecord
        /\ Busy(a.frag[1])
        /\ a.frag[2] \in Fragments(call[a.frag[1]].len)
        /\ a.frag[2] >= call[a.frag[1]].next
        /\ a.frag \notin pending
        /\ a.res \in -1..Part(call[a.frag[1]].len, a.frag[2])
        /\ a.res >= 0 => Len(a.data) = IF call[a.frag[1]].op = "read" THEN a.res ELSE 0
    /\ \A a, b \in answers : a.frag = b.frag => a = b

\* What a call has so far.
SoFar ==
    \A c \in Calls : Busy(c) =>
        /\ call[c].count <= Offset(call[c].next)
        /\ Len(call[c].got) = IF call[c].op = "read" THEN call[c].count ELSE 0

\* There is room for what is pending.
Capacity ==
    /\ Len(file) + Cardinality(Unappended) <= Size
    /\ \A f \in pending : call[f[1]].op # "append" =>
        \A k \in Target(f) : k + Cardinality(Unappended) <= Size

Typed == FileTyped /\ CallsTyped /\ PendingTyped /\ AnswersTyped /\ SoFar /\ Capacity

-----------------------------------------------------------------------------
\* Calls that are under way at once do not touch the same place, but for two reads.
Apart ==
    \A c, d \in Calls : c # d /\ Busy(c) /\ Busy(d) =>
        \/ call[c].op = "read" /\ call[d].op = "read"
        \/ "read" \in {call[c].op, call[d].op} /\ call[c].touched \cap call[d].touched = {}

\* What a call touches: its place, and the gap before it.
Touching ==
    \A c \in Calls : Busy(c) =>
        /\ Place(call[c]) \subseteq call[c].touched
        /\ call[c].sure \subseteq call[c].touched
        /\ call[c].op = "read" => call[c].touched = Place(call[c]) /\ call[c].sure = {}
        /\ call[c].op = "write" =>
            /\ \A k \in call[c].touched : k < call[c].start + call[c].len
            /\ \A k \in Cells : Len(file) < k /\ k < call[c].start => k \in call[c].touched
        /\ call[c].op = "append" =>
            /\ call[c].touched = {k \in Cells : k >= call[c].start}
            /\ call[c].sure \in {call[c].touched, {}}
            /\ call[c].start <= Len(file) + 1

\* What is left of failed calls changes only what is unknown, and nothing that a call is
\* sure of.
LateUnknown == Late \subseteq Unknown
LateApart == \A c \in Calls : Busy(c) /\ call[c].op # "read" => call[c].sure \cap Late = {}

-----------------------------------------------------------------------------
\* s is what a read got that was to read n units from place p on: each known unit of call x,
\* and nothing from a known end on.
IsRead(x, cells, s, p, n) ==
    /\ Len(s) <= n
    /\ \A k \in Place(x) :
        /\ cells[k] = <<"end of file">> => Len(s) = 0 \/ p + Len(s) - 1 < k
        /\ cells[k] \in Units =>
            /\ k >= p + n - 1 => Len(s) = n
            /\ p <= k /\ k <= p + n - 1 => k - p + 1 <= Len(s) /\ s[k - p + 1] = cells[k]

\* A read is right so far, and so are the answers it has not taken.
ReadsAreRight ==
    \A c \in Calls : Busy(c) /\ call[c].op = "read" =>
        /\ IsRead(call[c], Known, call[c].got, call[c].start, Offset(call[c].next))
        /\ \A a \in answers : a.frag[1] = c /\ a.res >= 0 =>
            IsRead(call[c], Known, a.data, call[c].start + Offset(a.frag[2]),
                   Part(call[c].len, a.frag[2]))

\* A write of n units at place p that wrote r is there if it wrote all.
IsWritten(c, p, n, r) ==
    n >= 1 /\ r = n =>
        /\ Len(file) >= p + n - 1
        /\ \A k \in call[c].sure :
            p <= k /\ k <= p + n - 1 => file[k] = Unit(c, k - call[c].start + 1)

\* So is a write, and what it passed over is zero.
WritesAreRight ==
    \A c \in Calls : Busy(c) /\ call[c].op = "write" =>
        /\ \A k \in call[c].sure : k < call[c].start /\ k <= Len(file) => file[k] = Zero
        /\ IsWritten(c, call[c].start, Offset(call[c].next), call[c].count)
        /\ \A a \in answers : a.frag[1] = c =>
            IsWritten(c, call[c].start + Offset(a.frag[2]), Part(call[c].len, a.frag[2]), a.res)

-----------------------------------------------------------------------------
\* Only calls that began have written.
Fresh == \A k \in DOMAIN file : file[k][1] \in Calls => call[file[k][1]].state # "idle"

\* The places with one of the units i+1 to j of call c.
PlacesOf(c, i, j) == {k \in DOMAIN file : file[k][1] = c /\ i < file[k][2] /\ file[k][2] <= j}

\* A call whose places nobody else may write.
Certain(c) == Busy(c) /\ call[c].op # "read" /\ call[c].sure = call[c].touched

\* Where the units of a call are, each once.
OwnUnitsOf(c) ==
    /\ \A k \in DOMAIN file : file[k][1] = c =>
        /\ file[k][2] \in 1..call[c].len
        /\ call[c].op = "write" => k = call[c].start + file[k][2] - 1
        /\ call[c].op = "append" => k >= call[c].start
    /\ \A k, l \in DOMAIN file : file[k] = file[l] /\ file[k][1] = c => k = l
    /\ call[c].op = "append" =>
        \A k \in DOMAIN file : k >= call[c].start => file[k][1] = c

OwnUnits == \A c \in Calls : Certain(c) => OwnUnitsOf(c)

\* They are as many as the answers say.
OwnCountsOf(c) ==
    /\ call[c].count = Cardinality(PlacesOf(c, 0, Offset(call[c].next)))
    /\ \A f \in pending : f[1] = c =>
        PlacesOf(c, Offset(f[2]), Offset(f[2]) + Part(call[c].len, f[2])) = {}
    /\ \A a \in answers : a.frag[1] = c /\ a.res >= 0 =>
        a.res = Cardinality(PlacesOf(c, Offset(a.frag[2]),
                                     Offset(a.frag[2]) + Part(call[c].len, a.frag[2])))

OwnCounts == \A c \in Calls : Certain(c) => OwnCountsOf(c)

\* The inductive invariant.
IInv ==
    /\ Typed /\ Apart /\ Touching /\ LateUnknown /\ LateApart
    /\ ReadsAreRight /\ WritesAreRight /\ Fresh /\ OwnUnits /\ OwnCounts

-----------------------------------------------------------------------------
(* Fragments. *)

(* A product grows with a factor. *)
LEMMA ProductGrows ==
    ASSUME NEW a \in Nat, NEW b \in Nat, NEW f \in Nat, a <= b
    PROVE  a * f <= b * f
<1>1. PICK d \in Nat : b = a + d
  <2>1. b - a \in Nat /\ b = a + (b - a)
    OBVIOUS
  <2>2. QED
    BY <2>1
<1>2. b * f = a * f + d * f
  BY <1>1
<1>3. d * f \in Nat /\ a * f \in Nat
  BY <1>1
<1>4. QED
  BY <1>2, <1>3

(* What rounding down loses. *)
LEMMA DivisionFacts ==
    ASSUME NEW n \in Nat, NEW f \in Nat \ {0}
    PROVE  /\ n \div f \in Nat
           /\ (n \div f) * f <= n
           /\ n < (n \div f) * f + f
OBVIOUS

(* The least of two numbers. *)
LEMMA MinIs ==
    ASSUME NEW a \in Int, NEW b \in Int
    PROVE  Min({a, b}) = IF a <= b THEN a ELSE b
<1>1. \E x \in {a, b} : \A y \in {a, b} : x <= y
  OBVIOUS
<1>2. Min({a, b}) \in {a, b} /\ \A y \in {a, b} : Min({a, b}) <= y
  BY <1>1 DEF Min
<1>3. QED
  BY <1>2

(* The ends of an interval. *)
LEMMA EndsOfInterval ==
    ASSUME NEW a \in Int, NEW b \in Int, a <= b
    PROVE  Min(a..b) = a /\ Max(a..b) = b
<1>1. a \in a..b /\ b \in a..b /\ \A y \in a..b : a <= y /\ b >= y
  OBVIOUS
<1>2. Min(a..b) \in a..b /\ \A y \in a..b : Min(a..b) <= y
  BY <1>1 DEF Min
<1>3. Max(a..b) \in a..b /\ \A y \in a..b : Max(a..b) >= y
  BY <1>1 DEF Max
<1>4. QED
  BY <1>1, <1>2, <1>3

(* The fragments of a call are those that begin before its end. *)
LEMMA FragmentFacts ==
    ASSUME NEW len \in Nat \ {0}
    PROVE  /\ \E n \in 1..len : Fragments(len) = 1..n /\ Max(Fragments(len)) = n
           /\ \A i \in Nat \ {0} : i \in Fragments(len) <=> Offset(i) < len
<1>0. Fragment \in Nat \ {0}
  BY ConstantsAssumption
<1> DEFINE m == len + Fragment - 1
           n == m \div Fragment
<1>1. m \in Nat /\ m = len + Fragment - 1
  BY <1>0
<1> HIDE DEF m
<1>2. n \in Nat /\ n * Fragment <= m /\ m < n * Fragment + Fragment
  BY <1>0, <1>1, DivisionFacts
<1>3. Fragments(len) = 1..n
  BY DEF Fragments, m
<1> HIDE DEF n
<1>4. n >= 1
  <2>1. n = 0 => n * Fragment = 0
    BY <1>0
  <2>2. QED
    BY <2>1, <1>0, <1>1, <1>2
<1>5. \A i \in Nat \ {0} : Offset(i) \in Nat
  BY <1>0 DEF Offset
<1>6. ASSUME NEW i \in Nat \ {0}
      PROVE i \in 1..n <=> Offset(i) < len
  <2>1. CASE i <= n
    <3>1. i * Fragment <= n * Fragment
      BY <2>1, <1>0, <1>2, ProductGrows
    <3>2. Offset(i) = i * Fragment - Fragment
      BY <1>0 DEF Offset
    <3>3. i * Fragment \in Nat /\ n * Fragment \in Nat
      BY <1>0, <1>2
    <3>4. QED
      BY <3>1, <3>2, <3>3, <2>1, <1>0, <1>1, <1>2
  <2>2. CASE n < i
    <3>1. n * Fragment <= (i - 1) * Fragment
      <4>1. n <= i - 1 /\ i - 1 \in Nat
        BY <2>2, <1>2
      <4>2. QED
        BY <4>1, <1>0, <1>2, ProductGrows
    <3>2. (i - 1) * Fragment \in Nat /\ n * Fragment \in Nat
      BY <1>0, <1>2
    <3>3. ~(Offset(i) < len)
      BY <3>1, <3>2, <1>0, <1>1, <1>2 DEF Offset
    <3>4. QED
      BY <3>3, <2>2, <1>2
  <2>3. QED
    BY <2>1, <2>2, <1>2
<1>7. n <= len
  <2>1. n \in Nat \ {0} /\ n \in 1..n
    BY <1>2, <1>4
  <2>2. Offset(n) < len
    BY <2>1, <1>6
  <2>3. n - 1 <= Offset(n)
    <3>1. (n - 1) \in Nat /\ 1 <= Fragment /\ Fragment \in Nat
      BY <2>1, <1>0
    <3>2. 1 * (n - 1) <= Fragment * (n - 1)
      BY <3>1, ProductGrows
    <3>3. Fragment * (n - 1) = (n - 1) * Fragment /\ (n - 1) * Fragment \in Nat
      BY <3>1
    <3>4. QED
      BY <3>1, <3>2, <3>3 DEF Offset
  <2>4. QED
    BY <2>1, <2>2, <2>3, <1>5
<1>8. Max(Fragments(len)) = n
  BY <1>3, <1>4, <1>2, EndsOfInterval
<1>9. QED
  BY <1>2, <1>3, <1>4, <1>6, <1>7, <1>8

(* Fragments follow each other. *)
LEMMA OffsetFacts ==
    /\ Offset(1) = 0
    /\ \A i \in Nat \ {0} : Offset(i) \in Nat /\ Offset(i + 1) = Offset(i) + Fragment
    /\ \A i, j \in Nat \ {0} : i < j => Offset(i) + Fragment <= Offset(j)
<1>0. Fragment \in Nat \ {0}
  BY ConstantsAssumption
<1>1. Offset(1) = 0
  BY <1>0 DEF Offset
<1>2. ASSUME NEW i \in Nat \ {0} PROVE Offset(i) \in Nat /\ Offset(i + 1) = Offset(i) + Fragment
  <2>1. i - 1 \in Nat /\ (i - 1) * Fragment \in Nat
    BY <1>0
  <2>2. ((i + 1) - 1) * Fragment = (i - 1) * Fragment + Fragment
    BY <1>0
  <2>3. QED
    BY <2>1, <2>2 DEF Offset
<1>3. ASSUME NEW i \in Nat \ {0}, NEW j \in Nat \ {0}, i < j
      PROVE  Offset(i) + Fragment <= Offset(j)
  <2>1. Offset(i) + Fragment = i * Fragment
    BY <1>0 DEF Offset
  <2>2. i <= j - 1 /\ j - 1 \in Nat
    BY <1>3
  <2>3. i * Fragment <= (j - 1) * Fragment
    BY <2>2, <1>0, ProductGrows
  <2>4. QED
    BY <2>1, <2>3 DEF Offset
<1>4. QED
  BY <1>1, <1>2, <1>3

(* Each fragment begins where the one before it ends, and the last ends with the call. *)
LEMMA PartFacts ==
    ASSUME NEW len \in Nat \ {0}, NEW i \in Fragments(len)
    PROVE  /\ i \in Nat \ {0} /\ i <= len
           /\ Offset(i) \in Nat
           /\ Part(len, i) \in 1..Fragment
           /\ Offset(i) + Part(len, i) <= len
           /\ i + 1 \in Fragments(len) => Offset(i + 1) = Offset(i) + Part(len, i)
           /\ i + 1 \notin Fragments(len) =>
                /\ i = Max(Fragments(len))
                /\ Offset(i) + Part(len, i) = len
           /\ i + 1 > Max(Fragments(len)) <=> i + 1 \notin Fragments(len)
           /\ \A j \in Fragments(len) : i < j => Offset(i) + Part(len, i) <= Offset(j)
<1>0. Fragment \in Nat \ {0}
  BY ConstantsAssumption
<1>1. PICK n \in 1..len : Fragments(len) = 1..n /\ Max(Fragments(len)) = n
  BY FragmentFacts
<1>2. i \in Nat \ {0} /\ i <= n /\ n \in Nat /\ i + 1 \in Nat \ {0}
  BY <1>1
<1>3. Offset(i) \in Nat /\ Offset(i) < len /\ Offset(i + 1) = Offset(i) + Fragment
  BY <1>2, FragmentFacts, OffsetFacts
<1>4. Part(len, i) = IF len - Offset(i) <= Fragment THEN len - Offset(i) ELSE Fragment
  <2>1. len - Offset(i) \in Int /\ Fragment \in Int
    BY <1>0, <1>3
  <2>2. QED
    BY <2>1, MinIs DEF Part
<1>5. i + 1 \in Fragments(len) <=> Offset(i) + Fragment < len
  BY <1>2, <1>3, FragmentFacts
<1>6. Part(len, i) \in 1..Fragment /\ Offset(i) + Part(len, i) <= len
  BY <1>0, <1>3, <1>4
<1>7. ASSUME NEW j \in Fragments(len), i < j PROVE Offset(i) + Part(len, i) <= Offset(j)
  <2>1. j \in Nat \ {0}
    BY <1>1
  <2>2. Offset(i) + Fragment <= Offset(j) /\ Offset(j) \in Nat
    BY <2>1, <1>2, <1>7, OffsetFacts
  <2>3. QED
    BY <2>2, <1>0, <1>3, <1>6
<1>8. i + 1 \notin Fragments(len) => i = n
  BY <1>1, <1>2
<1>9. i + 1 > n <=> i + 1 \notin Fragments(len)
  BY <1>1, <1>2
<1>10. i + 1 \in Fragments(len) => Offset(i + 1) = Offset(i) + Part(len, i)
  BY <1>0, <1>3, <1>4, <1>5
<1>11. i + 1 \notin Fragments(len) => Offset(i) + Part(len, i) = len
  BY <1>0, <1>3, <1>4, <1>5
<1>12. QED
  BY <1>1, <1>2, <1>3, <1>6, <1>7, <1>8, <1>9, <1>10, <1>11

-----------------------------------------------------------------------------
(* Contents and cells. *)

(* What the constants are. *)
LEMMA SizeFacts ==
    /\ Size \in Nat \ {0} /\ Fragment \in Nat \ {0} /\ MaxFaults \in Nat
    /\ Calls \subseteq Nat \ {0} /\ IsFiniteSet(Calls) /\ 0 \notin Calls
    /\ Cells = 1..Size /\ Cells \subseteq Nat \ {0}
    /\ IsFiniteSet(Cells) /\ Cardinality(Cells) = Size
<1>1. Size \in Nat \ {0} /\ Fragment \in Nat \ {0} /\ MaxFaults \in Nat
      /\ Calls \subseteq Nat \ {0} /\ IsFiniteSet(Calls)
  BY ConstantsAssumption
<1>2. IsFiniteSet(1..Size) /\ Cardinality(1..Size) = Size
  BY <1>1, FS_Interval
<1>3. QED
  BY <1>1, <1>2 DEF Cells

(* Contents are the sequences of units that are not too long. *)
LEMMA ContentsIs ==
    ASSUME NEW s
    PROVE  s \in Contents <=> s \in Seq(Units) /\ Len(s) <= Size
<1>1. Size \in Nat
  BY SizeFacts
<1>2. ASSUME s \in Contents PROVE s \in Seq(Units) /\ Len(s) <= Size
  <2>1. PICK n \in 0..Size : s \in [1..n -> Units]
    BY <1>2 DEF Contents
  <2>2. n \in Nat /\ s \in Seq(Units)
    BY <2>1, <1>1, SeqDef
  <2>3. Len(s) = n
    BY <2>1, <2>2, LenProperties
  <2>4. QED
    BY <2>1, <2>2, <2>3, <1>1
<1>3. ASSUME s \in Seq(Units), Len(s) <= Size PROVE s \in Contents
  <2>1. Len(s) \in 0..Size /\ s \in [1..Len(s) -> Units]
    BY <1>1, <1>3, LenProperties
  <2>2. QED
    BY <2>1 DEF Contents
<1>4. QED
  BY <1>2, <1>3

(* Units are pairs, and neither the end of the file nor an unknown place. *)
LEMMA UnitFacts ==
    /\ \A u \in Units : u = <<u[1], u[2]>> /\ u[1] \in Nat /\ u[2] \in Nat
    /\ \A c \in Calls : \A j \in 0..Size : Unit(c, j) \in Units
    /\ \A c, j : Unit(c, j)[1] = c /\ Unit(c, j)[2] = j
    /\ Zero \in Units /\ Zero[1] = 0
    /\ \A k \in Cells : Unit(0, k) \in Units
    /\ <<"end of file">> # <<"unsure">>
    /\ \A u \in Units : u # <<"end of file">> /\ u # <<"unsure">>
<1>1. \A u \in Units : u = <<u[1], u[2]>> /\ u[1] \in Nat /\ u[2] \in Nat
  <2>1. \A u \in Units : u = <<u[1], u[2]>> /\ u[1] \in Calls \cup {0} /\ u[2] \in 0..Size
    BY DEF Units
  <2>2. \A x \in Calls \cup {0} : x \in Nat
    BY SizeFacts
  <2>3. \A x \in 0..Size : x \in Nat
    BY SizeFacts
  <2>4. QED
    BY <2>1, <2>2, <2>3
<1>2. (\A c \in Calls : \A j \in 0..Size : Unit(c, j) \in Units)
      /\ (\A c, j : Unit(c, j)[1] = c /\ Unit(c, j)[2] = j)
  BY DEF Unit, Units
<1>3. Zero \in Units /\ Zero[1] = 0
  BY SizeFacts DEF Zero, Units
<1>4. \A k \in Cells : Unit(0, k) \in Units
  BY SizeFacts DEF Unit, Units
<1>5. <<"end of file">> # <<"unsure">>
  <2>1. <<"end of file">>[1] # <<"unsure">>[1]
    OBVIOUS
  <2>2. QED
    BY <2>1
<1>6. ASSUME NEW u \in Units PROVE u # <<"end of file">> /\ u # <<"unsure">>
  <2>1. DOMAIN u = {1, 2}
    BY DEF Units
  <2>2. DOMAIN <<"end of file">> = {1} /\ DOMAIN <<"unsure">> = {1}
    OBVIOUS
  <2>3. 2 \in {1, 2} /\ 2 \notin {1}
    OBVIOUS
  <2>4. DOMAIN u # DOMAIN <<"end of file">> /\ DOMAIN u # DOMAIN <<"unsure">>
    BY ONLY <2>1, <2>2, <2>3, Zenon
  <2>5. QED
    BY ONLY <2>4, Zenon
<1>7. QED
  BY <1>1, <1>2, <1>3, <1>4, <1>5, <1>6

(* The largest of an interval and a number. *)
LEMMA MaxWith ==
    ASSUME NEW m \in Int, NEW a \in Int, NEW b \in Int, a <= b
    PROVE  Max({m} \cup a..b) = IF m <= b THEN b ELSE m
<1> DEFINE S == {m} \cup a..b
           r == IF m <= b THEN b ELSE m
<1>1. r \in S /\ \A y \in S : r >= y /\ y \in Int
  OBVIOUS
<1>2. Max(S) \in S /\ \A y \in S : Max(S) >= y
  BY <1>1 DEF Max
<1> HIDE DEF S
<1>3. Max(S) \in Int /\ r \in Int /\ Max(S) >= r /\ r >= Max(S)
  BY <1>1, <1>2
<1> HIDE DEF r
<1>4. QED
  BY <1>3 DEF S, r

(* What is written at a place: the content before and behind it stays, and a gap is zero. *)
LEMMA OverlayIs ==
    ASSUME FileTyped, NEW c \in Calls, NEW o \in Nat, NEW s \in Nat \ {0}, NEW n \in Nat \ {0},
           o + n <= Size
    PROVE  LET g == Overlay(c, o, s .. (s + n - 1))
               e == s + n - 1
           IN  /\ g \in Seq(Units)
               /\ Len(g) = IF Len(file) <= e THEN e ELSE Len(file)
               /\ \A k \in 1..Len(g) : g[k] = IF s <= k /\ k <= e THEN Unit(c, o + k - s + 1)
                                              ELSE IF k <= Len(file) THEN file[k] ELSE Zero
<1> DEFINE g == Overlay(c, o, s .. (s + n - 1))
           e == s + n - 1
           m == IF Len(file) <= e THEN e ELSE Len(file)
<1>1. Len(file) \in Nat /\ e \in Nat /\ s <= e /\ m \in Nat /\ e = s + n - 1
      /\ \A k \in 1..Len(file) : file[k] \in Units
  BY DEF FileTyped
<1>2. Max({Len(file)} \cup s..e) = m /\ Min(s..e) = s
  <2>1. Len(file) \in Int /\ s \in Int /\ e \in Int /\ s <= e
    BY <1>1
  <2> HIDE DEF e
  <2>2. Max({Len(file)} \cup s..e) = IF Len(file) <= e THEN e ELSE Len(file)
    BY <2>1, MaxWith
  <2>3. Min(s..e) = s
    BY <2>1, EndsOfInterval
  <2>4. QED
    BY <2>2, <2>3
<1> DEFINE v(k) == IF s <= k /\ k <= e THEN Unit(c, o + k - s + 1)
                   ELSE IF k <= Len(file) THEN file[k] ELSE Zero
<1>3. g = [k \in 1..m |-> v(k)]
  BY <1>1, <1>2 DEF Overlay
<1> HIDE DEF e, m, g
<1>4. ASSUME NEW k \in 1..m PROVE v(k) \in Units
  <2>1. CASE s <= k /\ k <= e
    <3>1. o + k - s + 1 \in 0..Size
      BY <2>1, <1>1, SizeFacts
    <3>2. QED
      BY <2>1, <3>1, UnitFacts
  <2>2. CASE ~(s <= k /\ k <= e)
    <3>1. k \in Nat /\ k >= 1
      BY <1>1
    <3>2. k <= Len(file) => file[k] \in Units
      BY <3>1, <1>1
    <3>3. v(k) = IF k <= Len(file) THEN file[k] ELSE Zero
      BY <2>2
    <3> HIDE DEF v
    <3>4. QED
      BY <3>2, <3>3, UnitFacts
  <2>3. QED
    BY <2>1, <2>2
<1>5. g \in Seq(Units) /\ Len(g) = m
  BY <1>1, <1>3, <1>4, SeqDef, IsASeq
<1>6. QED
  BY <1>3, <1>5 DEF e, m, g

-----------------------------------------------------------------------------
(* The fragments of a state. *)

\* The first unit of the file that fragment f is about.
First(f) == IF call[f[1]].op = "append" THEN Len(file) + 1 ELSE call[f[1]].start + Offset(f[2])
Share(f) == Part(call[f[1]].len, f[2])

(* What is known of the parameters of a call. *)
LEMMA CallFacts ==
    ASSUME CallsTyped, NEW c \in Calls
    PROVE  /\ call[c] \in CallRecord
           /\ call[c].op # "none" =>
                /\ call[c].op \in IOOps
                /\ call[c].len \in Nat \ {0}
                /\ call[c].start \in Nat \ {0}
                /\ call[c].start + call[c].len - 1 <= Size
                /\ call[c].len <= Size
           /\ Busy(c) => call[c].op # "none" /\ call[c].next \in Fragments(call[c].len)
<1>1. call[c] \in CallRecord
  BY DEF CallsTyped
<1>2. call[c].op \in IOOps \cup {"none"} /\ call[c].len \in Nat /\ call[c].start \in Nat \ {0}
  BY <1>1 DEF CallRecord
<1>3. Busy(c) => call[c].op # "none" /\ call[c].next \in Fragments(call[c].len)
  BY DEF CallsTyped
<1>4. call[c].op # "none" => call[c].len >= 1 /\ call[c].start + call[c].len - 1 <= Size
  BY DEF CallsTyped
<1>5. QED
  BY <1>1, <1>2, <1>3, <1>4, SizeFacts

(* What is known of a pending fragment, and of its place. *)
LEMMA FragmentOf ==
    ASSUME FileTyped, CallsTyped, PendingTyped, NEW f \in pending
    PROVE  /\ f = <<f[1], f[2]>> /\ f[1] \in Calls /\ f[2] \in Nat \ {0}
           /\ f[2] \in Cells /\ f[2] \in Fragments(call[f[1]].len)
           /\ call[f[1]].op \in IOOps
           /\ Share(f) \in Nat \ {0} /\ BlockSize(f[1], f[2]) = Share(f) /\ Share(f) <= Size
           /\ Offset(f[2]) \in Nat /\ Offset(f[2]) + Share(f) <= call[f[1]].len
           /\ First(f) \in Nat \ {0}
           /\ Target(f) = First(f) .. (First(f) + Share(f) - 1)
           /\ Min(Target(f)) = First(f) /\ Max(Target(f)) = First(f) + Share(f) - 1
<1>1. f \in Calls \X (Nat \ {0}) /\ f[2] \in Fragments(call[f[1]].len) /\ call[f[1]].op # "none"
  BY DEF PendingTyped
<1>2. f = <<f[1], f[2]>> /\ f[1] \in Calls /\ f[2] \in Nat \ {0}
  BY <1>1
<1>3. /\ call[f[1]].op \in IOOps
      /\ call[f[1]].len \in Nat \ {0}
      /\ call[f[1]].start \in Nat \ {0}
      /\ call[f[1]].len <= Size
  BY <1>1, <1>2, CallFacts
<1>4. /\ f[2] <= call[f[1]].len
      /\ Offset(f[2]) \in Nat
      /\ Share(f) \in 1..Fragment
      /\ Offset(f[2]) + Share(f) <= call[f[1]].len
  BY <1>1, <1>3, PartFacts DEF Share
<1>5. BlockSize(f[1], f[2]) = Share(f)
  BY DEF BlockSize, Share, Part
<1>6. Len(file) \in Nat
  BY DEF FileTyped
<1>7. First(f) \in Nat \ {0}
  BY <1>3, <1>4, <1>6 DEF First
<1>8. Share(f) \in Nat \ {0} /\ Share(f) <= Size
  BY <1>3, <1>4, SizeFacts
<1>9. Target(f) = First(f) .. (First(f) + Share(f) - 1)
  BY <1>5 DEF Target, First
<1>10. Min(Target(f)) = First(f) /\ Max(Target(f)) = First(f) + Share(f) - 1
  <2>1. First(f) \in Int /\ First(f) + Share(f) - 1 \in Int /\ First(f) <= First(f) + Share(f) - 1
    BY <1>7, <1>8
  <2>2. QED
    BY <2>1, <1>9, EndsOfInterval
<1>11. f[2] \in Cells
  BY <1>2, <1>3, <1>4, SizeFacts
<1>12. QED
  BY <1>1, <1>2, <1>3, <1>4, <1>5, <1>7, <1>8, <1>9, <1>10, <1>11

\* The units of fragment f that are still to come.
UnitsLeft(f) == {<<f, k>> : k \in 1..Share(f)}

(* A fragment has as many units left as it is long. *)
LEMMA NumberLeft ==
    ASSUME NEW f, Share(f) \in Nat
    PROVE  IsFiniteSet(UnitsLeft(f)) /\ Cardinality(UnitsLeft(f)) = Share(f)
<1> DEFINE n == Share(f)
           g == [k \in 1..n |-> <<f, k>>]
<1>1. IsFiniteSet(1..n) /\ Cardinality(1..n) = n
  BY FS_Interval
<1>2. g \in Bijection(1..n, UnitsLeft(f))
  <2>1. g \in [1..n -> UnitsLeft(f)]
    BY DEF UnitsLeft
  <2>2. ASSUME NEW i \in 1..n, NEW j \in 1..n, g[i] = g[j] PROVE i = j
    BY <2>2
  <2>3. ASSUME NEW u \in UnitsLeft(f) PROVE \E k \in 1..n : g[k] = u
    BY DEF UnitsLeft
  <2>4. QED
    BY <2>1, <2>2, <2>3, Fun_IsBij
<1>3. QED
  BY <1>1, <1>2, FS_Bijection DEF ExistsBijection

(* The units that are still to be appended are those of the pending appends. *)
LEMMA UnappendedFacts ==
    ASSUME FileTyped, CallsTyped, PendingTyped
    PROVE  /\ IsFiniteSet(Unappended) /\ Cardinality(Unappended) \in Nat
           /\ \A f \in pending : call[f[1]].op = "append" =>
                /\ UnitsLeft(f) \subseteq Unappended
                /\ Share(f) <= Cardinality(Unappended)
           /\ \A u \in Unappended : u[1] \in pending /\ call[u[1][1]].op = "append"
                                    /\ u \in UnitsLeft(u[1])
<1>1. IsFiniteSet(pending \X Cells)
  <2>1. pending \subseteq Calls \X Cells
    <3>1. ASSUME NEW f \in pending PROVE f \in Calls \X Cells
      BY FragmentOf
    <3>2. QED
      BY <3>1
  <2>2. IsFiniteSet(Calls \X Cells)
    BY SizeFacts, FS_Product
  <2>3. IsFiniteSet(pending)
    BY <2>1, <2>2, FS_Subset
  <2>4. QED
    BY <2>3, SizeFacts, FS_Product
<1>2. Unappended \subseteq pending \X Cells
  BY DEF Unappended
<1>3. IsFiniteSet(Unappended)
  BY <1>1, <1>2, FS_Subset
<1>4. Cardinality(Unappended) \in Nat
  BY <1>3, FS_CardinalityType
<1>5. ASSUME NEW f \in pending, call[f[1]].op = "append"
      PROVE  UnitsLeft(f) \subseteq Unappended /\ Share(f) <= Cardinality(Unappended)
  <2>1. Share(f) \in Nat \ {0} /\ BlockSize(f[1], f[2]) = Share(f) /\ Share(f) <= Size
    BY FragmentOf
  <2>2. ASSUME NEW u \in UnitsLeft(f) PROVE u \in Unappended
    <3>1. PICK k \in 1..Share(f) : u = <<f, k>>
      BY DEF UnitsLeft
    <3>2. k \in Cells
      BY <2>1, SizeFacts
    <3>3. QED
      BY <3>1, <3>2, <2>1, <1>5 DEF Unappended
  <2>3. UnitsLeft(f) \subseteq Unappended
    BY <2>2
  <2>4. Cardinality(UnitsLeft(f)) <= Cardinality(Unappended)
    BY <2>3, <1>3, FS_Subset
  <2>5. QED
    BY <2>1, <2>3, <2>4, NumberLeft
<1>6. ASSUME NEW u \in Unappended
      PROVE u[1] \in pending /\ call[u[1][1]].op = "append" /\ u \in UnitsLeft(u[1])
  <2>1. u = <<u[1], u[2]>> /\ u[1] \in pending /\ u[2] \in Cells
        /\ call[u[1][1]].op = "append" /\ u[2] <= BlockSize(u[1][1], u[1][2])
    BY DEF Unappended
  <2>2. BlockSize(u[1][1], u[1][2]) = Share(u[1]) /\ Share(u[1]) \in Nat
    BY <2>1, FragmentOf
  <2>3. u[2] \in 1..Share(u[1])
    BY <2>1, <2>2, SizeFacts
  <2>4. QED
    BY <2>1, <2>3 DEF UnitsLeft
<1>7. QED
  BY <1>3, <1>4, <1>5, <1>6

(* Whatever is pending is within the file. *)
LEMMA RoomFor ==
    ASSUME Typed, NEW f \in pending
    PROVE  First(f) + Share(f) - 1 <= Size /\ Len(file) <= Size
<1>1. /\ Target(f) = First(f) .. (First(f) + Share(f) - 1)
      /\ First(f) \in Nat \ {0} /\ Share(f) \in Nat \ {0}
  BY FragmentOf DEF Typed
<1>2. Cardinality(Unappended) \in Nat
        /\ (call[f[1]].op = "append" => Share(f) <= Cardinality(Unappended))
  BY UnappendedFacts DEF Typed
<1>3. Len(file) + Cardinality(Unappended) <= Size /\ Len(file) \in Nat
  BY DEF Typed, Capacity, FileTyped
<1>4. Size \in Nat
  BY SizeFacts
<1>5. CASE call[f[1]].op = "append"
  BY <1>1, <1>2, <1>3, <1>4, <1>5 DEF First
<1>6. CASE call[f[1]].op # "append"
  <2>1. First(f) + Share(f) - 1 \in Target(f)
    BY <1>1
  <2>2. First(f) + Share(f) - 1 + Cardinality(Unappended) <= Size
    BY <2>1, <1>6 DEF Typed, Capacity
  <2>3. QED
    BY <2>2, <1>1, <1>2, <1>3, <1>4
<1>7. QED
  BY <1>5, <1>6

-----------------------------------------------------------------------------
(* The types, step by step: the execution of a fragment. *)

(* The execution of a fragment keeps the types and the room for what is pending. *)
LEMMA ExecutionTyped ==
    ASSUME Typed, NEW f \in pending, NEW res \in -1..Share(f), NEW data \in Seq(Units),
           Answer(f, res, data), call' = call, unsure' = unsure, faults' \in 0..MaxFaults,
           res >= 0 => Len(data) = IF call[f[1]].op = "read" THEN res ELSE 0,
           file' \in Seq(Units), Len(file) <= Len(file'),
           \/ file' = file
           \/ call[f[1]].op = "append" /\ Len(file') <= Len(file) + Share(f)
           \/ call[f[1]].op # "append" /\ Len(file') \in {Len(file)} \cup Target(f)
    PROVE  Typed'
<1> DEFINE u == Cardinality(Unappended)
           v == Cardinality(Unappended')
<1>0. FileTyped /\ CallsTyped /\ PendingTyped /\ AnswersTyped /\ SoFar /\ Capacity
  BY DEF Typed
<1>1. FileTyped'
  BY <1>0 DEF FileTyped
<1>2. CallsTyped' /\ SoFar'
  BY <1>0 DEF CallsTyped, SoFar, Busy
<1>3. pending' = pending \ {f}
  BY DEF Answer
<1>4. PendingTyped'
  BY <1>0, <1>3 DEF PendingTyped, Busy
<1>5. f = <<f[1], f[2]>> /\ f \in Calls \X (Nat \ {0}) /\ f[2] \in Fragments(call[f[1]].len)
      /\ (Busy(f[1]) => f[2] >= call[f[1]].next)
  BY <1>0 DEF PendingTyped
<1>6. AnswersTyped'
  <2> DEFINE b == [frag |-> f, res |-> res, data |-> data]
  <2>1. /\ b \in AnswerRecord /\ b.frag = f /\ b.res = res /\ b.data = data
        /\ Share(f) \in Nat /\ Part(call[f[1]].len, f[2]) = Share(f)
    BY <1>0, <1>5, FragmentOf DEF AnswerRecord, Share
  <2>2. \A a \in answers : a.frag # f
    BY <1>0 DEF AnswersTyped
  <2>3. answers' = IF Busy(f[1]) THEN answers \cup {b} ELSE answers
    BY DEF Answer
  <2> HIDE DEF b
  <2>4. \A a, d \in answers' : a.frag = d.frag => a = d
    BY <2>1, <2>2, <2>3, <1>0 DEF AnswersTyped
  <2>5. ASSUME NEW a \in answers, a \in answers'
        PROVE  /\ a \in AnswerRecord
               /\ Busy(a.frag[1])
               /\ a.frag[2] \in Fragments(call[a.frag[1]].len)
               /\ a.frag[2] >= call[a.frag[1]].next
               /\ a.frag \notin pending'
               /\ a.res \in -1..Part(call[a.frag[1]].len, a.frag[2])
               /\ a.res >= 0 => Len(a.data) = IF call[a.frag[1]].op = "read" THEN a.res ELSE 0
    BY <1>0, <1>3 DEF AnswersTyped
  <2>6. ASSUME Busy(f[1])
        PROVE  /\ b \in AnswerRecord
               /\ Busy(b.frag[1])
               /\ b.frag[2] \in Fragments(call[b.frag[1]].len)
               /\ b.frag[2] >= call[b.frag[1]].next
               /\ b.frag \notin pending'
               /\ b.res \in -1..Part(call[b.frag[1]].len, b.frag[2])
               /\ b.res >= 0 => Len(b.data) = IF call[b.frag[1]].op = "read" THEN b.res ELSE 0
    BY <2>1, <2>6, <1>3, <1>5
  <2>7. \A a \in answers' : a \in answers \/ (a = b /\ Busy(f[1]))
    BY <2>3
  <2>8. \A c : Busy(c)' <=> Busy(c)
    BY DEF Busy
  <2>9. QED
    BY <2>4, <2>5, <2>6, <2>7, <2>8 DEF AnswersTyped
<1>7. Capacity'
  <2>1. IsFiniteSet(Unappended) /\ u \in Nat
    BY <1>0, UnappendedFacts
  <2>2. \A g : BlockSize(g[1], g[2])' = BlockSize(g[1], g[2])
    BY DEF BlockSize
  <2>3. Unappended' \subseteq Unappended /\ v \in Nat /\ v <= u
    <3>1. Unappended' \subseteq Unappended
      BY <1>3, <2>2 DEF Unappended
    <3>2. IsFiniteSet(Unappended') /\ v <= u
      BY <3>1, <2>1, FS_Subset
    <3>3. QED
      BY <3>1, <3>2, FS_CardinalityType
  <2>4. ASSUME call[f[1]].op = "append" PROVE v <= u - Share(f)
    <3>1. UnitsLeft(f) \subseteq Unappended /\ Share(f) \in Nat
      BY <1>0, <2>4, UnappendedFacts, FragmentOf
    <3>2. IsFiniteSet(UnitsLeft(f)) /\ Cardinality(UnitsLeft(f)) = Share(f)
      BY <3>1, NumberLeft
    <3>3. Unappended' \cap UnitsLeft(f) = {}
      BY <1>3 DEF Unappended, UnitsLeft
    <3>4. Unappended' \subseteq Unappended \ UnitsLeft(f)
      BY <2>3, <3>3
    <3>5. IsFiniteSet(Unappended \ UnitsLeft(f))
          /\ Cardinality(Unappended \ UnitsLeft(f))
               = u - Cardinality(Unappended \cap UnitsLeft(f))
      BY <2>1, FS_Difference
    <3>6. Unappended \cap UnitsLeft(f) = UnitsLeft(f)
      BY <3>1
    <3>7. v <= Cardinality(Unappended \ UnitsLeft(f))
      BY <3>4, <3>5, FS_Subset
    <3>8. QED
      BY <3>1, <3>2, <3>5, <3>6, <3>7, <2>1, <2>3
  <2>5. Share(f) \in Nat /\ First(f) \in Nat /\ Target(f) = First(f) .. (First(f) + Share(f) - 1)
    BY <1>0, FragmentOf
  <2>6. Len(file)' + v <= Size
    <3>1. Len(file) + u <= Size /\ Len(file) \in Nat /\ Len(file') \in Nat /\ Size \in Nat
      BY <1>0, <1>1, SizeFacts DEF Capacity, FileTyped
    <3>2. call[f[1]].op # "append" => \A k \in Target(f) : k + u <= Size /\ k \in Nat
      BY <1>0, <2>5 DEF Capacity
    <3> HIDE DEF u, v
    <3>3. CASE file' = file
      BY <3>1, <3>3, <2>1, <2>3
    <3>4. CASE call[f[1]].op = "append" /\ Len(file') <= Len(file) + Share(f)
      BY <3>1, <3>4, <2>1, <2>3, <2>4, <2>5
    <3>5. CASE call[f[1]].op # "append" /\ Len(file') \in {Len(file)} \cup Target(f)
      BY <3>1, <3>2, <3>5, <2>1, <2>3
    <3>6. QED
      BY <3>3, <3>4, <3>5
  <2>7. ASSUME NEW g \in pending', call[g[1]].op # "append", NEW k \in Target(g)'
        PROVE  k + v <= Size
    <3>1. g \in pending /\ Target(g)' = Target(g)
      BY <1>3, <2>2, <2>7 DEF Target
    <3>2. k + u <= Size
      BY <1>0, <2>7, <3>1 DEF Capacity
    <3>3. k \in Nat
      <4>1. Target(g) = First(g) .. (First(g) + Share(g) - 1) /\ First(g) \in Nat \ {0}
            /\ Share(g) \in Nat \ {0}
        BY <1>0, <3>1, FragmentOf
      <4>2. QED
        BY <4>1, <3>1, <2>7
    <3> HIDE DEF u, v
    <3>4. QED
      BY <3>2, <3>3, <2>1, <2>3, SizeFacts
  <2>8. QED
    BY <2>6, <2>7 DEF Capacity
<1>8. QED
  BY <1>1, <1>2, <1>4, <1>6, <1>7 DEF Typed

-----------------------------------------------------------------------------
(* The types, step by step: a call begins. *)

\* What the calls of the kernel have in common.
NewCall(x) ==
    /\ x \in CallRecord
    /\ x.state = "busy" /\ x.op \in IOOps
    /\ x.len \in Cells
    /\ x.op # "append" => x.start \in Cells
    /\ x.op = "append" => x.start = Len(file) + 1
    /\ x.next = 1 /\ x.got = <<>> /\ x.count = 0

\* The units of all fragments of a call.
UnitsOfCall(c, len) ==
    {s \in {<<<<c, i>>, k>> : i \in Fragments(len), k \in 1..Fragment} : s[2] <= Part(len, s[1][2])}

(* The fragments of a call have no more units than the call. *)
LEMMA UnitsOfCallFacts ==
    ASSUME NEW c, NEW len \in Nat \ {0}
    PROVE  /\ IsFiniteSet(UnitsOfCall(c, len)) /\ Cardinality(UnitsOfCall(c, len)) \in Nat
           /\ Cardinality(UnitsOfCall(c, len)) <= len
<1> DEFINE N == UnitsOfCall(c, len)
           g == [s \in N |-> Offset(s[1][2]) + s[2]]
<1>1. ASSUME NEW s \in N
      PROVE  /\ s = <<<<c, s[1][2]>>, s[2]>>
             /\ s[1][2] \in Fragments(len) /\ s[2] \in Nat \ {0}
             /\ s[2] <= Part(len, s[1][2])
  BY SizeFacts DEF UnitsOfCall
<1> HIDE DEF N
<1>2. ASSUME NEW s \in N PROVE g[s] \in 1..len
  <2>1. Offset(s[1][2]) \in Nat /\ Offset(s[1][2]) + Part(len, s[1][2]) <= len
        /\ Part(len, s[1][2]) \in Nat
    BY <1>1, PartFacts
  <2>2. QED
    BY <2>1, <1>1
<1>3. ASSUME NEW s \in N, NEW t \in N, g[s] = g[t] PROVE s = t
  <2> DEFINE i == s[1][2]
             j == t[1][2]
  <2>1. /\ i \in Fragments(len) /\ j \in Fragments(len) /\ i \in Nat /\ j \in Nat
        /\ Offset(i) \in Nat /\ Offset(j) \in Nat
        /\ Part(len, i) \in Nat /\ Part(len, j) \in Nat
        /\ i < j => Offset(i) + Part(len, i) <= Offset(j)
        /\ j < i => Offset(j) + Part(len, j) <= Offset(i)
    BY <1>1, PartFacts
  <2>2. /\ s = <<<<c, i>>, s[2]>> /\ t = <<<<c, j>>, t[2]>>
        /\ s[2] \in Nat \ {0} /\ t[2] \in Nat \ {0} /\ s[2] <= Part(len, i) /\ t[2] <= Part(len, j)
    BY <1>1
  <2>3. Offset(i) + s[2] = Offset(j) + t[2]
    BY <1>3
  <2> HIDE DEF i, j, g
  <2>4. i = j
    BY <2>1, <2>2, <2>3
  <2>5. s[2] = t[2]
    BY <2>1, <2>2, <2>3, <2>4
  <2>6. QED
    BY <2>2, <2>4, <2>5
<1>4. g \in Injection(N, 1..len)
  <2>1. g \in [N -> 1..len]
    BY <1>2
  <2>2. QED
    BY <2>1, <1>3, Fun_IsInj
<1>5. IsFiniteSet(1..len) /\ Cardinality(1..len) = len
  BY FS_Interval
<1>6. IsFiniteSet(N) /\ Cardinality(N) <= len
  BY <1>4, <1>5, FS_Injection
<1>7. Cardinality(N) \in Nat
  BY <1>6, FS_CardinalityType
<1>8. QED
  BY <1>6, <1>7 DEF N

(* The start of a call keeps the types: it begins only if there is room for it. *)
LEMMA StartTyped ==
    ASSUME Typed, NEW c \in Calls, NEW x, NewCall(x), Start(c, x)
    PROVE  Typed'
<1> DEFINE u == Cardinality(Unappended)
           v == Cardinality(Unappended')
           more == IF x.op = "append" THEN x.len ELSE 0
<1>0. FileTyped /\ CallsTyped /\ PendingTyped /\ AnswersTyped /\ SoFar /\ Capacity
  BY DEF Typed
<1>1. /\ call[c].state = "idle" /\ call[c].op = "none"
      /\ call' = [call EXCEPT ![c] = x]
      /\ pending' = pending \cup ({c} \X Fragments(x.len))
      /\ file' = file /\ answers' = answers /\ faults' = faults /\ unsure' = unsure
  BY <1>0 DEF Start, CallsTyped, NoCall
<1>2. call'[c] = x /\ \A d \in Calls : d # c => call'[d] = call[d]
  BY <1>0, <1>1 DEF CallsTyped
<1>3. FileTyped'
  BY <1>0, <1>1 DEF FileTyped
<1>4. x.len \in Nat \ {0} /\ x.start \in Nat \ {0} /\ x.op # "none" /\ x.op \in IOOps
  BY SizeFacts DEF NewCall, IOOps, CallRecord
<1>5. PICK n \in 1..x.len : Fragments(x.len) = 1..n
  BY <1>4, FragmentFacts
<1>6. 1 \in Fragments(x.len) /\ \A i \in Fragments(x.len) : i \in Nat \ {0} /\ i >= 1
  BY <1>4, <1>5
<1>7. \A f \in pending : f[1] \in Calls /\ f[1] # c
  BY <1>0, <1>1 DEF PendingTyped
<1>8. \A a \in answers : a.frag[1] # c /\ a.frag[1] \in Calls
  BY <1>0, <1>1 DEF AnswersTyped, AnswerRecord, Busy
<1>9. IsFiniteSet(Unappended) /\ u \in Nat
  BY <1>0, UnappendedFacts
<1> DEFINE ends == {Len(file)} \cup (IF x.op = "append" THEN {} ELSE Place(x))
                    \cup UNION {Target(f) : f \in {g \in pending : call[g[1]].op # "append"}}
<1>10. \A k \in ends : k + (u + more) <= Size
  BY DEF Start, Fits
<1>11. /\ Len(file) + (u + more) <= Size
       /\ x.op # "append" => \A k \in Place(x) : k + u <= Size
       /\ \A f \in pending : call[f[1]].op # "append" => \A k \in Target(f) : k + (u + more) <= Size
  <2> HIDE DEF u, more
  <2>1. Len(file) \in ends
    OBVIOUS
  <2>2. x.op # "append" => \A k \in Place(x) : k \in ends
    OBVIOUS
  <2>3. \A f \in pending : call[f[1]].op # "append" => \A k \in Target(f) : k \in ends
    OBVIOUS
  <2>4. ASSUME x.op # "append", NEW k \in Place(x) PROVE k + u <= Size
    <3>1. more = 0
      BY <2>4 DEF more
    <3>2. k + (u + more) <= Size /\ u + more = u
      BY <2>2, <2>4, <3>1, <1>9, <1>10
    <3>3. QED
      BY <3>2
  <2>5. QED
    BY <2>1, <2>3, <2>4, <1>10
<1>12. x.start + x.len - 1 <= Size
  <2>1. CASE x.op = "append"
    <3>1. x.start = Len(file) + 1 /\ Len(file) \in Nat
      BY <1>0, <2>1 DEF NewCall, FileTyped
    <3>2. QED
      BY <2>1, <3>1, <1>4, <1>9, <1>11, SizeFacts
  <2>2. CASE x.op # "append"
    <3>1. x.start + x.len - 1 \in Place(x)
      BY <1>4 DEF Place
    <3>2. x.start + x.len - 1 + u <= Size
      BY <2>2, <3>1, <1>11
    <3>3. QED
      BY <3>2, <1>4, <1>9, SizeFacts
  <2>3. QED
    BY <2>1, <2>2
<1>13. CallsTyped'
  <2>1. call' \in [Calls -> CallRecord]
    BY <1>0, <1>1 DEF CallsTyped, NewCall
  <2>2. ASSUME NEW d \in Calls
        PROVE  /\ call'[d].state = "idle" => call'[d] = NoCall
               /\ call'[d].op = "none" => ~Busy(d)' /\ call'[d].len = 0 /\ call'[d].start = 1
               /\ call'[d].op # "none" => call'[d].len >= 1
                                          /\ call'[d].start + call'[d].len - 1 <= Size
               /\ ~Busy(d)' => call'[d].touched = {} /\ call'[d].sure = {} /\ call'[d].next = 1
                              /\ call'[d].got = <<>> /\ call'[d].count = 0
               /\ Busy(d)' => call'[d].next \in Fragments(call'[d].len)
    <3>1. CASE d = c
      BY <3>1, <1>2, <1>4, <1>6, <1>12 DEF NewCall, Busy
    <3>2. CASE d # c
      BY <3>2, <1>0, <1>2 DEF CallsTyped, Busy
    <3>3. QED
      BY <3>1, <3>2
  <2>3. QED
    BY <2>1, <2>2 DEF CallsTyped
<1>14. PendingTyped'
  <2>1. ASSUME NEW f \in pending'
        PROVE  /\ f \in Calls \X (Nat \ {0})
               /\ call'[f[1]].op # "none"
               /\ f[2] \in Fragments(call'[f[1]].len)
               /\ Busy(f[1])' => f[2] >= call'[f[1]].next
    <3>1. CASE f \in pending
      BY <3>1, <1>0, <1>2, <1>7 DEF PendingTyped, Busy
    <3>2. CASE f \in {c} \X Fragments(x.len)
      BY <3>2, <1>2, <1>4, <1>6 DEF NewCall
    <3>3. QED
      BY <3>1, <3>2, <1>1
  <2>2. QED
    BY <2>1 DEF PendingTyped
<1>15. AnswersTyped'
  <2>1. ASSUME NEW a \in answers
        PROVE  /\ call'[a.frag[1]] = call[a.frag[1]] /\ (Busy(a.frag[1])' <=> Busy(a.frag[1]))
               /\ a.frag \notin pending'
    BY <1>0, <1>1, <1>2, <1>8 DEF AnswersTyped, AnswerRecord, Busy
  <2>2. QED
    BY <1>0, <1>1, <2>1 DEF AnswersTyped
<1>16. SoFar'
  <2>1. ASSUME NEW d \in Calls, Busy(d)'
        PROVE  /\ call'[d].count <= Offset(call'[d].next)
               /\ Len(call'[d].got) = IF call'[d].op = "read" THEN call'[d].count ELSE 0
    <3>1. CASE d = c
      <4>1. x.count = 0 /\ x.next = 1 /\ Len(x.got) = 0
        BY DEF NewCall
      <4>2. QED
        BY <3>1, <4>1, <1>2, OffsetFacts
    <3>2. CASE d # c
      BY <3>2, <2>1, <1>0, <1>2 DEF SoFar, Busy
    <3>3. QED
      BY <3>1, <3>2
  <2>2. QED
    BY <2>1 DEF SoFar
<1>17. Capacity'
  <2> DEFINE N == UnitsOfCall(c, x.len)
  <2>1. IsFiniteSet(N) /\ Cardinality(N) \in Nat /\ Cardinality(N) <= x.len
    BY <1>4, UnitsOfCallFacts
  <2>2. \A f \in pending : BlockSize(f[1], f[2])' = BlockSize(f[1], f[2])
    BY <1>2, <1>7 DEF BlockSize
  <2>3. \A i : BlockSize(c, i)' = Part(x.len, i)
    BY <1>2 DEF BlockSize, Part
  <2>4. Unappended' \subseteq Unappended \cup (IF x.op = "append" THEN N ELSE {})
    <3>1. ASSUME NEW s \in Unappended' PROVE s \in Unappended
                   \cup (IF x.op = "append" THEN N ELSE {})
      <4>1. /\ s = <<s[1], s[2]>> /\ s[1] \in pending' /\ s[2] \in Cells
            /\ call'[s[1][1]].op = "append" /\ s[2] <= BlockSize(s[1][1], s[1][2])'
        BY DEF Unappended
      <4>2. CASE s[1] \in pending
        BY <4>1, <4>2, <2>2, <1>2, <1>7 DEF Unappended
      <4>3. CASE s[1] \in {c} \X Fragments(x.len)
        <5>1. s[1] = <<c, s[1][2]>> /\ s[1][2] \in Fragments(x.len)
          BY <4>3
        <5>2. x.op = "append" /\ s[2] <= Part(x.len, s[1][2])
          BY <4>1, <5>1, <1>2, <2>3
        <5>3. s[2] \in 1..Fragment
          <6>1. Part(x.len, s[1][2]) \in 1..Fragment
            BY <5>1, <1>4, PartFacts
          <6>2. QED
            BY <6>1, <5>2, <4>1, SizeFacts
        <5>4. s \in N
          BY <4>1, <5>1, <5>2, <5>3 DEF UnitsOfCall
        <5>5. QED
          BY <5>2, <5>4
      <4>4. QED
        BY <4>1, <4>2, <4>3, <1>1
    <3>2. QED
      BY <3>1
  <2> HIDE DEF N
  <2>5. v \in Nat /\ v <= u + more
    <3> DEFINE M == IF x.op = "append" THEN N ELSE {}
    <3>1. IsFiniteSet(M) /\ Cardinality(M) \in Nat /\ Cardinality(M) <= more
      BY <2>1, <1>4, FS_EmptySet
    <3> HIDE DEF M
    <3>2. IsFiniteSet(Unappended \cup M)
          /\ Cardinality(Unappended \cup M) = u + Cardinality(M) - Cardinality(Unappended \cap M)
      BY <3>1, <1>9, FS_Union
    <3>3. Cardinality(Unappended \cap M) \in Nat
      BY <3>1, FS_Intersection, FS_CardinalityType
    <3>4. IsFiniteSet(Unappended') /\ v <= Cardinality(Unappended \cup M)
      BY <2>4, <3>2, FS_Subset DEF M
    <3>5. v \in Nat
      BY <3>4, FS_CardinalityType
    <3>6. more \in Nat
      BY <1>4
    <3> HIDE DEF u, v, more
    <3>7. QED
      BY <3>1, <3>2, <3>3, <3>4, <3>5, <3>6, <1>9
  <2>6. more \in Nat /\ Len(file) \in Nat /\ Size \in Nat
    BY <1>0, <1>4, SizeFacts DEF FileTyped
  <2>7. Len(file)' + v <= Size
    <3>1. Len(file)' = Len(file)
      BY <1>1
    <3> HIDE DEF u, v, more
    <3>2. QED
      BY <3>1, <2>5, <2>6, <1>9, <1>11
  <2>8. ASSUME NEW f \in pending', call'[f[1]].op # "append", NEW k \in Target(f)'
        PROVE  k + v <= Size
    <3>1. CASE f \in pending
      <4>1. Target(f)' = Target(f) /\ call[f[1]].op # "append"
        BY <3>1, <2>2, <2>8, <1>2, <1>7 DEF Target
      <4>2. k + (u + more) <= Size
        BY <3>1, <4>1, <2>8, <1>11
      <4>3. k \in Nat
        <5>1. Target(f) = First(f) .. (First(f) + Share(f) - 1) /\ First(f) \in Nat \ {0}
              /\ Share(f) \in Nat \ {0}
          BY <1>0, <3>1, FragmentOf
        <5>2. QED
          BY <5>1, <4>1, <2>8
      <4> HIDE DEF u, v, more
      <4>4. QED
        BY <4>2, <4>3, <2>5, <2>6, <1>9
    <3>2. CASE f \in {c} \X Fragments(x.len)
      <4>1. f[1] = c /\ f[2] \in Fragments(x.len)
        BY <3>2
      <4>2. x.op # "append"
        BY <4>1, <2>8, <1>2
      <4> DEFINE s == x.start + Offset(f[2])
      <4>3. Target(f)' = s .. (s + Part(x.len, f[2]) - 1)
        BY <4>1, <4>2, <1>2, <2>3 DEF Target
      <4>4. Offset(f[2]) \in Nat /\ Part(x.len, f[2]) \in Nat
            /\ Offset(f[2]) + Part(x.len, f[2]) <= x.len
        BY <4>1, <1>4, PartFacts
      <4>5. k \in Place(x) /\ k \in Nat
        BY <4>3, <4>4, <2>8, <1>4 DEF Place
      <4>6. k + u <= Size /\ more = 0
        BY <4>2, <4>5, <1>11
      <4> HIDE DEF u, v, more
      <4>7. QED
        BY <4>5, <4>6, <2>5, <2>6, <1>9
    <3>3. QED
      BY <3>1, <3>2, <1>1
  <2>9. QED
    BY <2>7, <2>8 DEF Capacity
<1>18. QED
  BY <1>3, <1>13, <1>14, <1>15, <1>16, <1>17 DEF Typed

-----------------------------------------------------------------------------
(* The types, step by step: answers are taken, and a call gives up. *)

(* There is still room if fewer fragments are pending. *)
LEMMA CapacityKept ==
    ASSUME FileTyped, CallsTyped, PendingTyped, Capacity, pending' \subseteq pending, file' = file,
           \A f \in pending' : /\ call'[f[1]].op = call[f[1]].op
                               /\ call'[f[1]].start = call[f[1]].start
                               /\ call'[f[1]].len = call[f[1]].len
    PROVE  Capacity'
<1> DEFINE u == Cardinality(Unappended)
           v == Cardinality(Unappended')
<1>1. \A f \in pending' : BlockSize(f[1], f[2])' = BlockSize(f[1], f[2])
  BY DEF BlockSize
<1>2. Unappended' \subseteq Unappended
  BY <1>1 DEF Unappended
<1>3. IsFiniteSet(Unappended) /\ u \in Nat
  BY UnappendedFacts
<1>4. IsFiniteSet(Unappended') /\ v <= u /\ v \in Nat
  BY <1>2, <1>3, FS_Subset, FS_CardinalityType
<1>5. Len(file)' + v <= Size
  <2>1. Len(file) + u <= Size /\ Len(file) \in Nat /\ Len(file)' = Len(file) /\ Size \in Nat
    BY SizeFacts DEF Capacity, FileTyped
  <2> HIDE DEF u, v
  <2>2. QED
    BY <2>1, <1>3, <1>4
<1>6. ASSUME NEW f \in pending', call'[f[1]].op # "append", NEW k \in Target(f)'
      PROVE  k + v <= Size
  <2>1. f \in pending /\ Target(f)' = Target(f) /\ call[f[1]].op # "append"
    BY <1>1, <1>6 DEF Target
  <2>2. k + u <= Size
    BY <1>6, <2>1 DEF Capacity
  <2>3. k \in Nat
    <3>1. Target(f) = First(f) .. (First(f) + Share(f) - 1) /\ First(f) \in Nat \ {0}
          /\ Share(f) \in Nat \ {0}
      BY <2>1, FragmentOf
    <3>2. QED
      BY <3>1, <2>1, <1>6
  <2> HIDE DEF u, v
  <2>4. QED
    BY <2>2, <2>3, <1>3, <1>4, SizeFacts
<1>7. QED
  BY <1>5, <1>6 DEF Capacity

\* Call c after answer a.
After(c, a) == [call[c] EXCEPT !.next = @ + 1, !.got = @ \o a.data, !.count = @ + a.res]
IsLast(c) == call[c].next + 1 \notin Fragments(call[c].len)

Changed(y, n, g, m) == [y EXCEPT !.next = n, !.got = g, !.count = m]

(* A call of which an answer is taken, field by field. *)
LEMMA ChangedRecord ==
    ASSUME NEW y \in CallRecord, NEW n \in Nat \ {0}, NEW g \in Seq(Units), NEW m \in Nat
    PROVE  /\ Changed(y, n, g, m) \in CallRecord
           /\ Changed(y, n, g, m).state = y.state /\ Changed(y, n, g, m).op = y.op
           /\ Changed(y, n, g, m).start = y.start /\ Changed(y, n, g, m).len = y.len
           /\ Changed(y, n, g, m).touched = y.touched /\ Changed(y, n, g, m).sure = y.sure
           /\ Changed(y, n, g, m).next = n /\ Changed(y, n, g, m).got = g
           /\ Changed(y, n, g, m).count = m
BY Zenon DEF CallRecord, Changed

\* What taking the answer a does.
Collected(c, a) ==
    /\ Busy(c) /\ a.frag = <<c, call[c].next>> /\ a.frag[1] = c /\ a.frag[2] = call[c].next
    /\ a.res \in Nat /\ a.res <= Part(call[c].len, call[c].next)
    /\ a.data \in Seq(Units)
    /\ Len(a.data) = IF call[c].op = "read" THEN a.res ELSE 0
    /\ call[c].op \in IOOps /\ call[c].len \in Nat \ {0} /\ call[c].start \in Nat \ {0}
    /\ call[c].next \in Nat \ {0} /\ call[c].next \in Fragments(call[c].len)
    /\ call[c].count \in Nat /\ call[c].got \in Seq(Units)
    /\ After(c, a) \in CallRecord
    /\ After(c, a).state = "busy" /\ After(c, a).op = call[c].op
    /\ After(c, a).start = call[c].start /\ After(c, a).len = call[c].len
    /\ After(c, a).touched = call[c].touched /\ After(c, a).sure = call[c].sure
    /\ After(c, a).next = call[c].next + 1
    /\ After(c, a).got = call[c].got \o a.data
    /\ After(c, a).count = call[c].count + a.res
    /\ call' = [call EXCEPT ![c] = IF IsLast(c) THEN Done ELSE After(c, a)]
    /\ call'[c] = IF IsLast(c) THEN Done ELSE After(c, a)
    /\ \A d \in Calls : d # c => call'[d] = call[d] /\ (Busy(d)' <=> Busy(d))
    /\ Busy(c)' <=> ~IsLast(c)
    /\ answers' = answers \ {a}
    /\ \A f \in pending : f[1] = c => ~IsLast(c) /\ f[2] >= call[c].next + 1
    /\ \A b \in answers' : b.frag[1] = c => ~IsLast(c) /\ b.frag[2] >= call[c].next + 1

(* An answer is taken: the call goes on, or is over if it was the last. *)
LEMMA CollectIs ==
    ASSUME Typed, NEW c \in Calls, NEW a \in answers, Collect(c, a)
    PROVE  Collected(c, a)
<1> DEFINE x == After(c, a)
           y == call[c]
<1>0. FileTyped /\ CallsTyped /\ PendingTyped /\ AnswersTyped /\ SoFar /\ Capacity
  BY DEF Typed
<1>1. Busy(c) /\ a.frag = <<c, y.next>> /\ a.res >= 0 /\ Take(c, a, x)
  BY DEF Collect, Take, After
<1>2. a.frag[1] = c /\ a.frag[2] = y.next
  BY <1>1
<1>3. /\ y \in CallRecord /\ y.op \in IOOps /\ y.len \in Nat \ {0} /\ y.start \in Nat \ {0}
      /\ y.next \in Fragments(y.len)
  BY <1>0, <1>1, CallFacts
<1>4. y.next \in Nat \ {0} /\ y.count \in Nat /\ y.got \in Seq(Units) /\ y.state = "busy"
  BY <1>1, <1>3 DEF CallRecord, Busy
<1>5. /\ a.res \in Nat /\ a.res <= Part(y.len, y.next) /\ a.data \in Seq(Units)
      /\ Len(a.data) = IF y.op = "read" THEN a.res ELSE 0
  <2>1. a \in AnswerRecord /\ a.res \in -1..Part(y.len, y.next)
        /\ Len(a.data) = IF y.op = "read" THEN a.res ELSE 0
    BY <1>0, <1>1, <1>2 DEF AnswersTyped
  <2>2. QED
    BY <2>1, <1>1 DEF AnswerRecord
<1>6. y.got \o a.data \in Seq(Units)
  BY <1>4, <1>5, ConcatProperties
<1>7. /\ x \in CallRecord
      /\ x.state = "busy" /\ x.op = y.op /\ x.start = y.start /\ x.len = y.len
      /\ x.touched = y.touched /\ x.sure = y.sure
      /\ x.next = y.next + 1 /\ x.got = y.got \o a.data /\ x.count = y.count + a.res
  <2>1. y.next + 1 \in Nat \ {0} /\ y.count + a.res \in Nat
    BY <1>4, <1>5
  <2>2. x = Changed(y, y.next + 1, y.got \o a.data, y.count + a.res)
    BY DEF After, Changed
  <2> DEFINE n == y.next + 1
             g == y.got \o a.data
             m == y.count + a.res
  <2>3. y \in CallRecord /\ n \in Nat \ {0} /\ g \in Seq(Units) /\ m \in Nat
        /\ x = Changed(y, n, g, m)
    BY <2>1, <2>2, <1>3, <1>6
  <2> HIDE DEF n, g, m, x
  <2>4. /\ x \in CallRecord
        /\ x.state = y.state /\ x.op = y.op /\ x.start = y.start /\ x.len = y.len
        /\ x.touched = y.touched /\ x.sure = y.sure
        /\ x.next = n /\ x.got = g /\ x.count = m
    BY <2>3, ChangedRecord
  <2>5. QED
    BY <2>4, <1>4 DEF n, g, m
<1>8. (x.next > Max(Fragments(x.len))) <=> IsLast(c)
  BY <1>3, <1>7, PartFacts DEF IsLast
<1>9. call' = [call EXCEPT ![c] = IF IsLast(c) THEN Done ELSE x] /\ answers' = answers \ {a}
  BY <1>1, <1>8 DEF Take
<1>10. /\ call'[c] = IF IsLast(c) THEN Done ELSE x
       /\ \A d \in Calls : d # c => call'[d] = call[d]
  BY <1>0, <1>9 DEF CallsTyped
<1>11. Done.state = "done"
  BY DEF Done, NoCall
<1>12. /\ \A d \in Calls : d # c => (Busy(d)' <=> Busy(d))
       /\ Busy(c)' <=> ~IsLast(c)
  BY <1>7, <1>10, <1>11 DEF Busy
<1>13. \A i \in Fragments(y.len) : i \in Nat
  BY <1>3, PartFacts
<1>14. ASSUME NEW i \in Fragments(y.len), i >= y.next, i # y.next
       PROVE  ~IsLast(c) /\ i >= y.next + 1
  <2>1. PICK n \in 1..y.len : Fragments(y.len) = 1..n
    BY <1>3, FragmentFacts
  <2>2. QED
    BY <2>1, <1>4, <1>14 DEF IsLast
<1>15. ASSUME NEW f \in pending, f[1] = c PROVE ~IsLast(c) /\ f[2] >= y.next + 1
  <2>1. f = <<f[1], f[2]>> /\ f[2] \in Fragments(y.len) /\ f[2] >= y.next
    BY <1>0, <1>1, <1>15 DEF PendingTyped
  <2>2. f # a.frag
    BY <1>0 DEF AnswersTyped
  <2>3. QED
    BY <2>1, <2>2, <1>1, <1>14, <1>15
<1>16. ASSUME NEW b \in answers', b.frag[1] = c PROVE ~IsLast(c) /\ b.frag[2] >= y.next + 1
  <2>1. b \in answers /\ b # a /\ b \in AnswerRecord
    BY <1>0, <1>9 DEF AnswersTyped
  <2>2. b.frag # a.frag
    BY <2>1, <1>0 DEF AnswersTyped
  <2>3. b.frag = <<b.frag[1], b.frag[2]>> /\ b.frag[2] \in Fragments(y.len) /\ b.frag[2] >= y.next
    BY <2>1, <1>0, <1>16 DEF AnswersTyped, AnswerRecord
  <2>4. QED
    BY <2>2, <2>3, <1>1, <1>14, <1>16
<1>17. QED
  BY <1>1, <1>2, <1>3, <1>4, <1>5, <1>7, <1>9, <1>10, <1>12, <1>15, <1>16 DEF Collected

(* A call that is over, field by field. *)
LEMMA DoneIs ==
    /\ Done \in CallRecord /\ Done.state = "done" /\ Done.op = "none" /\ Done.len = 0
    /\ Done.start = 1 /\ Done.touched = {} /\ Done.sure = {} /\ Done.next = 1
    /\ Done.got = <<>> /\ Done.count = 0
<1>1. <<>> \in Seq(Units)
  BY EmptySeq
<1>2. 1 \in Nat \ {0} /\ 0 \in Nat /\ {} \in SUBSET Cells
  OBVIOUS
<1>3. Done \in CallRecord
  BY <1>1, <1>2, Zenon DEF Done, NoCall, CallRecord
<1>4. QED
  BY <1>3 DEF Done, NoCall

(* Taking an answer keeps the types. *)
LEMMA CollectTyped ==
    ASSUME Typed, NEW c \in Calls, NEW a \in answers, Collect(c, a)
    PROVE  Typed'
<1> DEFINE x == After(c, a)
           y == call[c]
<1>c. Collected(c, a)
  BY CollectIs
<1>0. FileTyped /\ CallsTyped /\ PendingTyped /\ AnswersTyped /\ SoFar /\ Capacity
  BY DEF Typed
<1>1. file' = file /\ pending' = pending /\ faults' = faults
  BY DEF Collect, Take
<1>2. unsure' \subseteq Cells
  <2>1. x.touched = y.touched /\ y.touched \subseteq Cells /\ unsure \subseteq Cells
    <3>1. y \in CallRecord
      BY <1>0, CallFacts
    <3>2. QED
      BY <3>1, <1>0, <1>c DEF FileTyped, CallRecord, Collected
  <2>2. unsure' \subseteq unsure \cup x.touched
    BY DEF Collect, Take, After
  <2>3. QED
    BY <2>1, <2>2
<1>3. FileTyped'
  BY <1>0, <1>1, <1>2 DEF FileTyped
<1>4. ~IsLast(c) => x.next \in Fragments(x.len)
  BY <1>c DEF IsLast, Collected
<1>5. CallsTyped'
  <2>1. call' \in [Calls -> CallRecord]
    BY <1>0, <1>c, DoneIs DEF CallsTyped, Collected
  <2>2. ASSUME NEW d \in Calls
        PROVE  /\ call'[d].state = "idle" => call'[d] = NoCall
               /\ call'[d].op = "none" => ~Busy(d)' /\ call'[d].len = 0 /\ call'[d].start = 1
               /\ call'[d].op # "none" => call'[d].len >= 1
                                          /\ call'[d].start + call'[d].len - 1 <= Size
               /\ ~Busy(d)' => call'[d].touched = {} /\ call'[d].sure = {} /\ call'[d].next = 1
                              /\ call'[d].got = <<>> /\ call'[d].count = 0
               /\ Busy(d)' => call'[d].next \in Fragments(call'[d].len)
    <3>1. CASE d = c /\ IsLast(c)
      BY <3>1, <1>c, DoneIs DEF Collected
    <3>2. CASE d = c /\ ~IsLast(c)
      <4>1. call'[d] = x /\ Busy(d)' /\ x.state = "busy" /\ x.op # "none"
            /\ x.len = y.len /\ x.start = y.start
        BY <3>2, <1>c DEF IOOps, Collected
      <4>2. y.len >= 1 /\ y.start + y.len - 1 <= Size
        BY <1>0, <1>c DEF CallsTyped, IOOps, Collected
      <4>3. QED
        BY <4>1, <4>2, <1>4, <3>2
    <3>3. CASE d # c
      BY <3>3, <1>0, <1>c DEF CallsTyped, Collected
    <3>4. QED
      BY <3>1, <3>2, <3>3
  <2>3. QED
    BY <2>1, <2>2 DEF CallsTyped
<1>6. \A f \in pending : /\ f[1] \in Calls
                         /\ call'[f[1]].op = call[f[1]].op
                         /\ call'[f[1]].start = call[f[1]].start
                         /\ call'[f[1]].len = call[f[1]].len
                         /\ Busy(f[1])' <=> Busy(f[1])
                         /\ f[1] # c => call'[f[1]] = call[f[1]]
                         /\ f[1] = c => call'[c] = x /\ f[2] >= x.next
  <2>1. ASSUME NEW f \in pending
        PROVE  /\ f[1] \in Calls
               /\ f[1] # c => call'[f[1]] = call[f[1]] /\ (Busy(f[1])' <=> Busy(f[1]))
               /\ f[1] = c => /\ call'[c] = x /\ f[2] >= x.next /\ x.op = y.op /\ x.start = y.start
                              /\ x.len = y.len /\ (Busy(c)' <=> Busy(c))
    <3>1. f[1] \in Calls
      BY <1>0 DEF PendingTyped
    <3>2. QED
      BY <3>1, <1>c DEF Collected
  <2>2. QED
    BY <2>1
<1>7. PendingTyped'
  BY <1>0, <1>1, <1>6 DEF PendingTyped
<1>8. AnswersTyped'
  <2>1. ASSUME NEW b \in answers'
        PROVE  /\ b \in AnswerRecord
               /\ Busy(b.frag[1])'
               /\ b.frag[2] \in Fragments(call'[b.frag[1]].len)
               /\ b.frag[2] >= call'[b.frag[1]].next
               /\ b.frag \notin pending'
               /\ b.res \in -1..Part(call'[b.frag[1]].len, b.frag[2])
               /\ b.res >= 0 => Len(b.data) = IF call'[b.frag[1]].op = "read" THEN b.res ELSE 0
    <3>1. b \in answers
      BY <1>c DEF Collected
    <3>2. b.frag[1] \in Calls
      BY <3>1, <1>0 DEF AnswersTyped, AnswerRecord
    <3>3. CASE b.frag[1] # c
      <4>1. call'[b.frag[1]] = call[b.frag[1]] /\ (Busy(b.frag[1])' <=> Busy(b.frag[1]))
        BY <3>2, <3>3, <1>c DEF Collected
      <4>2. QED
        BY <3>1, <4>1, <1>0, <1>1 DEF AnswersTyped
    <3>4. CASE b.frag[1] = c
      <4>1. ~IsLast(c) /\ b.frag[2] >= x.next
        BY <3>4, <1>c DEF Collected
      <4>2. call'[c] = x /\ Busy(c)' /\ x.op = y.op /\ x.len = y.len
        BY <4>1, <1>c DEF Collected
      <4>3. QED
        BY <3>1, <3>4, <4>1, <4>2, <1>0, <1>1 DEF AnswersTyped
    <3>5. QED
      BY <3>3, <3>4
  <2>2. \A b, d \in answers' : b.frag = d.frag => b = d
    BY <1>0, <1>c DEF AnswersTyped, Collected
  <2>3. QED
    BY <2>1, <2>2 DEF AnswersTyped
<1>9. SoFar'
  <2>1. ASSUME NEW d \in Calls, Busy(d)'
        PROVE  /\ call'[d].count <= Offset(call'[d].next)
               /\ Len(call'[d].got) = IF call'[d].op = "read" THEN call'[d].count ELSE 0
    <3>1. CASE d # c
      <4>1. call'[d] = call[d] /\ Busy(d)
        BY <3>1, <2>1, <1>c DEF Collected
      <4>2. QED
        BY <4>1, <1>0 DEF SoFar
    <3>2. CASE d = c
      <4>1. ~IsLast(c) /\ call'[c] = x /\ Busy(c)
        BY <2>1, <3>2, <1>c DEF Collected
      <4>2. y.count <= Offset(y.next) /\ Len(y.got) = IF y.op = "read" THEN y.count ELSE 0
        BY <4>1, <1>0 DEF SoFar
      <4>3. Offset(y.next) \in Nat /\ Offset(y.next + 1) = Offset(y.next) + Part(y.len, y.next)
            /\ Part(y.len, y.next) \in Nat
        BY <4>1, <1>c, PartFacts DEF IsLast, Collected
      <4>g. y.got \in Seq(Units) /\ a.data \in Seq(Units)
        BY <1>c DEF Collected
      <4>4. Len(y.got \o a.data) = Len(y.got) + Len(a.data)
        BY <4>g, ConcatProperties
      <4> DEFINE g == y.got \o a.data
      <4>5. /\ a.res \in Nat /\ a.res <= Part(y.len, y.next) /\ y.count \in Nat
            /\ Len(a.data) = IF y.op = "read" THEN a.res ELSE 0
            /\ x.op = y.op /\ x.count = y.count + a.res /\ x.next = y.next + 1
            /\ x.got = g
        BY <1>c DEF Collected
      <4>n. Len(g) = Len(y.got) + Len(a.data)
        BY <4>4
      <4> HIDE DEF x, y, g
      <4>6. x.count <= Offset(x.next)
        BY <4>2, <4>3, <4>5
      <4>7. Len(x.got) = IF x.op = "read" THEN x.count ELSE 0
        BY <4>2, <4>n, <4>5
      <4>8. QED
        BY <4>1, <4>6, <4>7, <3>2
    <3>3. QED
      BY <3>1, <3>2
  <2>2. QED
    BY <2>1 DEF SoFar
<1>10. Capacity'
  <2>1. /\ pending' \subseteq pending
        /\ \A f \in pending' : /\ call'[f[1]].op = call[f[1]].op
                               /\ call'[f[1]].start = call[f[1]].start
                               /\ call'[f[1]].len = call[f[1]].len
    BY <1>1, <1>6
  <2>2. QED
    BY <2>1, <1>0, <1>1, CapacityKept
<1>11. QED
  BY <1>3, <1>5, <1>7, <1>8, <1>9, <1>10 DEF Typed

\* What is kept of a call that gave up, as long as fragments of it are left.
Remains(y) == [Done EXCEPT !.op = y.op, !.start = y.start, !.len = y.len]

(* What is kept of a call that gave up, field by field. *)
LEMMA RemainsRecord ==
    ASSUME NEW y \in CallRecord
    PROVE  /\ Remains(y) \in CallRecord
           /\ Remains(y).state = "done" /\ Remains(y).touched = {} /\ Remains(y).sure = {}
           /\ Remains(y).next = 1 /\ Remains(y).got = <<>> /\ Remains(y).count = 0
           /\ Remains(y).op = y.op /\ Remains(y).start = y.start /\ Remains(y).len = y.len
<1>1. Remains(y) \in CallRecord
  BY DoneIs, Zenon DEF CallRecord, Remains
<1>2. /\ Remains(y).state = "done" /\ Remains(y).touched = {} /\ Remains(y).sure = {}
      /\ Remains(y).next = 1 /\ Remains(y).got = <<>> /\ Remains(y).count = 0
      /\ Remains(y).op = y.op /\ Remains(y).start = y.start /\ Remains(y).len = y.len
  BY Zenon DEF Remains, Done, NoCall
<1>3. QED
  BY <1>1, <1>2

\* What giving up does.
GaveUp(c) ==
    /\ Busy(c) /\ call[c] \in CallRecord /\ call[c].op \in IOOps
    /\ call[c].len \in Nat \ {0} /\ call[c].start \in Nat \ {0}
    /\ pending' \subseteq pending
    /\ \A f \in pending : f[1] # c => f \in pending'
    /\ call'[c] \in CallRecord
    /\ call'[c].state = "done" /\ call'[c].touched = {} /\ call'[c].sure = {}
    /\ call'[c].next = 1 /\ call'[c].got = <<>> /\ call'[c].count = 0
    /\ \/ /\ call'[c].op = "none" /\ call'[c].len = 0 /\ call'[c].start = 1
          /\ \A f \in pending' : f[1] # c
       \/ /\ call'[c].op = call[c].op /\ call'[c].len = call[c].len
          /\ call'[c].start = call[c].start
    /\ call' \in [Calls -> CallRecord]
    /\ \A d \in Calls : d # c => call'[d] = call[d] /\ (Busy(d)' <=> Busy(d))
    /\ ~Busy(c)'
    /\ answers' = {a \in answers : a.frag[1] # c}
    /\ unsure' = IF call[c].op = "read" THEN unsure ELSE unsure \cup call[c].touched
    /\ file' = file /\ faults' \in 0..MaxFaults

(* A call gives up: any part of its pending fragments is left. *)
LEMMA GiveUpIs ==
    ASSUME Typed, NEW c \in Calls, GiveUp(c)
    PROVE  GaveUp(c)
<1> DEFINE y == call[c]
           mine == {f \in pending : f[1] = c}
<1>0. FileTyped /\ CallsTyped
  BY DEF Typed
<1>1. /\ Busy(c) /\ file' = file
      /\ answers' = {a \in answers : a.frag[1] # c}
      /\ unsure' = IF y.op = "read" THEN unsure ELSE unsure \cup y.touched
      /\ faults' = faults \/ Fault
  BY DEF GiveUp
<1>2. PICK left \in SUBSET mine :
        /\ pending' = (pending \ mine) \cup left
        /\ call' = [call EXCEPT ![c] = IF left = {} THEN Done
                      ELSE [Done EXCEPT !.op = y.op, !.start = y.start, !.len = y.len]]
  BY DEF GiveUp
<1>3. call' = [call EXCEPT ![c] = IF left = {} THEN Done ELSE Remains(y)]
  BY <1>2, Zenon DEF Remains
<1>4. faults' \in 0..MaxFaults
  BY <1>0, <1>1, SizeFacts DEF FileTyped, Fault
<1>5. /\ y \in CallRecord /\ y.op \in IOOps /\ y.len \in Nat \ {0} /\ y.start \in Nat \ {0}
  BY <1>0, <1>1, CallFacts
<1> HIDE DEF y
<1>6. pending' \subseteq pending /\ \A f \in pending : f[1] # c => f \in pending'
  BY <1>2
<1>7. /\ call'[c] = IF left = {} THEN Done ELSE Remains(y)
      /\ \A d \in Calls : d # c => call'[d] = call[d]
  BY <1>0, <1>3 DEF CallsTyped
<1>8. /\ call'[c] \in CallRecord
      /\ call'[c].state = "done" /\ call'[c].touched = {} /\ call'[c].sure = {}
      /\ call'[c].next = 1 /\ call'[c].got = <<>> /\ call'[c].count = 0
  BY <1>5, <1>7, DoneIs, RemainsRecord
<1>9. \/ /\ call'[c].op = "none" /\ call'[c].len = 0 /\ call'[c].start = 1
         /\ \A f \in pending' : f[1] # c
      \/ /\ call'[c].op = y.op /\ call'[c].len = y.len /\ call'[c].start = y.start
  <2>1. CASE left = {}
    <3>1. \A f \in pending' : f[1] # c
      BY <2>1, <1>2
    <3>2. QED
      BY <2>1, <3>1, <1>7, DoneIs
  <2>2. CASE left # {}
    BY <2>2, <1>5, <1>7, RemainsRecord
  <2>3. QED
    BY <2>1, <2>2
<1>10. call' \in [Calls -> CallRecord]
  BY <1>0, <1>3, <1>7, <1>8 DEF CallsTyped
<1>11. ~Busy(c)' /\ \A d \in Calls : d # c => (Busy(d)' <=> Busy(d))
  BY <1>7, <1>8 DEF Busy
<1>12. QED
  BY <1>1, <1>4, <1>5, <1>6, <1>7, <1>8, <1>9, <1>10, <1>11 DEF GaveUp, y

(* Giving up keeps the types. *)
LEMMA GiveUpTyped ==
    ASSUME Typed, NEW c \in Calls, GiveUp(c)
    PROVE  Typed'
<1>0. FileTyped /\ CallsTyped /\ PendingTyped /\ AnswersTyped /\ SoFar /\ Capacity
  BY DEF Typed
<1>c. GaveUp(c)
  BY GiveUpIs
<1>1. FileTyped'
  BY <1>0, <1>c DEF FileTyped, GaveUp, CallRecord
<1>2. CallsTyped'
  <2>1. ASSUME NEW d \in Calls
        PROVE  /\ call'[d].state = "idle" => call'[d] = NoCall
               /\ call'[d].op = "none" => ~Busy(d)' /\ call'[d].len = 0 /\ call'[d].start = 1
               /\ call'[d].op # "none" => call'[d].len >= 1
                                          /\ call'[d].start + call'[d].len - 1 <= Size
               /\ ~Busy(d)' => call'[d].touched = {} /\ call'[d].sure = {} /\ call'[d].next = 1
                              /\ call'[d].got = <<>> /\ call'[d].count = 0
               /\ Busy(d)' => call'[d].next \in Fragments(call'[d].len)
    <3>1. CASE d = c
      <4>1. call[c].op # "none" /\ call[c].len >= 1 /\ call[c].start + call[c].len - 1 <= Size
        BY <1>0, <1>c, CallFacts DEF GaveUp
      <4>2. QED
        BY <3>1, <4>1, <1>c DEF GaveUp
    <3>2. CASE d # c
      BY <3>2, <1>0, <1>c DEF CallsTyped, GaveUp
    <3>3. QED
      BY <3>1, <3>2
  <2>2. call' \in [Calls -> CallRecord]
    BY <1>c DEF GaveUp
  <2>3. QED
    BY <2>1, <2>2 DEF CallsTyped
<1>3. \A f \in pending' : /\ f \in pending /\ f[1] \in Calls
                          /\ call'[f[1]].op = call[f[1]].op
                          /\ call'[f[1]].start = call[f[1]].start
                          /\ call'[f[1]].len = call[f[1]].len
                          /\ f[1] # c => call'[f[1]] = call[f[1]] /\ (Busy(f[1])' <=> Busy(f[1]))
  <2>1. ASSUME NEW f \in pending'
        PROVE  /\ f \in pending /\ f[1] \in Calls
               /\ call'[f[1]].op = call[f[1]].op
               /\ call'[f[1]].start = call[f[1]].start
               /\ call'[f[1]].len = call[f[1]].len
               /\ f[1] # c => call'[f[1]] = call[f[1]] /\ (Busy(f[1])' <=> Busy(f[1]))
    <3>1. f \in pending /\ f[1] \in Calls
      BY <1>0, <1>c DEF PendingTyped, GaveUp
    <3>2. QED
      BY <3>1, <1>c DEF GaveUp
  <2>2. QED
    BY <2>1
<1>4. ~Busy(c)' /\ pending' \subseteq pending
  BY <1>c DEF GaveUp
<1>5. PendingTyped'
  BY <1>0, <1>3, <1>4 DEF PendingTyped
<1>6. AnswersTyped'
  <2>1. ASSUME NEW b \in answers'
        PROVE  /\ b \in answers /\ call'[b.frag[1]] = call[b.frag[1]] /\ Busy(b.frag[1])'
               /\ b.frag \notin pending'
    <3>1. b \in answers /\ b.frag[1] # c
      BY <1>c DEF GaveUp
    <3>2. b.frag[1] \in Calls /\ Busy(b.frag[1]) /\ b.frag \notin pending
      BY <3>1, <1>0 DEF AnswersTyped, AnswerRecord
    <3>3. QED
      BY <3>1, <3>2, <1>c DEF GaveUp
  <2>2. QED
    BY <1>0, <2>1 DEF AnswersTyped
<1>7. SoFar'
  <2>1. ASSUME NEW d \in Calls, Busy(d)' PROVE Busy(d) /\ call'[d] = call[d]
    BY <2>1, <1>c DEF GaveUp
  <2>2. QED
    BY <2>1, <1>0 DEF SoFar
<1>8. Capacity'
  <2>1. file' = file
    BY <1>c DEF GaveUp
  <2>2. QED
    BY <2>1, <1>0, <1>3, <1>4, CapacityKept
<1>9. QED
  BY <1>1, <1>2, <1>5, <1>6, <1>7, <1>8 DEF Typed

-----------------------------------------------------------------------------
(* What the execution of a fragment does. *)

\* What the execution of a read does...
ReadDone(f, data) ==
    /\ call[f[1]].op = "read"
    /\ Answer(f, Len(data), data)
    /\ file' = file /\ call' = call /\ unsure' = unsure /\ faults' = faults
    /\ data \in Seq(Units)
    /\ Len(data) = IF Len(file) < First(f) THEN 0
                   ELSE IF First(f) + Share(f) - 1 <= Len(file) THEN Share(f)
                   ELSE Len(file) - First(f) + 1
    /\ \A i \in 1..Len(data) : data[i] = file[First(f) + i - 1]

\* ...that of n units of a write...
WriteDone(f, n) ==
    /\ call[f[1]].op # "read"
    /\ n \in Nat \ {0} /\ n <= Share(f)
    /\ Answer(f, n, <<>>)
    /\ call' = call /\ unsure' = unsure /\ faults' \in 0..MaxFaults
    /\ file' \in Seq(Units)
    /\ Len(file') = IF Len(file) <= First(f) + n - 1 THEN First(f) + n - 1 ELSE Len(file)
    /\ \A k \in 1..Len(file') :
        file'[k] = IF First(f) <= k /\ k <= First(f) + n - 1
                   THEN Unit(f[1], Offset(f[2]) + k - First(f) + 1)
                   ELSE IF k <= Len(file) THEN file[k] ELSE Zero

\* ...and one that fails.
FailDone(f) ==
    /\ Answer(f, -1, <<>>)
    /\ file' = file /\ call' = call /\ unsure' = unsure /\ faults' \in 0..MaxFaults

(* What the execution of a read does: it takes what there is of its place. *)
LEMMA ExecuteReadIs ==
    ASSUME Typed, NEW f \in pending, ExecuteRead(f)
    PROVE  \E data : ReadDone(f, data)
<1> DEFINE s == First(f)
           e == First(f) + Share(f) - 1
           last == Min({Max(Target(f)), Len(file)})
           data == SubSeq(file, Min(Target(f)), last)
<1>1. /\ s \in Nat \ {0} /\ Share(f) \in Nat \ {0} /\ e = s + Share(f) - 1
      /\ Min(Target(f)) = s /\ Max(Target(f)) = e
  BY FragmentOf DEF Typed
<1>2. Len(file) \in Nat /\ \A k \in 1..Len(file) : file[k] \in Units
  BY DEF Typed, FileTyped
<1>3. e \in Int /\ e >= s
  BY <1>1
<1> HIDE DEF s, e
<1>4. last = IF e <= Len(file) THEN e ELSE Len(file)
  BY <1>1, <1>2, <1>3, MinIs
<1> HIDE DEF last
<1>5. /\ data \in Seq(Units)
      /\ Len(data) = IF s <= last THEN last - s + 1 ELSE 0
      /\ \A i \in 1..(last - s + 1) : data[i] = file[s + i - 1]
  <2>1. \A i \in s..last : file[i] \in Units
    BY <1>1, <1>2, <1>3, <1>4
  <2>2. s \in Int /\ last \in Int
    BY <1>1, <1>2, <1>3, <1>4
  <2>3. QED
    BY <2>1, <2>2, <1>1, SubSeqProperties
<1>6. /\ call[f[1]].op = "read" /\ Answer(f, Len(data), data)
      /\ file' = file /\ call' = call /\ unsure' = unsure /\ faults' = faults
  BY DEF ExecuteRead, last
<1> HIDE DEF data
<1>7. Len(data) = IF Len(file) < s THEN 0 ELSE IF e <= Len(file) THEN Share(f)
                  ELSE Len(file) - s + 1
  BY <1>1, <1>2, <1>3, <1>4, <1>5
<1>8. \A i \in 1..Len(data) : data[i] = file[s + i - 1]
  BY <1>1, <1>2, <1>3, <1>4, <1>5
<1>9. ReadDone(f, data)
  BY <1>5, <1>6, <1>7, <1>8 DEF ReadDone, s, e
<1>10. QED
  BY <1>9

(* What the execution of a write does: its first n units are put at its place. *)
LEMMA ExecuteWriteIs ==
    ASSUME Typed, NEW f \in pending, ExecuteWrite(f)
    PROVE  \E n \in Nat : WriteDone(f, n)
<1>1. /\ First(f) \in Nat \ {0} /\ Share(f) \in Nat \ {0}
      /\ Min(Target(f)) = First(f) /\ BlockSize(f[1], f[2]) = Share(f)
      /\ f[1] \in Calls /\ Offset(f[2]) \in Nat /\ Offset(f[2]) + Share(f) <= call[f[1]].len
      /\ call[f[1]].op \in IOOps
  BY FragmentOf DEF Typed
<1>2. call[f[1]].len \in Nat /\ call[f[1]].len <= Size /\ Size \in Nat
  BY <1>1, CallFacts, SizeFacts DEF Typed, IOOps
<1>3. PICK n \in 1..Share(f) :
        /\ faults' = faults \/ Fault
        /\ file' = Overlay(f[1], Offset(f[2]), First(f) .. (First(f) + n - 1))
        /\ Answer(f, n, <<>>)
  BY <1>1 DEF ExecuteWrite
<1>4. n \in Nat \ {0} /\ n <= Share(f) /\ Offset(f[2]) + n <= Size
  BY <1>1, <1>2, <1>3
<1>5. /\ file' \in Seq(Units)
      /\ Len(file') = IF Len(file) <= First(f) + n - 1 THEN First(f) + n - 1 ELSE Len(file)
      /\ \A k \in 1..Len(file') :
           file'[k] = IF First(f) <= k /\ k <= First(f) + n - 1
                      THEN Unit(f[1], Offset(f[2]) + k - First(f) + 1)
                      ELSE IF k <= Len(file) THEN file[k] ELSE Zero
  <2> DEFINE s == First(f)
             c == f[1]
             o == Offset(f[2])
             g == Overlay(c, o, s .. (s + n - 1))
  <2>1. /\ FileTyped /\ c \in Calls /\ o \in Nat /\ s \in Nat \ {0} /\ n \in Nat \ {0}
        /\ o + n <= Size
    BY <1>1, <1>4 DEF Typed
  <2>2. file' = g
    BY <1>3
  <2> HIDE DEF s, c, o
  <2>3. /\ g \in Seq(Units)
        /\ Len(g) = IF Len(file) <= s + n - 1 THEN s + n - 1 ELSE Len(file)
        /\ \A k \in 1..Len(g) : g[k] = IF s <= k /\ k <= s + n - 1 THEN Unit(c, o + k - s + 1)
                                       ELSE IF k <= Len(file) THEN file[k] ELSE Zero
    BY <2>1, OverlayIs
  <2> HIDE DEF g
  <2>4. QED
    BY <2>2, <2>3 DEF s, c, o
<1>6. faults' \in 0..MaxFaults
  BY <1>3, SizeFacts DEF Typed, FileTyped, Fault
<1>7. call[f[1]].op # "read" /\ call' = call /\ unsure' = unsure
  BY DEF ExecuteWrite
<1>8. WriteDone(f, n)
  BY <1>3, <1>4, <1>5, <1>6, <1>7 DEF WriteDone
<1>9. QED
  BY <1>4, <1>8

(* What a command that fails does: nothing but to answer. *)
LEMMA ExecuteFailsIs ==
    ASSUME Typed, NEW f \in pending, ExecuteFails(f)
    PROVE  FailDone(f)
<1>1. faults' \in 0..MaxFaults
  BY SizeFacts DEF Typed, FileTyped, Fault, ExecuteFails
<1>2. QED
  BY <1>1 DEF ExecuteFails, FailDone

(* Whatever the execution of a fragment does, it keeps the types. *)
LEMMA ExecuteTyped ==
    ASSUME Typed, NEW f \in pending,
           \/ \E data : ReadDone(f, data)
           \/ \E n \in Nat : WriteDone(f, n)
           \/ FailDone(f)
    PROVE  Typed'
<1>0. /\ First(f) \in Nat \ {0} /\ Share(f) \in Nat \ {0} /\ Share(f) <= Size
      /\ Target(f) = First(f) .. (First(f) + Share(f) - 1)
  BY FragmentOf DEF Typed
<1>1. file \in Seq(Units) /\ Len(file) \in Nat /\ faults \in 0..MaxFaults
  BY DEF Typed, FileTyped
<1>2. ASSUME NEW data, ReadDone(f, data) PROVE Typed'
  <2>1. /\ call[f[1]].op = "read" /\ Answer(f, Len(data), data)
        /\ file' = file /\ call' = call /\ unsure' = unsure /\ faults' = faults
        /\ data \in Seq(Units)
    BY <1>2 DEF ReadDone
  <2>2. Len(data) \in -1..Share(f)
    <3>1. Len(data) = IF Len(file) < First(f) THEN 0
                      ELSE IF First(f) + Share(f) - 1 <= Len(file) THEN Share(f)
                      ELSE Len(file) - First(f) + 1
      BY <1>2 DEF ReadDone
    <3>2. QED
      BY <3>1, <1>0, <1>1
  <2>3. Len(data) >= 0 => Len(data) = IF call[f[1]].op = "read" THEN Len(data) ELSE 0
    BY <2>1
  <2>4. file' \in Seq(Units) /\ Len(file) <= Len(file') /\ faults' \in 0..MaxFaults
    BY <2>1, <1>1
  <2>5. QED
    BY <2>1, <2>2, <2>3, <2>4, ExecutionTyped
<1>3. ASSUME NEW n \in Nat, WriteDone(f, n) PROVE Typed'
  <2>1. /\ call[f[1]].op # "read" /\ Answer(f, n, <<>>)
        /\ call' = call /\ unsure' = unsure /\ faults' \in 0..MaxFaults
        /\ file' \in Seq(Units)
        /\ n \in Nat \ {0} /\ n <= Share(f)
        /\ Len(file') = IF Len(file) <= First(f) + n - 1 THEN First(f) + n - 1 ELSE Len(file)
    BY <1>3 DEF WriteDone
  <2>2. n \in -1..Share(f) /\ <<>> \in Seq(Units) /\ Len(<<>>) = 0
    BY <2>1, <1>0
  <2>3. Len(file) <= Len(file')
    BY <2>1, <1>0, <1>1
  <2>4. call[f[1]].op = "append" => Len(file') <= Len(file) + Share(f)
    BY <2>1, <1>0, <1>1 DEF First
  <2>5. call[f[1]].op # "append" => Len(file') \in {Len(file)} \cup Target(f)
    BY <2>1, <1>0, <1>1
  <2>6. n >= 0 => Len(<<>>) = IF call[f[1]].op = "read" THEN n ELSE 0
    BY <2>1
  <2>7. QED
    BY <2>1, <2>2, <2>3, <2>4, <2>5, <2>6, ExecutionTyped
<1>4. ASSUME FailDone(f) PROVE Typed'
  <2>1. /\ Answer(f, -1, <<>>) /\ file' = file /\ call' = call /\ unsure' = unsure
        /\ faults' \in 0..MaxFaults
    BY <1>4 DEF FailDone
  <2>2. -1 \in -1..Share(f) /\ <<>> \in Seq(Units)
    BY <1>0
  <2>3. file' \in Seq(Units) /\ Len(file) <= Len(file')
    BY <2>1, <1>1
  <2>4. -1 >= 0 => Len(<<>>) = IF call[f[1]].op = "read" THEN -1 ELSE 0
    OBVIOUS
  <2>5. QED
    BY <2>1, <2>2, <2>3, <2>4, ExecutionTyped
<1>5. QED
  BY <1>2, <1>3, <1>4

-----------------------------------------------------------------------------
(* What the start of a call does. *)

\* The record of a call that begins.
Opened(op, start, len, touched, sure) ==
    [[NoCall EXCEPT !.op = op, !.state = "busy", !.start = start, !.len = len]
        EXCEPT !.touched = touched, !.sure = sure]

(* A call that begins, field by field. *)
LEMMA OpenedIs ==
    ASSUME NEW op \in IOOps, NEW start \in Nat \ {0}, NEW len \in Nat,
           NEW touched \in SUBSET Cells, NEW sure \in SUBSET Cells
    PROVE  LET x == Opened(op, start, len, touched, sure)
           IN  /\ x \in CallRecord
               /\ x.state = "busy" /\ x.op = op /\ x.start = start /\ x.len = len
               /\ x.touched = touched /\ x.sure = sure
               /\ x.next = 1 /\ x.got = <<>> /\ x.count = 0
<1> DEFINE x == Opened(op, start, len, touched, sure)
<1>1. /\ x.state = "busy" /\ x.op = op /\ x.start = start /\ x.len = len
      /\ x.touched = touched /\ x.sure = sure
      /\ x.next = 1 /\ x.got = <<>> /\ x.count = 0
  BY Zenon DEF Opened, NoCall
<1>2. x \in CallRecord
  <2>1. <<>> \in Seq(Units) /\ 1 \in Nat \ {0} /\ 0 \in Nat /\ {} \in SUBSET Cells
    BY EmptySeq
  <2>2. op \in IOOps \cup {"none"} /\ start \in Nat \ {0} /\ len \in Nat
    OBVIOUS
  <2>3. "busy" \in {"idle", "busy", "done"}
    OBVIOUS
  <2>4. QED
    BY <2>1, <2>2, <2>3, Zenon DEF Opened, NoCall, CallRecord
<1>3. QED
  BY <1>1, <1>2

\* Nothing is sure of a read, as of no call.
LEMMA OpenedUnsure ==
    ASSUME NEW op, NEW start, NEW len, NEW touched
    PROVE  [[NoCall EXCEPT !.op = op, !.state = "busy", !.start = start, !.len = len]
                EXCEPT !.touched = touched] = Opened(op, start, len, touched, {})
<1> DEFINE b == [NoCall EXCEPT !.op = op, !.state = "busy", !.start = start, !.len = len]
           v == [b EXCEPT !.touched = touched]
           x == [b EXCEPT !.touched = touched, !.sure = {}]
<1>1. v = [f \in DOMAIN NoCall |-> v[f]] /\ x = [f \in DOMAIN NoCall |-> x[f]]
  BY Zenon DEF NoCall
<1>2. \A f \in DOMAIN NoCall : f \notin {"touched", "sure"} => v[f] = b[f] /\ x[f] = b[f]
  BY Zenon
<1>3. v.touched = touched /\ x.touched = touched /\ v.sure = {} /\ x.sure = {}
  BY Zenon DEF NoCall
<1>4. v = x
  <2> HIDE DEF v, x, b
  <2>1. \A f \in DOMAIN NoCall : v[f] = x[f]
    BY <1>2, <1>3, Zenon
  <2>2. [f \in DOMAIN NoCall |-> v[f]] = [f \in DOMAIN NoCall |-> x[f]]
    BY <2>1
  <2>3. QED
    BY <1>1, <2>2, Zenon
<1>5. QED
  BY <1>4, Zenon DEF Opened

\* What the start of a call does.
Began(c, x) ==
    /\ NewCall(x) /\ Start(c, x)
    /\ call[c].state = "idle" /\ ~Busy(c) /\ call[c] = NoCall
    /\ call' = [call EXCEPT ![c] = x] /\ call'[c] = x
    /\ \A d \in Calls : d # c => call'[d] = call[d] /\ (Busy(d)' <=> Busy(d))
    /\ Busy(c)'
    /\ x.len \in Nat \ {0} /\ x.start \in Nat \ {0}
    /\ Place(x) \subseteq x.touched /\ x.sure \subseteq x.touched /\ x.touched \subseteq Cells
    /\ x.op = "read" => x.touched = Place(x) /\ x.sure = {}
    /\ x.op = "write" =>
        /\ x.touched = Place(x) \cup {k \in Cells : Len(file) < k /\ k < x.start}
        /\ x.sure = x.touched \ Late
    /\ x.op = "append" =>
        /\ x.start = Len(file) + 1
        /\ x.touched = {k \in Cells : k >= x.start}
        /\ x.sure = IF Late = {} THEN x.touched ELSE {}
    /\ file' = file /\ answers' = answers /\ faults' = faults /\ unsure' = unsure
    /\ pending' = pending \cup ({c} \X Fragments(x.len))
    /\ \A f \in pending : f[1] # c
    /\ \A a \in answers : a.frag[1] # c
    /\ \A d \in Calls : Busy(d) =>
        \/ x.op = "read" /\ call[d].op = "read"
        \/ "read" \in {x.op, call[d].op} /\ x.touched \cap call[d].touched = {}

(* The start of a call with given parameters. *)
LEMMA BeganIs ==
    ASSUME Typed, NEW c \in Calls, NEW op \in IOOps, NEW start \in Nat \ {0}, NEW len \in Cells,
           NEW touched, NEW sure, Start(c, Opened(op, start, len, touched, sure)),
           op # "append" => start \in Cells,
           op = "append" => start = Len(file) + 1 /\ touched = {k \in Cells : k >= start},
           op = "read" => touched = start .. (start + len - 1) /\ sure = {},
           op = "write" =>
             /\ touched = start .. (start + len - 1) \cup {k \in Cells : Len(file) < k /\ k < start}
             /\ sure = touched \ Late,
           op = "append" => sure = IF Late = {} THEN touched ELSE {}
    PROVE  Began(c, Opened(op, start, len, touched, sure))
<1> DEFINE x == Opened(op, start, len, touched, sure)
<1>0. FileTyped /\ CallsTyped /\ PendingTyped /\ AnswersTyped
  BY DEF Typed
<1>1. len \in Nat \ {0} /\ Size \in Nat /\ Len(file) \in Nat
  BY <1>0, SizeFacts DEF FileTyped
<1>2. x.op = op /\ x.start = start /\ x.len = len
  BY Zenon DEF Opened, NoCall
<1>3. Fits(x) /\ call[c].state = "idle"
  BY DEF Start
<1>4. Cardinality(Unappended) \in Nat
  BY <1>0, UnappendedFacts
<1>5. ASSUME op # "append", NEW k \in start .. (start + len - 1) PROVE k \in Cells
  <2> HIDE DEF x
  <2>1. k \in Place(x) /\ x.op # "append"
    BY <1>2, <1>5 DEF Place
  <2>2. k + (Cardinality(Unappended) + 0) <= Size
    BY <2>1, <1>3 DEF Fits
  <2>3. QED
    BY <2>2, <1>1, <1>4, <1>5, SizeFacts
<1>6. ASSUME op = "append", NEW k \in start .. (start + len - 1) PROVE k \in touched
  <2> HIDE DEF x
  <2>1. Len(file) + (Cardinality(Unappended) + len) <= Size
    BY <1>2, <1>3, <1>6 DEF Fits
  <2>2. QED
    BY <2>1, <1>1, <1>4, <1>6, SizeFacts
<1>7. touched \in SUBSET Cells /\ sure \subseteq touched
        /\ start .. (start + len - 1) \subseteq touched
  BY <1>5, <1>6 DEF IOOps
<1>8. /\ x \in CallRecord
      /\ x.state = "busy" /\ x.op = op /\ x.start = start /\ x.len = len
      /\ x.touched = touched /\ x.sure = sure
      /\ x.next = 1 /\ x.got = <<>> /\ x.count = 0
  <2>1. len \in Nat /\ sure \in SUBSET Cells
    BY <1>1, <1>7
  <2>2. QED
    BY <2>1, <1>7, OpenedIs
<1>s. Start(c, x)
  OBVIOUS
<1> HIDE DEF x
<1>9. NewCall(x)
  BY <1>8 DEF NewCall
<1>10. /\ call' = [call EXCEPT ![c] = x]
       /\ pending' = pending \cup ({c} \X Fragments(x.len))
       /\ file' = file /\ answers' = answers /\ faults' = faults /\ unsure' = unsure
       /\ \A d \in Calls : Busy(d) =>
            \/ {x.op, call[d].op} = {"read"}
            \/ "read" \in {x.op, call[d].op} /\ x.touched \cap call[d].touched = {}
  BY <1>s DEF Start
<1>11. call'[c] = x /\ \A d \in Calls : d # c => call'[d] = call[d]
  BY <1>0, <1>10 DEF CallsTyped
<1>12. Busy(c)' /\ ~Busy(c) /\ call[c] = NoCall
       /\ \A d \in Calls : d # c => (Busy(d)' <=> Busy(d))
  BY <1>0, <1>3, <1>8, <1>11 DEF Busy, CallsTyped
<1>13. \A f \in pending : f[1] # c
  BY <1>0, <1>3, <1>12 DEF PendingTyped, NoCall
<1>14. \A a \in answers : a.frag[1] # c
  BY <1>0, <1>12 DEF AnswersTyped
<1>15. Place(x) \subseteq x.touched
  BY <1>7, <1>8 DEF Place
<1>16. /\ x.op = "read" => x.touched = Place(x) /\ x.sure = {}
       /\ x.op = "write" =>
            /\ x.touched = Place(x) \cup {k \in Cells : Len(file) < k /\ k < x.start}
            /\ x.sure = x.touched \ Late
       /\ x.op = "append" =>
            /\ x.start = Len(file) + 1
            /\ x.touched = {k \in Cells : k >= x.start}
            /\ x.sure = IF Late = {} THEN x.touched ELSE {}
  BY <1>8 DEF Place
<1>17. \A d \in Calls : Busy(d) =>
        \/ x.op = "read" /\ call[d].op = "read"
        \/ "read" \in {x.op, call[d].op} /\ x.touched \cap call[d].touched = {}
  BY <1>10
<1>18. Began(c, x)
  BY <1>1, <1>3, <1>7, <1>8, <1>9, <1>s, <1>10, <1>11, <1>12, <1>13, <1>14, <1>15, <1>16, <1>17
       DEF Began
<1>19. QED
  BY <1>18 DEF x

(* Reads, writes and appends begin in the same way. *)
LEMMA StartIs ==
    ASSUME Typed, NEW c \in Calls,
           \/ \E start, len \in Cells : Read(c, start, len) \/ Write(c, start, len)
           \/ \E len \in Cells : WriteAtEnd(c, len)
    PROVE  \E x : Began(c, x)
<1>0. Cells \subseteq Nat \ {0} /\ Len(file) \in Nat
  BY SizeFacts DEF Typed, FileTyped
<1>1. ASSUME NEW start \in Cells, NEW len \in Cells, Read(c, start, len) PROVE \E x : Began(c, x)
  <2> DEFINE w == [NoCall EXCEPT !.op = "read", !.state = "busy", !.start = start, !.len = len]
             x == Opened("read", start, len, start .. (start + len - 1), {})
  <2>1. Place(w) = start .. (start + len - 1)
    <3>1. w.start = start /\ w.len = len
      BY DEF NoCall
    <3> HIDE DEF w
    <3>2. QED
      BY <3>1 DEF Place
  <2>2. Start(c, [w EXCEPT !.touched = Place(w)])
    BY <1>1 DEF Read
  <2>3. [w EXCEPT !.touched = start .. (start + len - 1)] = x
    <3> DEFINE t == start .. (start + len - 1)
    <3> HIDE DEF t
    <3>1. [w EXCEPT !.touched = t] = Opened("read", start, len, t, {})
      BY OpenedUnsure, Zenon
    <3>2. QED
      BY <3>1 DEF t
  <2>4. Start(c, x)
    BY <2>1, <2>2, <2>3
  <2>5. "read" \in IOOps /\ start \in Nat \ {0} /\ "read" # "append" /\ "read" # "write"
    BY <1>0 DEF IOOps
  <2>6. Began(c, x)
    BY <2>4, <2>5, BeganIs
  <2>7. QED
    BY <2>6
<1>2. ASSUME NEW start \in Cells, NEW len \in Cells, Write(c, start, len) PROVE \E x : Began(c, x)
  <2> DEFINE w == [NoCall EXCEPT !.op = "write", !.state = "busy", !.start = start, !.len = len]
             t == start .. (start + len - 1) \cup {k \in Cells : Len(file) < k /\ k < start}
             x == Opened("write", start, len, t, t \ Late)
  <2>1. Place(w) = start .. (start + len - 1)
    <3>1. w.start = start /\ w.len = len
      BY DEF NoCall
    <3> HIDE DEF w
    <3>2. QED
      BY <3>1 DEF Place
  <2>2. Start(c, [w EXCEPT !.touched = Place(w) \cup {k \in Cells : Len(file) < k /\ k < start},
                           !.sure =
                             (Place(w) \cup {k \in Cells : Len(file) < k /\ k < start}) \ Late])
    BY <1>2 DEF Write
  <2>3. Start(c, x)
    BY <2>1, <2>2 DEF Opened
  <2>5. "write" \in IOOps /\ start \in Nat \ {0} /\ "write" # "append" /\ "read" # "write"
    BY <1>0 DEF IOOps
  <2>6. Began(c, x)
    BY <2>3, <2>5, BeganIs
  <2>7. QED
    BY <2>6
<1>3. ASSUME NEW len \in Cells, WriteAtEnd(c, len) PROVE \E x : Began(c, x)
  <2> DEFINE start == Len(file) + 1
             w == [NoCall EXCEPT !.op = "append", !.state = "busy", !.start = start, !.len = len]
             t == {k \in Cells : k >= start}
             u == IF Late = {} THEN t ELSE {}
             x == Opened("append", start, len, t, u)
  <2>1. w.start = start
    BY DEF NoCall
  <2>2. Start(c, [w EXCEPT !.touched = {k \in Cells : k >= w.start},
                           !.sure = IF Late = {} THEN {k \in Cells : k >= w.start} ELSE {}])
    BY <1>3 DEF WriteAtEnd
  <2>3. Start(c, x)
    BY <2>1, <2>2 DEF Opened
  <2>5. "append" \in IOOps /\ start \in Nat \ {0} /\ "write" # "append" /\ "read" # "append"
    BY <1>0 DEF IOOps
  <2>6. Began(c, x)
    BY <2>3, <2>5, BeganIs
  <2>7. QED
    BY <2>6
<1>4. QED
  BY <1>1, <1>2, <1>3

\* A step is one of these.
LEMMA StepIs ==
    ASSUME Typed, [Next]_vars
    PROVE  \/ \E c \in Calls : \E x : Began(c, x)
           \/ \E c \in Calls : \E a \in answers : Collect(c, a)
           \/ \E c \in Calls : GiveUp(c)
           \/ \E f \in pending : \E data : ReadDone(f, data)
           \/ \E f \in pending : \E n \in Nat : WriteDone(f, n)
           \/ \E f \in pending : FailDone(f)
           \/ UNCHANGED vars
<1>1. ASSUME NEW c \in Calls,
             \/ \E start, len \in Cells : Read(c, start, len) \/ Write(c, start, len)
             \/ \E len \in Cells : WriteAtEnd(c, len)
      PROVE  \E x : Began(c, x)
  BY <1>1, StartIs
<1>2. ASSUME NEW f \in pending, ExecuteRead(f) PROVE \E data : ReadDone(f, data)
  BY <1>2, ExecuteReadIs
<1>3. ASSUME NEW f \in pending, ExecuteWrite(f) PROVE \E n \in Nat : WriteDone(f, n)
  BY <1>3, ExecuteWriteIs
<1>4. ASSUME NEW f \in pending, ExecuteFails(f) PROVE FailDone(f)
  BY <1>4, ExecuteFailsIs
<1>5. QED
  BY <1>1, <1>2, <1>3, <1>4 DEF Next

(* A step that changes nothing keeps the types. *)
LEMMA TypedStutters ==
    ASSUME Typed, UNCHANGED vars
    PROVE  Typed'
<1>1. /\ file' = file /\ call' = call /\ pending' = pending /\ answers' = answers
      /\ faults' = faults /\ unsure' = unsure
  BY DEF vars
<1>2. FileTyped' /\ CallsTyped' /\ PendingTyped' /\ AnswersTyped' /\ SoFar'
  BY <1>1 DEF Typed, FileTyped, CallsTyped, PendingTyped, AnswersTyped, SoFar, Busy
<1>3. \A f : Target(f)' = Target(f)
  BY <1>1 DEF Target, BlockSize
<1>4. Unappended' = Unappended
  BY <1>1 DEF Unappended, BlockSize
<1>5. Capacity'
  BY <1>1, <1>3, <1>4 DEF Typed, Capacity
<1>6. QED
  BY <1>2, <1>5 DEF Typed

(* Every step keeps the types. *)
LEMMA TypedNext ==
    ASSUME Typed, [Next]_vars
    PROVE  Typed'
<1>1. ASSUME NEW c \in Calls, NEW x, Began(c, x) PROVE Typed'
  BY <1>1, StartTyped DEF Began
<1>2. ASSUME NEW c \in Calls, NEW a \in answers, Collect(c, a) PROVE Typed'
  BY <1>2, CollectTyped
<1>3. ASSUME NEW c \in Calls, GiveUp(c) PROVE Typed'
  BY <1>3, GiveUpTyped
<1>4. ASSUME NEW f \in pending, \/ \E data : ReadDone(f, data)
                                \/ \E n \in Nat : WriteDone(f, n)
                                \/ FailDone(f)
      PROVE  Typed'
  BY <1>4, ExecuteTyped
<1>5. ASSUME UNCHANGED vars PROVE Typed'
  BY <1>5, TypedStutters
<1>6. QED
  BY <1>1, <1>2, <1>3, <1>4, <1>5, StepIs

(* The types hold initially. *)
LEMMA TypedInit ==
    ASSUME Init
    PROVE  Typed
<1>1. PICK n \in 0..Size : file = [k \in 1..n |-> Unit(0, k)]
  BY DEF Init
<1>2. n \in Nat /\ n <= Size
  BY <1>1, SizeFacts
<1>3. file \in Seq(Units) /\ Len(file) = n
  <2>1. \A k \in 1..n : Unit(0, k) \in Units
    <3>1. \A k \in 1..n : k \in Cells
      BY <1>2, SizeFacts
    <3>2. QED
      BY <3>1, UnitFacts
  <2>2. QED
    BY <1>1, <1>2, <2>1, SeqDef, IsASeq
<1>4. /\ call = [c \in Calls |-> NoCall] /\ pending = {} /\ answers = {} /\ faults = 0
      /\ unsure = {}
  BY DEF Init
<1>5. FileTyped
  BY <1>3, <1>4, SizeFacts DEF FileTyped
<1>6. NoCall \in CallRecord
  <2>1. <<>> \in Seq(Units) /\ 1 \in Nat \ {0} /\ 0 \in Nat /\ {} \in SUBSET Cells
    BY EmptySeq
  <2>2. QED
    BY <2>1, Zenon DEF NoCall, CallRecord
<1>7. \A c \in Calls : call[c] = NoCall
  BY <1>4
<1>8. CallsTyped
  BY <1>4, <1>6, <1>7 DEF CallsTyped, Busy, NoCall
<1>9. PendingTyped /\ AnswersTyped /\ SoFar
  BY <1>4, <1>7 DEF PendingTyped, AnswersTyped, SoFar, Busy, NoCall
<1>10. Capacity
  <2>1. Unappended = {}
    BY <1>4 DEF Unappended
  <2>2. Cardinality(Unappended) = 0
    BY <2>1, FS_EmptySet
  <2>3. QED
    BY <2>2, <1>2, <1>3, <1>4 DEF Capacity
<1>11. QED
  BY <1>5, <1>8, <1>9, <1>10 DEF Typed

(* They imply the type invariant. *)
LEMMA TypedIsTypeOK ==
    ASSUME Typed
    PROVE  TypeOK
<1>0. FileTyped /\ CallsTyped /\ PendingTyped /\ AnswersTyped /\ SoFar /\ Capacity
  BY DEF Typed
<1>1. file \in Contents
  <2>1. Len(file) + Cardinality(Unappended) <= Size /\ Cardinality(Unappended) \in Nat
        /\ Len(file) \in Nat /\ Size \in Nat
    BY <1>0, UnappendedFacts, SizeFacts DEF Capacity, FileTyped
  <2>2. Len(file) <= Size /\ file \in Seq(Units)
    BY <2>1, <1>0 DEF FileTyped
  <2>3. QED
    BY <2>2, ContentsIs
<1>2. ASSUME NEW c \in Calls
      PROVE  /\ call[c].op \in {"none", "read", "write", "append"}
             /\ call[c].start \in 1..(Size + 1)
             /\ call[c].len \in 0..Size
             /\ call[c].state \in {"idle", "busy", "done"}
             /\ call[c].touched \subseteq Cells /\ call[c].sure \subseteq Cells
             /\ call[c].got \in Contents
             /\ call[c].count \in 0..call[c].len
             /\ call[c].next \in 1..(Size + 1)
  <2>1. call[c] \in CallRecord
    BY <1>0, CallFacts
  <2>2. /\ call[c].op \in {"none", "read", "write", "append"}
        /\ call[c].state \in {"idle", "busy", "done"}
        /\ call[c].touched \subseteq Cells /\ call[c].sure \subseteq Cells
        /\ call[c].got \in Seq(Units) /\ call[c].start \in Nat \ {0} /\ call[c].len \in Nat
        /\ call[c].count \in Nat /\ call[c].next \in Nat \ {0}
    BY <2>1 DEF CallRecord, IOOps
  <2>3. Size \in Nat \ {0}
    BY SizeFacts
  <2>4. call[c].start \in 1..(Size + 1) /\ call[c].len \in 0..Size
    <3>1. CASE call[c].op = "none"
      BY <3>1, <2>3, <1>0 DEF CallsTyped
    <3>2. CASE call[c].op # "none"
      <4>1. call[c].start + call[c].len - 1 <= Size /\ call[c].len <= Size /\ call[c].len >= 1
        BY <3>2, <1>0, CallFacts
      <4>2. QED
        BY <4>1, <2>2, <2>3
    <3>3. QED
      BY <3>1, <3>2
  <2>5. /\ call[c].got \in Contents
        /\ call[c].count \in 0..call[c].len
        /\ call[c].next \in 1..(Size + 1)
    <3>1. CASE ~Busy(c)
      <4>1. call[c].got = <<>> /\ call[c].count = 0 /\ call[c].next = 1
        BY <3>1, <1>0 DEF CallsTyped
      <4>2. <<>> \in Seq(Units) /\ Len(<<>>) = 0
        BY EmptySeq
      <4>3. call[c].got \in Contents
        <5>1. Len(call[c].got) <= Size
          BY <4>1, <4>2, <2>3
        <5>2. QED
          BY <5>1, <2>2, ContentsIs
      <4>4. QED
        BY <4>1, <4>3, <2>2, <2>3
    <3>2. CASE Busy(c)
      <4>1. call[c].next \in Fragments(call[c].len) /\ call[c].len \in Nat \ {0}
        BY <3>2, <1>0, CallFacts
      <4>2. /\ Offset(call[c].next) \in Nat /\ call[c].next <= call[c].len
            /\ Offset(call[c].next) + Part(call[c].len, call[c].next) <= call[c].len
            /\ Part(call[c].len, call[c].next) \in Nat
        BY <4>1, PartFacts, SizeFacts
      <4>3. /\ call[c].count <= Offset(call[c].next)
            /\ Len(call[c].got) = IF call[c].op = "read" THEN call[c].count ELSE 0
        BY <3>2, <1>0 DEF SoFar
      <4>4. call[c].count <= call[c].len /\ call[c].len <= Size
        BY <4>1, <4>2, <4>3, <2>2, <2>3, <2>4
      <4>5. Len(call[c].got) <= Size
        BY <4>3, <4>4, <2>2, <2>3
      <4>6. call[c].got \in Contents
        BY <4>5, <2>2, ContentsIs
      <4>7. QED
        BY <4>1, <4>2, <4>4, <4>6, <2>2, <2>3
    <3>3. QED
      BY <3>1, <3>2
  <2>6. QED
    BY <2>2, <2>4, <2>5
<1>3. pending \subseteq Calls \X Cells
  <2>1. ASSUME NEW f \in pending PROVE f \in Calls \X Cells
    BY <1>0, FragmentOf
  <2>2. QED
    BY <2>1
<1>4. ASSUME NEW a \in answers PROVE a.frag \in Calls \X Cells /\ a.res \in -1..Fragment
  <2>1. /\ a \in AnswerRecord /\ Busy(a.frag[1])
        /\ a.frag[2] \in Fragments(call[a.frag[1]].len)
        /\ a.res \in -1..Part(call[a.frag[1]].len, a.frag[2])
    BY <1>0 DEF AnswersTyped
  <2>2. a.frag = <<a.frag[1], a.frag[2]>> /\ a.frag[1] \in Calls /\ a.frag[2] \in Nat \ {0}
    BY <2>1 DEF AnswerRecord
  <2>3. call[a.frag[1]].len \in Nat \ {0} /\ call[a.frag[1]].len <= Size
    BY <2>1, <2>2, <1>0, CallFacts
  <2>4. a.frag[2] <= call[a.frag[1]].len /\ Part(call[a.frag[1]].len, a.frag[2]) \in 1..Fragment
    BY <2>1, <2>3, PartFacts
  <2>5. a.frag[2] \in Cells
    BY <2>2, <2>3, <2>4, SizeFacts
  <2>6. a.res \in -1..Fragment
    BY <2>1, <2>4, SizeFacts
  <2>7. QED
    BY <2>2, <2>5, <2>6
<1>5. faults \in 0..MaxFaults /\ unsure \subseteq Cells
  BY <1>0 DEF FileTyped
<1>6. QED
  BY <1>1, <1>2, <1>3, <1>4, <1>5 DEF TypeOK

\* The calls, fragments and answers are of the kinds the code handles, and what was read or
\* written so far is never more than what the fragments were about.
THEOREM TypeCorrect == Spec => []TypeOK
<1>1. Init => Typed
  BY TypedInit
<1>2. Typed /\ [Next]_vars => Typed'
  BY TypedNext
<1>3. Typed => TypeOK
  BY TypedIsTypeOK
<1>4. QED
  BY <1>1, <1>2, <1>3, PTL DEF Spec

-----------------------------------------------------------------------------
(* What may still be changed by what is pending. *)

\* The places that fragment f may change.
LateOf(f) ==
    IF call[f[1]].op = "append" THEN {k \in Cells : k > Len(file)}
    ELSE Target(f) \cup {k \in Cells : Len(file) < k /\ k < Max(Target(f))}

(* A place may be changed late if a fragment that is left of a failed call may change it. *)
LEMMA LateIs ==
    /\ \A k : k \in Late <=> \E f \in pending : /\ call[f[1]].op # "read" /\ ~Busy(f[1])
                                                /\ k \in LateOf(f)
    /\ \A k : k \in Late' <=> \E f \in pending' : /\ call'[f[1]].op # "read" /\ ~Busy(f[1])'
                                                  /\ k \in LateOf(f)'
BY DEF Late, LateOf

(* The places that a pending fragment may change: its own, and the gap before it. *)
LEMMA LateOfIs ==
    ASSUME Typed, NEW f \in pending
    PROVE  /\ LateOf(f) \subseteq Cells
           /\ \A k \in Cells : k \in LateOf(f) <=>
                IF call[f[1]].op = "append" THEN k > Len(file)
                ELSE k <= First(f) + Share(f) - 1 /\ (First(f) <= k \/ Len(file) < k)
<1> DEFINE s == First(f)
           e == First(f) + Share(f) - 1
<1>1. /\ s \in Nat \ {0} /\ e \in Nat /\ s <= e /\ e <= Size
      /\ Target(f) = s..e /\ Max(Target(f)) = e
  BY FragmentOf, RoomFor DEF Typed
<1>2. Len(file) \in Nat
  BY DEF Typed, FileTyped
<1> HIDE DEF s, e
<1>3. s..e \subseteq Cells
  BY <1>1, SizeFacts
<1>4. LateOf(f) \subseteq Cells
  BY <1>1, <1>3 DEF LateOf
<1>5. ASSUME NEW k \in Cells
      PROVE  k \in LateOf(f) <=> IF call[f[1]].op = "append" THEN k > Len(file)
                                 ELSE k <= e /\ (s <= k \/ Len(file) < k)
  <2>1. k \in Nat
    BY SizeFacts
  <2>2. CASE call[f[1]].op = "append"
    BY <2>2 DEF LateOf
  <2>3. CASE call[f[1]].op # "append"
    <3>1. k \in LateOf(f) <=> k \in s..e \/ (Len(file) < k /\ k < e)
      BY <2>3, <1>1 DEF LateOf
    <3>2. QED
      BY <2>1, <2>3, <3>1, <1>1, <1>2
  <2>4. QED
    BY <2>2, <2>3
<1>6. QED
  BY <1>4, <1>5 DEF s, e

Ranges == Apart /\ Touching /\ LateUnknown /\ LateApart

(* What a fragment of a busy call may change is in the places the call touches. *)
LEMMA BusyTouches ==
    ASSUME Typed, Ranges, NEW f \in pending, Busy(f[1]), call[f[1]].op # "read"
    PROVE  LateOf(f) \subseteq call[f[1]].touched
<1> DEFINE c == f[1]
           x == call[f[1]]
<1>1. /\ c \in Calls /\ x.op \in IOOps /\ Offset(f[2]) \in Nat /\ Share(f) \in Nat \ {0}
      /\ Offset(f[2]) + Share(f) <= x.len /\ First(f) \in Nat \ {0}
  BY FragmentOf DEF Typed
<1>2. x.start \in Nat \ {0} /\ x.len \in Nat /\ Len(file) \in Nat
  BY <1>1, CallFacts DEF Typed, FileTyped, IOOps
<1>3. /\ Place(x) \subseteq x.touched
      /\ x.op = "write" => \A k \in Cells : Len(file) < k /\ k < x.start => k \in x.touched
      /\ x.op = "append" => x.touched = {k \in Cells : k >= x.start} /\ x.start <= Len(file) + 1
  BY <1>1 DEF Ranges, Touching
<1>4. ASSUME NEW k \in LateOf(f) PROVE k \in x.touched
  <2>1. k \in Cells /\ k \in Nat
    BY LateOfIs, SizeFacts
  <2>2. CASE x.op = "append"
    <3>1. k > Len(file)
      BY <2>1, <2>2, LateOfIs
    <3>2. QED
      BY <2>1, <2>2, <3>1, <1>2, <1>3
  <2>3. CASE x.op = "write"
    <3>1. k <= First(f) + Share(f) - 1 /\ (First(f) <= k \/ Len(file) < k)
      BY <2>1, <2>3, LateOfIs
    <3>2. First(f) = x.start + Offset(f[2])
      BY <2>3 DEF First
    <3>3. CASE k < x.start
      BY <3>1, <3>2, <3>3, <2>1, <2>3, <1>1, <1>2, <1>3
    <3>4. CASE k >= x.start
      <4>1. k \in x.start .. (x.start + x.len - 1)
        <5> DEFINE s == First(f)
                   o == Offset(f[2])
                   h == Share(f)
                   a == x.start
                   m == x.len
        <5>1. /\ k <= s + h - 1 /\ s = a + o /\ k >= a /\ o + h <= m
              /\ o \in Nat /\ h \in Nat /\ a \in Nat /\ m \in Nat
          BY <3>1, <3>2, <3>4, <1>1, <1>2
        <5> HIDE DEF s, o, h, a, m
        <5>2. k \in a .. (a + m - 1)
          BY <5>1, <2>1
        <5>3. QED
          BY <5>2 DEF a, m
      <4>2. QED
        BY <4>1, <1>3 DEF Place
    <3>5. QED
      BY <3>3, <3>4, <2>1, <1>2
  <2>4. QED
    BY <2>2, <2>3, <1>1 DEF IOOps
<1>5. QED
  BY <1>4

(* The client does not know what is at a place that a pending write may change. *)
LEMMA PendingUnknown ==
    ASSUME Typed, Ranges, NEW f \in pending, call[f[1]].op # "read"
    PROVE  LateOf(f) \subseteq Unknown
<1>1. f[1] \in Calls
  BY FragmentOf DEF Typed
<1>2. LateOf(f) \subseteq Cells
  BY LateOfIs
<1>3. CASE Busy(f[1])
  BY <1>1, <1>2, <1>3, BusyTouches DEF Unknown
<1>4. CASE ~Busy(f[1])
  <2>1. LateOf(f) \subseteq Late
    BY <1>4, LateIs
  <2>2. QED
    BY <2>1 DEF Ranges, LateUnknown
<1>5. QED
  BY <1>3, <1>4

(* What is written is at the places of the fragment, and the gap before them is filled. *)
LEMMA WriteChanges ==
    ASSUME Typed, NEW f \in pending, NEW n \in Nat, WriteDone(f, n)
    PROVE  /\ \A k \in Cells : k \notin LateOf(f) =>
                /\ k <= Len(file') <=> k <= Len(file)
                /\ k <= Len(file) => file'[k] = file[k]
           /\ Len(file) <= Len(file') /\ Len(file') <= Size /\ Len(file') \in Nat
<1> DEFINE s == First(f)
           w == First(f) + n - 1
           e == First(f) + Share(f) - 1
<1>1. s \in Nat \ {0} /\ Share(f) \in Nat \ {0} /\ e <= Size /\ Len(file) \in Nat
      /\ Len(file) <= Size /\ Size \in Nat
  BY FragmentOf, RoomFor, SizeFacts DEF Typed, FileTyped
<1>2. n \in Nat \ {0} /\ n <= Share(f)
  BY DEF WriteDone
<1>3. /\ Len(file') = IF Len(file) <= w THEN w ELSE Len(file)
      /\ \A k \in 1..Len(file') : (s <= k /\ k <= w) \/ Len(file) < k \/ file'[k] = file[k]
  BY DEF WriteDone
<1>4. w \in Nat /\ w <= e /\ e \in Nat /\ s <= w
  BY <1>1, <1>2
<1>5. call[f[1]].op = "append" => s = Len(file) + 1
  BY DEF First
<1>6. \A k \in Cells : k \in LateOf(f) <=> IF call[f[1]].op = "append" THEN k > Len(file)
                                           ELSE k <= e /\ (s <= k \/ Len(file) < k)
  BY LateOfIs
<1> HIDE DEF s, w, e
<1>7. Len(file) <= Len(file') /\ Len(file') <= Size /\ Len(file') \in Nat
  BY <1>1, <1>3, <1>4
<1>8. ASSUME NEW k \in Cells, k \notin LateOf(f)
      PROVE  (k <= Len(file') <=> k <= Len(file)) /\ (k <= Len(file) => file'[k] = file[k])
  <2>1. k \in Nat \ {0}
    BY SizeFacts
  <2>2. IF call[f[1]].op = "append" THEN k <= Len(file) ELSE ~(k <= e /\ (s <= k \/ Len(file) < k))
    BY <1>1, <1>6, <1>8, <2>1
  <2>3. ~(s <= k /\ k <= w)
    BY <2>1, <2>2, <1>1, <1>4, <1>5
  <2>4. k <= Len(file') <=> k <= Len(file)
    BY <2>1, <2>2, <1>1, <1>3, <1>4, <1>5
  <2>5. ASSUME k <= Len(file) PROVE file'[k] = file[k]
    <3>1. k \in 1..Len(file')
      BY <2>1, <2>5, <1>1, <1>7
    <3>2. QED
      BY <3>1, <2>1, <2>3, <2>5, <1>1, <1>3
  <2>6. QED
    BY <2>4, <2>5
<1>9. QED
  BY <1>7, <1>8

Executes(f) ==
    \/ \E data : ReadDone(f, data)
    \/ \E n \in Nat : WriteDone(f, n)
    \/ FailDone(f)

(* What the executions of fragments have in common. *)
LEMMA ExecutesIs ==
    ASSUME Typed, NEW f \in pending, Executes(f)
    PROVE  /\ call' = call /\ unsure' = unsure /\ pending' = pending \ {f}
           /\ Len(file) <= Len(file') /\ Len(file) \in Nat /\ Len(file') \in Nat
           /\ returned' = Nothing
           /\ file' = file \/ \E n \in Nat : WriteDone(f, n)
<1>1. Len(file) \in Nat
  BY DEF Typed, FileTyped
<1>2. CASE \E data : ReadDone(f, data)
  BY <1>1, <1>2 DEF ReadDone, Answer
<1>3. ASSUME NEW n \in Nat, WriteDone(f, n)
      PROVE  /\ call' = call /\ unsure' = unsure /\ pending' = pending \ {f}
             /\ Len(file) <= Len(file') /\ Len(file') \in Nat
             /\ returned' = Nothing
  <2>1. Len(file) <= Len(file') /\ Len(file') \in Nat
    BY <1>3, WriteChanges
  <2>2. QED
    BY <1>3, <2>1 DEF WriteDone, Answer
<1>4. CASE FailDone(f)
  BY <1>1, <1>4 DEF FailDone, Answer
<1>5. QED
  BY <1>1, <1>2, <1>3, <1>4 DEF Executes

(* What the client knows, place by place. *)
LEMMA KnownIs ==
    /\ \A k \in Cells : Known[k] = IF k \in Unknown THEN <<"unsure">>
                                   ELSE IF k <= Len(file) THEN file[k] ELSE <<"end of file">>
    /\ \A k \in Cells : Known'[k] = IF k \in Unknown' THEN <<"unsure">>
                                    ELSE IF k <= Len(file') THEN file'[k] ELSE <<"end of file">>
    /\ DOMAIN Known = Cells /\ DOMAIN Known' = Cells
    /\ Known = [k \in Cells |-> Known[k]] /\ Known' = [k \in Cells |-> Known'[k]]
BY DEF Known

(* The execution of a fragment changes nothing that is known, and leaves no more to do. *)
LEMMA ExecutesUnseen ==
    ASSUME Typed, Ranges, NEW f \in pending, Executes(f)
    PROVE  Unknown' = Unknown /\ Known' = Known /\ Late' \subseteq Late
<1>1. /\ call' = call /\ unsure' = unsure /\ pending' = pending \ {f}
      /\ Len(file) <= Len(file') /\ Len(file) \in Nat /\ Len(file') \in Nat
      /\ file' = file \/ \E n \in Nat : WriteDone(f, n)
  BY ExecutesIs
<1>2. Unknown' = Unknown
  BY <1>1 DEF Unknown, Busy
<1>3. \A k \in Cells : k \notin Unknown =>
        (k <= Len(file') <=> k <= Len(file)) /\ (k <= Len(file) => file'[k] = file[k])
  <2>1. CASE file' = file
    BY <2>1
  <2>2. CASE \E n \in Nat : WriteDone(f, n)
    <3>1. PICK n \in Nat : WriteDone(f, n)
      BY <2>2
    <3>2. call[f[1]].op # "read"
      BY <3>1 DEF WriteDone
    <3>3. \A k \in Cells : k \notin Unknown => k \notin LateOf(f)
      BY <3>2, PendingUnknown
    <3>4. QED
      BY <3>1, <3>3, WriteChanges
  <2>3. QED
    BY <1>1, <2>1, <2>2
<1>4. Known' = Known
  <2>1. \A k \in Cells : Known'[k] = Known[k]
    BY <1>2, <1>3, KnownIs
  <2>2. [k \in Cells |-> Known'[k]] = [k \in Cells |-> Known[k]]
    BY <2>1
  <2>3. QED
    BY <2>2, KnownIs, Zenon
<1>5. ASSUME NEW k \in Late' PROVE k \in Late
  <2>1. PICK g \in pending' : call'[g[1]].op # "read" /\ ~Busy(g[1])' /\ k \in LateOf(g)'
    BY LateIs
  <2>2. g \in pending /\ call[g[1]].op # "read" /\ ~Busy(g[1])
    BY <2>1, <1>1 DEF Busy
  <2>3. k \in LateOf(g)
    <3>1. CASE call[g[1]].op = "append"
      <4>1. k \in Cells /\ k > Len(file')
        BY <2>1, <3>1, <1>1 DEF LateOf
      <4>2. k > Len(file)
        BY <4>1, <1>1, SizeFacts
      <4>3. QED
        BY <3>1, <4>1, <4>2 DEF LateOf
    <3>2. CASE call[g[1]].op # "append"
      <4>1. Target(g)' = Target(g)
        BY <3>2, <1>1 DEF Target, BlockSize
      <4>2. k \in Target(g) \/ (k \in Cells /\ Len(file') < k /\ k < Max(Target(g)))
        BY <2>1, <3>2, <4>1, <1>1 DEF LateOf
      <4>3. k \in Cells /\ Len(file') < k => Len(file) < k
        BY <1>1, SizeFacts
      <4>4. QED
        BY <3>2, <4>2, <4>3 DEF LateOf
    <3>3. QED
      BY <3>1, <3>2
  <2>4. QED
    BY <2>2, <2>3, LateIs
<1>6. QED
  BY <1>2, <1>4, <1>5

-----------------------------------------------------------------------------
(* What the other steps leave unknown. *)

(* A write that begins makes the places unknown that it touches, and nothing else. *)
LEMMA BeganUnseen ==
    ASSUME Typed, NEW c \in Calls, NEW x, Began(c, x)
    PROVE  /\ Late' = Late
           /\ Unknown' = IF x.op = "read" THEN Unknown ELSE Unknown \cup x.touched
<1>0. /\ call'[c] = x /\ Busy(c)' /\ ~Busy(c) /\ x.touched \subseteq Cells
      /\ \A d \in Calls : d # c => call'[d] = call[d] /\ (Busy(d)' <=> Busy(d))
      /\ file' = file /\ unsure' = unsure
      /\ pending' = pending \cup ({c} \X Fragments(x.len))
      /\ \A f \in pending : f[1] # c
  BY DEF Began
<1>1. ASSUME NEW f \in pending
      PROVE  call'[f[1]] = call[f[1]] /\ (Busy(f[1])' <=> Busy(f[1])) /\ LateOf(f)' = LateOf(f)
  <2>1. f[1] \in Calls /\ f[1] # c
    BY <1>0, FragmentOf DEF Typed
  <2>2. call'[f[1]] = call[f[1]] /\ (Busy(f[1])' <=> Busy(f[1]))
    BY <2>1, <1>0
  <2>3. Target(f)' = Target(f)
    BY <2>2, <1>0 DEF Target, BlockSize
  <2>4. QED
    BY <2>2, <2>3, <1>0 DEF LateOf
<1>2. ASSUME NEW k PROVE k \in Late' <=> k \in Late
  <2>1. ASSUME NEW f \in pending', ~Busy(f[1])' PROVE f \in pending
    BY <2>1, <1>0
  <2>2. pending \subseteq pending'
    BY <1>0
  <2>3. QED
    BY <2>1, <2>2, <1>1, LateIs
<1>3. Late' = Late
  BY <1>2
<1>4. Unknown' = IF x.op = "read" THEN Unknown ELSE Unknown \cup x.touched
  <2>1. ASSUME NEW k \in Cells
        PROVE  k \in Unknown' <=> k \in Unknown \/ (x.op # "read" /\ k \in x.touched)
    BY <1>0 DEF Unknown
  <2>2. Unknown \subseteq Cells /\ Unknown' \subseteq Cells
    BY DEF Unknown
  <2>3. QED
    BY <2>1, <2>2, <1>0
<1>5. QED
  BY <1>3, <1>4

(* The start of a call keeps the ranges apart. *)
LEMMA RangesBegan ==
    ASSUME Typed, Ranges, NEW c \in Calls, NEW x, Began(c, x)
    PROVE  Ranges'
<1>0. /\ call'[c] = x /\ Busy(c)' /\ ~Busy(c)
      /\ \A d \in Calls : d # c => call'[d] = call[d] /\ (Busy(d)' <=> Busy(d))
      /\ file' = file /\ unsure' = unsure
  BY DEF Began
<1>1. Late' = Late /\ Unknown' = IF x.op = "read" THEN Unknown ELSE Unknown \cup x.touched
  BY BeganUnseen
<1>2. Apart'
  <2>1. ASSUME NEW d \in Calls, NEW e \in Calls, d # e, Busy(d)', Busy(e)'
        PROVE  \/ call'[d].op = "read" /\ call'[e].op = "read"
               \/ "read" \in {call'[d].op, call'[e].op}
                    /\ call'[d].touched \cap call'[e].touched = {}
    <3>1. \A b \in Calls : Busy(b) =>
            \/ x.op = "read" /\ call[b].op = "read"
            \/ "read" \in {x.op, call[b].op} /\ x.touched \cap call[b].touched = {}
      BY DEF Began
    <3>2. CASE d = c
      BY <3>1, <3>2, <2>1, <1>0
    <3>3. CASE e = c
      BY <3>1, <3>3, <2>1, <1>0
    <3>4. CASE d # c /\ e # c
      BY <3>4, <2>1, <1>0 DEF Ranges, Apart
    <3>5. QED
      BY <3>2, <3>3, <3>4
  <2>2. QED
    BY <2>1 DEF Apart
<1>3. Touching'
  <2>1. ASSUME NEW d \in Calls, Busy(d)'
        PROVE  /\ Place(call'[d]) \subseteq call'[d].touched
               /\ call'[d].sure \subseteq call'[d].touched
               /\ call'[d].op = "read" => call'[d].touched = Place(call'[d]) /\ call'[d].sure = {}
               /\ call'[d].op = "write" =>
                   /\ \A k \in call'[d].touched : k < call'[d].start + call'[d].len
                   /\ \A k \in Cells : Len(file') < k /\ k < call'[d].start
                        => k \in call'[d].touched
               /\ call'[d].op = "append" =>
                   /\ call'[d].touched = {k \in Cells : k >= call'[d].start}
                   /\ call'[d].sure \in {call'[d].touched, {}}
                   /\ call'[d].start <= Len(file') + 1
    <3>1. CASE d # c
      <4>1. call'[d] = call[d] /\ Busy(d)
        BY <3>1, <2>1, <1>0
      <4>2. QED
        BY <4>1, <1>0 DEF Ranges, Touching
    <3>2. CASE d = c
      <4>1. /\ x.len \in Nat \ {0} /\ x.start \in Nat \ {0} /\ Len(file) \in Nat
            /\ x.touched \subseteq Cells
        BY DEF Began, Typed, FileTyped
      <4>2. Place(x) \subseteq x.touched /\ x.sure \subseteq x.touched
            /\ (x.op = "read" => x.touched = Place(x) /\ x.sure = {})
        BY DEF Began
      <4>3. ASSUME x.op = "write"
            PROVE  /\ \A k \in x.touched : k < x.start + x.len
                   /\ \A k \in Cells : Len(file) < k /\ k < x.start => k \in x.touched
        <5>1. x.touched = Place(x) \cup {k \in Cells : Len(file) < k /\ k < x.start}
          BY <4>3 DEF Began
        <5>2. \A k \in x.touched : k \in Nat
          BY <4>1, SizeFacts
        <5>3. QED
          BY <5>1, <5>2, <4>1 DEF Place
      <4>4. ASSUME x.op = "append"
            PROVE  /\ x.touched = {k \in Cells : k >= x.start}
                   /\ x.sure \in {x.touched, {}}
                   /\ x.start <= Len(file) + 1
        <5>1. x.start = Len(file) + 1 /\ x.touched = {k \in Cells : k >= x.start}
              /\ x.sure = IF Late = {} THEN x.touched ELSE {}
          BY <4>4 DEF Began
        <5>2. QED
          BY <5>1, <4>1
      <4>5. QED
        BY <3>2, <4>2, <4>3, <4>4, <1>0
    <3>3. QED
      BY <3>1, <3>2
  <2>2. QED
    BY <2>1 DEF Touching
<1>4. LateUnknown'
  <2>1. Late \subseteq Unknown
    BY DEF Ranges, LateUnknown
  <2>2. QED
    BY <2>1, <1>1 DEF LateUnknown
<1>5. LateApart'
  <2>1. x.op # "read" => x.sure \cap Late = {}
    <3>1. x.op \in IOOps
      BY DEF Began, NewCall
    <3>2. CASE x.op = "write"
      BY <3>2 DEF Began
    <3>3. CASE x.op = "append"
      BY <3>3 DEF Began
    <3>4. QED
      BY <3>1, <3>2, <3>3 DEF IOOps
  <2>2. ASSUME NEW d \in Calls, Busy(d)', call'[d].op # "read" PROVE call'[d].sure \cap Late' = {}
    <3>1. CASE d = c
      BY <3>1, <2>1, <2>2, <1>0, <1>1
    <3>2. CASE d # c
      <4>1. call'[d] = call[d] /\ Busy(d)
        BY <3>2, <2>2, <1>0
      <4>2. QED
        BY <4>1, <2>2, <1>1 DEF Ranges, LateApart
    <3>3. QED
      BY <3>1, <3>2
  <2>3. QED
    BY <2>2 DEF LateApart
<1>6. QED
  BY <1>2, <1>3, <1>4, <1>5 DEF Ranges

(* The execution of a fragment keeps the ranges apart. *)
LEMMA RangesExecutes ==
    ASSUME Typed, Ranges, NEW f \in pending, Executes(f)
    PROVE  Ranges'
<1>1. call' = call /\ Len(file) <= Len(file') /\ Len(file) \in Nat /\ Len(file') \in Nat
  BY ExecutesIs
<1>2. Unknown' = Unknown /\ Late' \subseteq Late
  BY ExecutesUnseen
<1>3. \A c : Busy(c)' <=> Busy(c)
  BY <1>1 DEF Busy
<1>4. Apart'
  BY <1>1, <1>3 DEF Ranges, Apart
<1>5. Touching'
  <2>1. \A k \in Cells : Len(file') < k => Len(file) < k
    BY <1>1, SizeFacts
  <2>2. \A c \in Calls : Busy(c) /\ call[c].op = "append" =>
          (call[c].start <= Len(file) + 1 => call[c].start <= Len(file') + 1)
    <3>1. \A c \in Calls : Busy(c) => call[c].start \in Nat
      BY CallFacts DEF Typed
    <3>2. QED
      BY <3>1, <1>1
  <2>3. QED
    BY <2>1, <2>2, <1>1, <1>3 DEF Ranges, Touching
<1>6. LateUnknown' /\ LateApart'
  BY <1>1, <1>2, <1>3 DEF Ranges, LateUnknown, LateApart
<1>7. QED
  BY <1>4, <1>5, <1>6 DEF Ranges

\* What taking the answer a returns, and what it makes known.
Taken(c, a) ==
    LET y == call[c]
        x == After(c, a)
    IN  /\ file' = file /\ pending' = pending
        /\ returned' = IF IsLast(c) THEN [call |-> c, ok |-> TRUE, got |-> x.got, count |-> x.count]
                       ELSE Nothing
        /\ unsure' = IF ~IsLast(c) \/ y.op = "read" THEN unsure
                     ELSE IF x.count < y.len THEN unsure \cup y.touched
                     ELSE (unsure \ y.sure) \cup (y.touched \ y.sure)
        /\ y.touched \subseteq Cells

(* Taking an answer changes the call, what is returned, and what is unsure. *)
LEMMA TakenIs ==
    ASSUME Typed, NEW c \in Calls, NEW a \in answers, Collect(c, a)
    PROVE  Taken(c, a)
<1> DEFINE y == call[c]
           x == After(c, a)
<1>0. Collected(c, a)
  BY CollectIs
<1>1. /\ y.next \in Fragments(y.len) /\ y.len \in Nat \ {0} /\ y \in CallRecord
      /\ x.next = y.next + 1 /\ x.len = y.len /\ x.op = y.op
      /\ x.touched = y.touched /\ x.sure = y.sure
  BY <1>0, CallFacts DEF Collected, Typed
<1>2. (x.next > Max(Fragments(x.len))) <=> IsLast(c)
  BY <1>1, PartFacts DEF IsLast
<1>3. Take(c, a, x)
  BY DEF Collect, After
<1>4. y.touched \subseteq Cells
  BY <1>1 DEF CallRecord
<1> HIDE DEF x, y
<1>5. /\ file' = file /\ pending' = pending
      /\ returned' = IF IsLast(c) THEN [call |-> c, ok |-> TRUE, got |-> x.got, count |-> x.count]
                     ELSE Nothing
      /\ unsure' = IF ~IsLast(c) \/ x.op = "read" THEN unsure
                   ELSE IF x.count < x.len THEN unsure \cup x.touched
                   ELSE (unsure \ x.sure) \cup (x.touched \ x.sure)
  BY <1>2, <1>3 DEF Take
<1>6. QED
  BY <1>1, <1>4, <1>5 DEF Taken, x, y

(* A write that returned all it was to write makes the places known that only it changed. *)
LEMMA TakenUnseen ==
    ASSUME Typed, Ranges, NEW c \in Calls, NEW a \in answers, Collect(c, a)
    PROVE  /\ Late' = Late
           /\ Unknown' = IF IsLast(c) /\ call[c].op # "read" /\ After(c, a).count >= call[c].len
                         THEN Unknown \ call[c].sure ELSE Unknown
<1> DEFINE y == call[c]
<1>0. Collected(c, a) /\ Taken(c, a)
  BY CollectIs, TakenIs
<1>1. file' = file /\ pending' = pending
  BY <1>0 DEF Taken
<1>2. ASSUME NEW f \in pending
      PROVE  (Busy(f[1])' <=> Busy(f[1])) /\ call'[f[1]].op = call[f[1]].op
               /\ LateOf(f)' = LateOf(f)
  <2>1. f[1] \in Calls
    BY FragmentOf DEF Typed
  <2>2. /\ Busy(f[1])' <=> Busy(f[1])
        /\ call'[f[1]].op = call[f[1]].op
        /\ call'[f[1]].start = call[f[1]].start
        /\ call'[f[1]].len = call[f[1]].len
    BY <2>1, <1>0 DEF Collected
  <2>3. Target(f)' = Target(f)
    BY <2>2, <1>1 DEF Target, BlockSize
  <2>4. QED
    BY <2>2, <2>3, <1>1 DEF LateOf
<1>3. \A k : k \in Late' <=> k \in Late
  BY <1>1, <1>2, LateIs
<1>4. Late' = Late
  BY <1>3
<1>5. /\ Busy(c) /\ y.touched \subseteq Cells /\ (Busy(c)' <=> ~IsLast(c))
      /\ ~IsLast(c) => call'[c].op = y.op /\ call'[c].touched = y.touched
      /\ \A d \in Calls : d # c => call'[d] = call[d] /\ (Busy(d)' <=> Busy(d))
      /\ After(c, a).count \in Nat /\ y.len \in Nat
  BY <1>0 DEF Collected, Taken
<1>6. unsure' = IF ~IsLast(c) \/ y.op = "read" THEN unsure
                ELSE IF After(c, a).count < y.len THEN unsure \cup y.touched
                ELSE (unsure \ y.sure) \cup (y.touched \ y.sure)
  BY <1>0 DEF Taken
<1>7. \A d \in Calls : d # c /\ Busy(d) /\ call[d].op # "read" => y.op = "read"
  BY <1>5 DEF Ranges, Apart
<1>8. \A k \in Cells : k \in Unknown <=>
        k \in unsure \/ \E d \in Calls : Busy(d) /\ call[d].op # "read" /\ k \in call[d].touched
  BY DEF Unknown
<1>9. \A k \in Cells : k \in Unknown' <=>
        k \in unsure' \/ \E d \in Calls : Busy(d)' /\ call'[d].op # "read" /\ k \in call'[d].touched
  BY DEF Unknown
<1>10. Unknown \subseteq Cells /\ Unknown' \subseteq Cells
  BY DEF Unknown
<1> HIDE DEF y
<1>11. CASE ~IsLast(c)
  <2>1. \A k \in Cells : k \in Unknown' <=> k \in Unknown
    BY <1>5, <1>6, <1>8, <1>9, <1>11 DEF y
  <2>2. QED
    BY <2>1, <1>4, <1>10, <1>11
<1>12. CASE IsLast(c) /\ y.op = "read"
  <2>1. \A k \in Cells : k \in Unknown' <=> k \in Unknown
    BY <1>5, <1>6, <1>8, <1>9, <1>12 DEF y
  <2>2. QED
    BY <2>1, <1>4, <1>10, <1>12 DEF y
<1>13. CASE IsLast(c) /\ y.op # "read"
  <2>1. \A k \in Cells : k \in Unknown' <=> k \in unsure'
    BY <1>5, <1>7, <1>9, <1>13
  <2>2. \A k \in Cells : k \in Unknown <=> k \in unsure \/ k \in y.touched
    BY <1>5, <1>7, <1>8, <1>13 DEF y
  <2>3. CASE After(c, a).count < y.len
    <3>1. Unknown' = Unknown
      BY <2>1, <2>2, <2>3, <1>5, <1>6, <1>10, <1>13
    <3>2. ~(After(c, a).count >= y.len)
      BY <2>3, <1>5
    <3>3. QED
      BY <3>1, <3>2, <1>4 DEF y
  <2>4. CASE ~(After(c, a).count < y.len)
    <3>1. Unknown' = Unknown \ y.sure
      BY <2>1, <2>2, <2>4, <1>5, <1>6, <1>10, <1>13
    <3>2. After(c, a).count >= y.len
      BY <2>4, <1>5
    <3>3. QED
      BY <3>1, <3>2, <1>4, <1>13 DEF y
  <2>5. QED
    BY <2>3, <2>4
<1>14. QED
  BY <1>11, <1>12, <1>13

(* Taking an answer keeps the ranges apart. *)
LEMMA RangesTaken ==
    ASSUME Typed, Ranges, NEW c \in Calls, NEW a \in answers, Collect(c, a)
    PROVE  Ranges'
<1>0. Collected(c, a) /\ file' = file
  BY CollectIs, TakenIs DEF Taken
<1>1. /\ Late' = Late
      /\ Unknown' = IF IsLast(c) /\ call[c].op # "read" /\ After(c, a).count >= call[c].len
                    THEN Unknown \ call[c].sure ELSE Unknown
  BY TakenUnseen
<1>2. ASSUME NEW d \in Calls, Busy(d)'
      PROVE  /\ Busy(d)
             /\ call'[d].op = call[d].op /\ call'[d].start = call[d].start
             /\ call'[d].len = call[d].len
             /\ call'[d].touched = call[d].touched /\ call'[d].sure = call[d].sure
             /\ Place(call'[d]) = Place(call[d])
  <2>1. CASE d = c
    BY <2>1, <1>0, <1>2 DEF Collected, Place
  <2>2. CASE d # c
    BY <2>2, <1>0, <1>2 DEF Collected
  <2>3. QED
    BY <2>1, <2>2
<1>3. Apart'
  BY <1>2 DEF Ranges, Apart
<1>4. Touching'
  BY <1>0, <1>2 DEF Ranges, Touching
<1>5. LateUnknown'
  <2>1. Late \subseteq Unknown
    BY DEF Ranges, LateUnknown
  <2>2. call[c].op # "read" => call[c].sure \cap Late = {}
    BY <1>0 DEF Ranges, LateApart, Collected
  <2>3. QED
    BY <2>1, <2>2, <1>1 DEF LateUnknown
<1>6. LateApart'
  BY <1>1, <1>2 DEF Ranges, LateApart
<1>7. QED
  BY <1>3, <1>4, <1>5, <1>6 DEF Ranges

(* A call that gives up leaves unknown what it touched, late fragments included. *)
LEMMA GaveUpUnseen ==
    ASSUME Typed, Ranges, NEW c \in Calls, GiveUp(c)
    PROVE  /\ Late \subseteq Late'
           /\ Late' \subseteq Late \cup (IF call[c].op = "read" THEN {} ELSE call[c].touched)
           /\ Unknown' = Unknown /\ Known' = Known
<1>0. GaveUp(c)
  BY GiveUpIs
<1>1. /\ Busy(c) /\ ~Busy(c)' /\ call[c].op \in IOOps
      /\ \A d \in Calls : d # c => call'[d] = call[d] /\ (Busy(d)' <=> Busy(d))
      /\ pending' \subseteq pending
      /\ \A f \in pending : f[1] # c => f \in pending'
      /\ file' = file
      /\ unsure' = IF call[c].op = "read" THEN unsure ELSE unsure \cup call[c].touched
      /\ \/ \A f \in pending' : f[1] # c
         \/ call'[c].op = call[c].op /\ call'[c].len = call[c].len /\ call'[c].start = call[c].start
  BY <1>0 DEF GaveUp
<1>2. ASSUME NEW f \in pending'
      PROVE  /\ f \in pending /\ f[1] \in Calls
             /\ call'[f[1]].op = call[f[1]].op
             /\ LateOf(f)' = LateOf(f)
             /\ f[1] # c => (Busy(f[1])' <=> Busy(f[1]))
  <2>1. f \in pending /\ f[1] \in Calls
    BY <1>1, FragmentOf DEF Typed
  <2>2. /\ call'[f[1]].op = call[f[1]].op
        /\ call'[f[1]].start = call[f[1]].start
        /\ call'[f[1]].len = call[f[1]].len
        /\ f[1] # c => (Busy(f[1])' <=> Busy(f[1]))
    BY <2>1, <1>1
  <2>3. Target(f)' = Target(f)
    BY <2>2, <1>1 DEF Target, BlockSize
  <2>4. QED
    BY <2>1, <2>2, <2>3, <1>1 DEF LateOf
<1>3. ASSUME NEW k \in Late PROVE k \in Late'
  <2>1. PICK f \in pending : call[f[1]].op # "read" /\ ~Busy(f[1]) /\ k \in LateOf(f)
    BY LateIs
  <2>2. f \in pending' /\ f[1] # c
    BY <2>1, <1>1
  <2>3. QED
    BY <2>1, <2>2, <1>2, LateIs
<1>4. ASSUME NEW k \in Late', k \notin Late
      PROVE  call[c].op # "read" /\ k \in call[c].touched
  <2>1. PICK f \in pending' : call'[f[1]].op # "read" /\ ~Busy(f[1])' /\ k \in LateOf(f)'
    BY LateIs
  <2>2. f \in pending /\ call[f[1]].op # "read" /\ k \in LateOf(f)
    BY <2>1, <1>2
  <2>3. f[1] = c
    <3>1. f[1] # c => ~Busy(f[1])
      BY <2>1, <1>2
    <3>2. ~(~Busy(f[1]))
      BY <2>2, <1>4, LateIs
    <3>3. QED
      BY <3>1, <3>2
  <2>4. LateOf(f) \subseteq call[f[1]].touched
    BY <2>2, <2>3, <1>1, BusyTouches
  <2>5. QED
    BY <2>2, <2>3, <2>4
<1>5. \A k \in Cells : k \in Unknown' <=> k \in Unknown
  BY <1>1 DEF Unknown
<1>6. Unknown' = Unknown
  BY <1>5 DEF Unknown
<1>7. Known' = Known
  BY <1>1, <1>6 DEF Known
<1>8. QED
  BY <1>3, <1>4, <1>6, <1>7

(* Giving up keeps the ranges apart. *)
LEMMA RangesGaveUp ==
    ASSUME Typed, Ranges, NEW c \in Calls, GiveUp(c)
    PROVE  Ranges'
<1>0. GaveUp(c)
  BY GiveUpIs
<1>1. /\ Late' \subseteq Late \cup (IF call[c].op = "read" THEN {} ELSE call[c].touched)
      /\ Unknown' = Unknown
  BY GaveUpUnseen
<1>2. \A d \in Calls : Busy(d)' => Busy(d) /\ call'[d] = call[d] /\ d # c
  BY <1>0 DEF GaveUp
<1>3. file' = file /\ Busy(c)
  BY <1>0 DEF GaveUp
<1>4. Apart'
  BY <1>2 DEF Ranges, Apart
<1>5. Touching'
  BY <1>2, <1>3 DEF Ranges, Touching
<1>6. LateUnknown'
  <2>1. Late \subseteq Unknown
    BY DEF Ranges, LateUnknown
  <2>2. call[c].op # "read" => call[c].touched \subseteq Unknown
    <3>1. call[c].touched \subseteq Cells
      <4>1. call[c] \in CallRecord
        BY CallFacts DEF Typed
      <4>2. QED
        BY <4>1 DEF CallRecord
    <3>2. QED
      BY <3>1, <1>3 DEF Unknown
  <2>3. QED
    BY <2>1, <2>2, <1>1 DEF LateUnknown
<1>7. LateApart'
  <2>1. ASSUME NEW d \in Calls, Busy(d)', call'[d].op # "read" PROVE call'[d].sure \cap Late' = {}
    <3>1. Busy(d) /\ call'[d] = call[d] /\ d # c /\ call[d].op # "read"
      BY <2>1, <1>2
    <3>2. call[c].op = "read"
      BY <3>1, <1>3 DEF Ranges, Apart
    <3>3. Late' \subseteq Late
      BY <3>2, <1>1
    <3>4. QED
      BY <3>1, <3>3 DEF Ranges, LateApart
  <2>2. QED
    BY <2>1 DEF LateApart
<1>8. QED
  BY <1>4, <1>5, <1>6, <1>7 DEF Ranges

(* A step that changes nothing keeps the ranges apart. *)
LEMMA RangesStutters ==
    ASSUME Typed, Ranges, UNCHANGED vars
    PROVE  Ranges' /\ Late' = Late /\ Unknown' = Unknown /\ Known' = Known
<1>1. /\ file' = file /\ call' = call /\ pending' = pending /\ unsure' = unsure
  BY DEF vars
<1>2. Late' = Late
  BY <1>1 DEF Late, Target, BlockSize, Busy
<1>3. Unknown' = Unknown
  BY <1>1 DEF Unknown, Busy
<1>4. Known' = Known
  BY <1>1, <1>3 DEF Known
<1>5. Apart' /\ Touching' /\ LateUnknown' /\ LateApart'
  BY <1>1, <1>2, <1>3 DEF Ranges, Apart, Touching, LateUnknown, LateApart, Busy, Place
<1>6. QED
  BY <1>2, <1>3, <1>4, <1>5 DEF Ranges

(* Every step keeps the ranges apart. *)
LEMMA RangesNext ==
    ASSUME Typed, Ranges, [Next]_vars
    PROVE  Ranges'
<1>1. \A f \in pending : (\E data : ReadDone(f, data)) \/ (\E n \in Nat : WriteDone(f, n))
        \/ FailDone(f)
        => Executes(f)
  BY DEF Executes
<1>2. QED
  BY <1>1, StepIs, RangesBegan, RangesExecutes, RangesTaken, RangesGaveUp, RangesStutters

(* The ranges are apart initially. *)
LEMMA RangesInit ==
    ASSUME Init
    PROVE  Ranges
<1>1. call = [c \in Calls |-> NoCall] /\ pending = {}
  BY DEF Init
<1>2. \A c \in Calls : ~Busy(c)
  BY <1>1 DEF Busy, NoCall
<1>3. Late = {}
  BY <1>1 DEF Late
<1>4. QED
  BY <1>2, <1>3 DEF Ranges, Apart, Touching, LateUnknown, LateApart

-----------------------------------------------------------------------------
(* Reads. *)

(* A call has its place among what it touches. *)
LEMMA BusyPlace ==
    ASSUME Typed, Ranges, NEW c \in Calls, Busy(c)
    PROVE  /\ call[c].touched \subseteq Cells /\ Place(call[c]) \subseteq call[c].touched
           /\ call[c].sure \subseteq call[c].touched
           /\ \A k \in Place(call[c]) : k \in Cells /\ k \in Nat \ {0}
<1>1. call[c] \in CallRecord
  BY CallFacts DEF Typed
<1>2. call[c].touched \subseteq Cells
  BY <1>1 DEF CallRecord
<1>3. Place(call[c]) \subseteq call[c].touched /\ call[c].sure \subseteq call[c].touched
  BY DEF Ranges, Touching
<1>4. QED
  BY <1>2, <1>3, SizeFacts

(* What is known where a call reads stays as it is. *)
LEMMA KnownWhereRead ==
    ASSUME Typed, Ranges, [Next]_vars, NEW c \in Calls, Busy(c), call[c].op = "read",
           NEW k \in Place(call[c])
    PROVE  Known'[k] = Known[k]
<1>0. k \in Cells /\ k \in call[c].touched
  BY BusyPlace
<1>1. ASSUME NEW d \in Calls, NEW x, Began(d, x) PROVE Known'[k] = Known[k]
  <2>1. Unknown' = IF x.op = "read" THEN Unknown ELSE Unknown \cup x.touched
    BY <1>1, BeganUnseen
  <2>2. x.op # "read" => x.touched \cap call[c].touched = {}
    BY <1>1 DEF Began
  <2>3. k \in Unknown' <=> k \in Unknown
    BY <2>1, <2>2, <1>0
  <2>4. file' = file
    BY <1>1 DEF Began
  <2>5. QED
    BY <2>3, <2>4, <1>0, KnownIs
<1>2. ASSUME NEW d \in Calls, NEW a \in answers, Collect(d, a) PROVE Known'[k] = Known[k]
  <2>1. Unknown' = IF IsLast(d) /\ call[d].op # "read" /\ After(d, a).count >= call[d].len
                   THEN Unknown \ call[d].sure ELSE Unknown
    BY <1>2, TakenUnseen
  <2>2. Busy(d) /\ file' = file
    BY <1>2, CollectIs, TakenIs DEF Collected, Taken
  <2>3. call[d].op # "read" => call[d].touched \cap call[c].touched = {}
    BY <2>2 DEF Ranges, Apart
  <2>4. call[d].sure \subseteq call[d].touched
    BY <2>2, BusyPlace
  <2>5. k \in Unknown' <=> k \in Unknown
    BY <2>1, <2>3, <2>4, <1>0
  <2>6. QED
    BY <2>2, <2>5, <1>0, KnownIs
<1>3. ASSUME NEW d \in Calls, GiveUp(d) PROVE Known'[k] = Known[k]
  BY <1>3, GaveUpUnseen
<1>4. ASSUME NEW f \in pending, Executes(f) PROVE Known'[k] = Known[k]
  BY <1>4, ExecutesUnseen
<1>5. ASSUME UNCHANGED vars PROVE Known'[k] = Known[k]
  BY <1>5, RangesStutters
<1>6. QED
  BY <1>1, <1>2, <1>3, <1>4, <1>5, StepIs DEF Executes

(* What a fragment reads is right. *)
LEMMA FragmentIsRead ==
    ASSUME Typed, Ranges, NEW f \in pending, NEW data, ReadDone(f, data), Busy(f[1])
    PROVE  IsRead(call[f[1]], Known, data, First(f), Share(f))
<1> DEFINE x == call[f[1]]
           s == First(f)
           h == Share(f)
           m == Len(data)
           L == Len(file)
<1>1. /\ f[1] \in Calls /\ s \in Nat \ {0} /\ h \in Nat \ {0} /\ L \in Nat
  BY FragmentOf DEF Typed, FileTyped
<1>2. /\ m = IF L < s THEN 0 ELSE IF s + h - 1 <= L THEN h ELSE L - s + 1
      /\ \A i \in 1..m : data[i] = file[s + i - 1]
  BY DEF ReadDone
<1>3. \A k \in Place(x) : k \in Cells /\ k \in Nat \ {0}
  BY <1>1, BusyPlace
<1> HIDE DEF x, s, h, m, L
<1>4. m \in Nat /\ m <= h
  BY <1>1, <1>2
<1>5. ASSUME NEW k \in Place(x)
      PROVE  /\ Known[k] = <<"end of file">> => m = 0 \/ s + m - 1 < k
             /\ Known[k] \in Units =>
                  /\ k >= s + h - 1 => m = h
                  /\ s <= k /\ k <= s + h - 1 => k - s + 1 <= m /\ data[k - s + 1] = Known[k]
  <2>1. k \in Cells /\ k \in Nat \ {0}
    BY <1>3
  <2>2. Known[k] = IF k \in Unknown THEN <<"unsure">>
                   ELSE IF k <= L THEN file[k] ELSE <<"end of file">>
    BY <2>1, KnownIs DEF L
  <2>3. ASSUME Known[k] = <<"end of file">> PROVE m = 0 \/ s + m - 1 < k
    <3>1. k \notin Unknown /\ L < k
      <4>1. k \notin Unknown
        BY <2>2, <2>3, UnitFacts
      <4>2. ASSUME k <= L PROVE FALSE
        <5>1. k \in 1..Len(file)
          BY <2>1, <4>2 DEF L
        <5>2. file[k] \in Units
          BY <5>1 DEF Typed, FileTyped
        <5>3. QED
          BY <5>2, <4>1, <4>2, <2>2, <2>3, UnitFacts
      <4>3. QED
        BY <4>1, <4>2, <2>1, <1>1
    <3>2. QED
      BY <3>1, <2>1, <1>1, <1>2
  <2>4. ASSUME Known[k] \in Units
        PROVE  /\ k >= s + h - 1 => m = h
               /\ s <= k /\ k <= s + h - 1 => k - s + 1 <= m /\ data[k - s + 1] = Known[k]
    <3>1. k <= L /\ Known[k] = file[k]
      BY <2>2, <2>4, UnitFacts
    <3>2. k >= s + h - 1 => m = h
      BY <3>1, <2>1, <1>1, <1>2
    <3>3. ASSUME s <= k, k <= s + h - 1 PROVE k - s + 1 <= m /\ data[k - s + 1] = Known[k]
      <4>1. k - s + 1 \in 1..m
        BY <3>1, <3>3, <2>1, <1>1, <1>2
      <4>2. data[k - s + 1] = file[s + (k - s + 1) - 1]
        BY <4>1, <1>2
      <4>3. s + (k - s + 1) - 1 = k
        BY <2>1, <1>1
      <4>4. k - s + 1 <= m
        BY <4>1, <1>4
      <4>5. QED
        BY <4>2, <4>3, <4>4, <3>1
    <3>4. QED
      BY <3>2, <3>3
  <2>5. QED
    BY <2>3, <2>4
<1>6. QED
  BY <1>4, <1>5 DEF IsRead, x, s, h, m

(* What two fragments read that follow each other is right behind each other. *)
LEMMA ReadsJoin ==
    ASSUME NEW x, NEW cells, NEW g \in Seq(Units), NEW d \in Seq(Units),
           NEW p \in Nat, NEW n \in Nat, NEW b \in Nat \ {0},
           \A k \in Place(x) : k \in Nat,
           IsRead(x, cells, g, p, n), IsRead(x, cells, d, p + n, b)
    PROVE  IsRead(x, cells, g \o d, p, n + b)
<1> DEFINE m == Len(g)
           l == Len(d)
           j == g \o d
<1>1. /\ m \in Nat /\ l \in Nat /\ Len(j) = m + l
      /\ \A i \in 1..m : j[i] = g[i]
      /\ \A i \in 1..l : j[m + i] = d[i]
  <2>1. m \in Nat /\ l \in Nat
    BY LenProperties
  <2>2. Len(j) = m + l /\ \A i \in 1..(m + l) : j[i] = IF i <= m THEN g[i] ELSE d[i - m]
    BY ConcatProperties
  <2> HIDE DEF m, l, j
  <2>3. ASSUME NEW i \in 1..m PROVE j[i] = g[i]
    <3>1. i \in 1..(m + l) /\ i <= m
      BY <2>1
    <3>2. QED
      BY <3>1, <2>2
  <2>4. ASSUME NEW i \in 1..l PROVE j[m + i] = d[i]
    <3>1. m + i \in 1..(m + l) /\ ~(m + i <= m) /\ (m + i) - m = i
      BY <2>1
    <3>2. QED
      BY <3>1, <2>2
  <2>5. QED
    BY <2>1, <2>2, <2>3, <2>4
<1>2. m <= n /\ l <= b
  BY DEF IsRead
<1>3. ASSUME NEW k \in Place(x)
      PROVE  /\ cells[k] = <<"end of file">> => (m = 0 \/ p + m - 1 < k)
                  /\ (l = 0 \/ p + n + l - 1 < k)
             /\ cells[k] \in Units =>
                  /\ k >= p + n - 1 => m = n
                  /\ p <= k /\ k <= p + n - 1 => k - p + 1 <= m /\ g[k - p + 1] = cells[k]
                  /\ k >= p + n + b - 1 => l = b
                  /\ p + n <= k /\ k <= p + n + b - 1 =>
                       k - (p + n) + 1 <= l /\ d[k - (p + n) + 1] = cells[k]
  BY <1>3 DEF IsRead
<1> HIDE DEF m, l, j
<1>4. ASSUME NEW k \in Place(x)
      PROVE  /\ cells[k] = <<"end of file">> => Len(j) = 0 \/ p + Len(j) - 1 < k
             /\ cells[k] \in Units =>
                  /\ k >= p + (n + b) - 1 => Len(j) = n + b
                  /\ p <= k /\ k <= p + (n + b) - 1 => k - p + 1 <= Len(j)
                       /\ j[k - p + 1] = cells[k]
  <2>1. k \in Nat
    OBVIOUS
  <2>l. Len(j) = m + l /\ m \in Nat /\ l \in Nat
    BY <1>1
  <2>2. ASSUME cells[k] = <<"end of file">> PROVE Len(j) = 0 \/ p + Len(j) - 1 < k
    <3>1. (m = 0 \/ p + m - 1 < k) /\ (l = 0 \/ p + n + l - 1 < k)
      BY <2>2, <1>3
    <3>2. QED
      BY <3>1, <2>1, <2>l, <1>2
  <2>3. ASSUME cells[k] \in Units, k >= p + (n + b) - 1 PROVE Len(j) = n + b
    <3>1. k >= p + n - 1 /\ k >= p + n + b - 1
      BY <2>1, <2>3
    <3>2. m = n /\ l = b
      BY <3>1, <2>3, <1>3
    <3>3. QED
      BY <3>2, <2>l
  <2>4. ASSUME cells[k] \in Units, p <= k, k <= p + (n + b) - 1
        PROVE  k - p + 1 <= Len(j) /\ j[k - p + 1] = cells[k]
    <3>1. CASE k <= p + n - 1
      <4>1. k - p + 1 <= m /\ g[k - p + 1] = cells[k]
        BY <3>1, <2>1, <2>4, <1>3
      <4>2. k - p + 1 \in 1..m
        BY <4>1, <2>1, <2>4, <1>1
      <4>3. j[k - p + 1] = cells[k]
        BY <4>1, <4>2, <1>1
      <4>4. k - p + 1 <= Len(j)
        BY <4>1, <2>1, <2>l
      <4>5. QED
        BY <4>3, <4>4
    <3>2. CASE k > p + n - 1
      <4>1. m = n /\ k - (p + n) + 1 <= l /\ d[k - (p + n) + 1] = cells[k]
        <5>1. k >= p + n - 1 /\ p + n <= k /\ k <= p + n + b - 1
          BY <3>2, <2>1, <2>4
        <5>2. QED
          BY <5>1, <2>4, <1>3
      <4>2. k - (p + n) + 1 \in 1..l
        BY <4>1, <3>2, <2>1, <1>1
      <4>3. j[m + (k - (p + n) + 1)] = cells[k]
        BY <4>1, <4>2, <1>1
      <4>4. m + (k - (p + n) + 1) = k - p + 1
        BY <4>1, <2>1
      <4>5. k - p + 1 <= Len(j)
        BY <4>1, <2>1, <2>l
      <4>6. QED
        BY <4>3, <4>4, <4>5
    <3>3. QED
      BY <3>1, <3>2, <2>1
  <2>5. QED
    BY <2>2, <2>3, <2>4
<1>5. Len(j) <= n + b
  BY <1>1, <1>2
<1>6. QED
  BY <1>4, <1>5 DEF IsRead, j

(* What a read got stays right as long as the client knows the same of its place. *)
LEMMA IsReadStays ==
    ASSUME NEW x, NEW old, NEW new, NEW s, NEW p, NEW n, \A k \in Place(x) : new[k] = old[k],
           IsRead(x, old, s, p, n)
    PROVE  IsRead(x, new, s, p, n)
BY DEF IsRead

\* What taking an answer does that is not the last.
MoreLeft(c, a) ==
    LET y == call[c]
        z == call'[c]
    IN  /\ ~IsLast(c) /\ Busy(c)
        /\ z.op = y.op /\ z.start = y.start /\ z.len = y.len
        /\ z.touched = y.touched /\ z.sure = y.sure
        /\ z.next = y.next + 1 /\ z.got = y.got \o a.data /\ z.count = y.count + a.res
        /\ y.next \in Fragments(y.len) /\ z.next \in Fragments(y.len)
        /\ a.frag[1] = c /\ a.frag[2] = y.next
        /\ a.res \in Nat /\ a.res <= Part(y.len, y.next) /\ y.count \in Nat
        /\ y.got \in Seq(Units) /\ a.data \in Seq(Units)
        /\ y.start \in Nat \ {0} /\ y.len \in Nat \ {0}
        /\ Offset(y.next) \in Nat /\ Part(y.len, y.next) \in Nat \ {0}
        /\ Offset(y.next + 1) = Offset(y.next) + Part(y.len, y.next)

(* A call that is still busy after an answer has another to take. *)
LEMMA MoreToTake ==
    ASSUME NEW c \in Calls, NEW a \in answers, Collected(c, a), Busy(c)'
    PROVE  MoreLeft(c, a)
<1> DEFINE y == call[c]
<1>1. ~IsLast(c) /\ call'[c] = After(c, a)
  BY DEF Collected
<1>2. /\ y.next \in Fragments(y.len) /\ y.len \in Nat \ {0}
      /\ y.next + 1 \in Fragments(y.len)
  BY <1>1 DEF Collected, IsLast
<1>3. /\ Offset(y.next) \in Nat /\ Part(y.len, y.next) \in 1..Fragment
      /\ Offset(y.next + 1) = Offset(y.next) + Part(y.len, y.next)
  BY <1>2, PartFacts
<1>4. Part(y.len, y.next) \in Nat \ {0}
  BY <1>3, SizeFacts
<1> HIDE DEF y
<1>5. /\ Busy(c) /\ call'[c].op = y.op /\ call'[c].start = y.start /\ call'[c].len = y.len
      /\ call'[c].touched = y.touched /\ call'[c].sure = y.sure
      /\ call'[c].next = y.next + 1 /\ call'[c].got = y.got \o a.data
      /\ call'[c].count = y.count + a.res
      /\ a.frag[1] = c /\ a.frag[2] = y.next
      /\ a.res \in Nat /\ a.res <= Part(y.len, y.next) /\ y.count \in Nat
      /\ y.got \in Seq(Units) /\ a.data \in Seq(Units)
      /\ y.start \in Nat \ {0}
  BY <1>1 DEF Collected, y
<1>6. QED
  BY <1>1, <1>2, <1>3, <1>4, <1>5 DEF MoreLeft, y

(* Every step keeps right what the reads got. *)
LEMMA ReadsNext ==
    ASSUME Typed, Ranges, ReadsAreRight, [Next]_vars
    PROVE  ReadsAreRight'
<1> DEFINE Right(c) ==
             /\ IsRead(call'[c], Known', call'[c].got, call'[c].start, Offset(call'[c].next))
             /\ \A b \in answers' : b.frag[1] = c /\ b.res >= 0 =>
                  IsRead(call'[c], Known', b.data, call'[c].start + Offset(b.frag[2]),
                         Part(call'[c].len, b.frag[2]))
<1>0. ASSUME NEW c \in Calls, Busy(c), call[c].op = "read"
      PROVE  /\ \A k \in Place(call[c]) : Known'[k] = Known[k]
             /\ IsRead(call[c], Known', call[c].got, call[c].start, Offset(call[c].next))
             /\ \A b \in answers : b.frag[1] = c /\ b.res >= 0 =>
                  IsRead(call[c], Known', b.data, call[c].start + Offset(b.frag[2]),
                         Part(call[c].len, b.frag[2]))
  <2>1. \A k \in Place(call[c]) : Known'[k] = Known[k]
    BY <1>0, KnownWhereRead
  <2>2. IsRead(call[c], Known, call[c].got, call[c].start, Offset(call[c].next))
    BY <1>0 DEF ReadsAreRight
  <2>3. \A b \in answers : b.frag[1] = c /\ b.res >= 0 =>
          IsRead(call[c], Known, b.data, call[c].start + Offset(b.frag[2]),
                 Part(call[c].len, b.frag[2]))
    BY <1>0 DEF ReadsAreRight
  <2>4. IsRead(call[c], Known', call[c].got, call[c].start, Offset(call[c].next))
    BY <2>1, <2>2, IsReadStays
  <2>5. ASSUME NEW b \in answers, b.frag[1] = c, b.res >= 0
        PROVE  IsRead(call[c], Known', b.data, call[c].start + Offset(b.frag[2]),
                      Part(call[c].len, b.frag[2]))
    BY <2>1, <2>3, <2>5, IsReadStays
  <2>6. QED
    BY <2>1, <2>4, <2>5
<1>1. ASSUME NEW d \in Calls, NEW x, Began(d, x), NEW c \in Calls, Busy(c)', call'[c].op = "read"
      PROVE  Right(c)
  <2>1. /\ call'[d] = x /\ answers' = answers /\ \A a \in answers : a.frag[1] # d
        /\ \A e \in Calls : e # d => call'[e] = call[e] /\ (Busy(e)' <=> Busy(e))
    BY <1>1 DEF Began
  <2>2. CASE c # d
    <3>1. call'[c] = call[c] /\ Busy(c) /\ answers' = answers
      BY <2>1, <2>2, <1>1
    <3>2. QED
      BY <3>1, <1>0, <1>1
  <2>3. CASE c = d
    <3>1. /\ x.next = 1 /\ x.got = <<>> /\ x.start \in Nat \ {0} /\ x.len \in Nat \ {0}
      BY <1>1 DEF Began, NewCall
    <3>2. Offset(1) = 0 /\ Len(<<>>) = 0
      BY OffsetFacts
    <3>3. \A k \in Place(x) : k \in Int
      BY <3>1 DEF Place
    <3>4. IsRead(x, Known', <<>>, x.start, 0)
      BY <3>1, <3>2, <3>3 DEF IsRead
    <3>5. QED
      BY <3>1, <3>2, <3>4, <2>1, <2>3
  <2>4. QED
    BY <2>2, <2>3
<1>2. ASSUME NEW f \in pending, Executes(f), NEW c \in Calls, Busy(c)', call'[c].op = "read"
      PROVE  Right(c)
  <2>1. call' = call /\ Known' = Known
    BY <1>2, ExecutesIs, ExecutesUnseen
  <2>2. Busy(c) /\ call[c].op = "read" /\ call'[c] = call[c]
    BY <2>1, <1>2 DEF Busy
  <2>3. ASSUME NEW b \in answers', b \notin answers, b.frag[1] = c, b.res >= 0
        PROVE  IsRead(call[c], Known', b.data, call[c].start + Offset(b.frag[2]),
                      Part(call[c].len, b.frag[2]))
    <3>1. ASSUME NEW data, ReadDone(f, data) PROVE b.frag = f /\ b.data = data
      BY <3>1, <2>3 DEF ReadDone, Answer
    <3>2. ASSUME NEW n \in Nat, WriteDone(f, n) PROVE FALSE
      <4>1. b.frag = f /\ call[f[1]].op # "read"
        BY <3>2, <2>3 DEF WriteDone, Answer
      <4>2. QED
        BY <4>1, <2>2, <2>3
    <3>3. ASSUME FailDone(f) PROVE FALSE
      <4>1. b.res = -1
        BY <3>3, <2>3 DEF FailDone, Answer
      <4>2. QED
        BY <4>1, <2>3
    <3>4. PICK data : ReadDone(f, data)
      BY <3>2, <3>3, <1>2 DEF Executes
    <3>5. b.frag = f /\ b.data = data /\ f[1] = c
      BY <3>1, <3>4, <2>3
    <3>6. IsRead(call[c], Known, data, First(f), Share(f))
      BY <3>4, <3>5, <2>2, FragmentIsRead
    <3>7. First(f) = call[c].start + Offset(f[2]) /\ Share(f) = Part(call[c].len, f[2])
      BY <3>5, <2>2 DEF First, Share
    <3>8. QED
      BY <3>5, <3>6, <3>7, <2>1
  <2>4. QED
    BY <2>2, <2>3, <1>0
<1>3. ASSUME NEW d \in Calls, NEW a \in answers, Collect(d, a),
             NEW c \in Calls, Busy(c)', call'[c].op = "read"
      PROVE  Right(c)
  <2>0. Collected(d, a)
    BY <1>3, CollectIs
  <2>1. answers' \subseteq answers
    BY <2>0 DEF Collected
  <2>2. CASE c # d
    <3>1. call'[c] = call[c] /\ Busy(c)
      BY <2>0, <2>2, <1>3 DEF Collected
    <3>2. QED
      BY <3>1, <2>1, <1>0, <1>3
  <2>3. CASE c = d
    <3> DEFINE y == call[c]
               z == call'[c]
               o == Offset(y.next)
               h == Part(y.len, y.next)
    <3>1. /\ Busy(c) /\ y.op = "read" /\ z.op = y.op /\ z.start = y.start /\ z.len = y.len
          /\ z.got = y.got \o a.data /\ z.next = y.next + 1
          /\ y.next \in Fragments(y.len) /\ z.next \in Fragments(y.len)
          /\ a.frag[1] = c /\ a.frag[2] = y.next /\ a.res \in Nat
          /\ y.got \in Seq(Units) /\ a.data \in Seq(Units)
          /\ y.start \in Nat \ {0} /\ y.len \in Nat \ {0}
      BY <2>0, <2>3, <1>3, MoreToTake DEF MoreLeft
    <3>2. /\ o \in Nat /\ h \in Nat \ {0} /\ Offset(y.next + 1) = o + h
      BY <2>0, <2>3, <1>3, MoreToTake DEF MoreLeft
    <3>3. \A k \in Place(y) : k \in Nat
      BY <3>1, BusyPlace
    <3>4. IsRead(y, Known', y.got, y.start, o) /\ IsRead(y, Known', a.data, y.start + o, h)
      BY <3>1, <1>0
    <3>p. y.start \in Nat
      BY <3>1
    <3> HIDE DEF o, h
    <3>5. IsRead(y, Known', y.got \o a.data, y.start, o + h)
      BY <3>1, <3>2, <3>3, <3>4, <3>p, ReadsJoin
    <3>6. Place(z) = Place(y)
      BY <3>1 DEF Place
    <3>7. IsRead(z, Known', z.got, z.start, Offset(z.next))
      BY <3>1, <3>2, <3>5, <3>6 DEF IsRead
    <3>8. ASSUME NEW b \in answers', b.frag[1] = c, b.res >= 0
          PROVE  IsRead(z, Known', b.data, z.start + Offset(b.frag[2]), Part(z.len, b.frag[2]))
      <4>1. IsRead(y, Known', b.data, y.start + Offset(b.frag[2]), Part(y.len, b.frag[2]))
        BY <3>1, <3>8, <2>1, <1>0
      <4>2. QED
        BY <4>1, <3>1, <3>6 DEF IsRead
    <3>9. QED
      BY <3>7, <3>8
  <2>4. QED
    BY <2>2, <2>3
<1>4. ASSUME NEW d \in Calls, GiveUp(d), NEW c \in Calls, Busy(c)', call'[c].op = "read"
      PROVE  Right(c)
  <2>1. GaveUp(d)
    BY <1>4, GiveUpIs
  <2>2. call'[c] = call[c] /\ Busy(c) /\ answers' \subseteq answers
    BY <2>1, <1>4 DEF GaveUp
  <2>3. QED
    BY <2>2, <1>0, <1>4
<1>5. ASSUME UNCHANGED vars, NEW c \in Calls, Busy(c)', call'[c].op = "read" PROVE Right(c)
  <2>1. call' = call /\ answers' = answers
    BY <1>5 DEF vars
  <2>2. call'[c] = call[c] /\ Busy(c)
    BY <2>1, <1>5 DEF Busy
  <2>3. QED
    BY <2>1, <2>2, <1>0, <1>5
<1>6. ASSUME NEW c \in Calls, Busy(c)', call'[c].op = "read" PROVE Right(c)
  <2> HIDE DEF Right
  <2>1. QED
    BY <1>1, <1>2, <1>3, <1>4, <1>5, <1>6, StepIs DEF Executes
<1>7. QED
  BY <1>6 DEF ReadsAreRight

-----------------------------------------------------------------------------
(* Writes. *)

(* What is sure of a call only the call changes. *)
LEMMA SureStays ==
    ASSUME Typed, Ranges, NEW f \in pending, NEW n \in Nat, WriteDone(f, n),
           NEW c \in Calls, Busy(c), call[c].op # "read", c # f[1]
    PROVE  \A k \in call[c].sure : /\ k <= Len(file') <=> k <= Len(file)
                                   /\ k <= Len(file) => file'[k] = file[k]
<1>1. call[f[1]].op # "read" /\ f[1] \in Calls
  BY FragmentOf DEF WriteDone, Typed
<1>2. ~Busy(f[1])
  BY <1>1 DEF Ranges, Apart
<1>3. LateOf(f) \subseteq Late
  BY <1>1, <1>2, LateIs
<1>4. call[c].sure \cap Late = {} /\ call[c].sure \subseteq Cells
  BY BusyPlace DEF Ranges, LateApart
<1>5. QED
  BY <1>3, <1>4, WriteChanges

(* What a fragment of a write does. *)
LEMMA FragmentIsWritten ==
    ASSUME Typed, NEW f \in pending, NEW n \in Nat, WriteDone(f, n), call[f[1]].op = "write"
    PROVE  /\ First(f) = call[f[1]].start + Offset(f[2])
           /\ \A k \in Nat \ {0} :
                IF First(f) <= k /\ k <= First(f) + n - 1
                THEN k <= Len(file') /\ file'[k] = Unit(f[1], k - call[f[1]].start + 1)
                ELSE /\ k <= Len(file) => file'[k] = file[k]
                     /\ Len(file) < k /\ k <= Len(file') => file'[k] = Zero
<1> DEFINE s == First(f)
           w == First(f) + n - 1
           o == Offset(f[2])
           t == call[f[1]].start
           L == Len(file)
           M == Len(file')
<1>1. /\ s = t + o /\ o \in Nat /\ s \in Nat \ {0} /\ L \in Nat /\ f[1] \in Calls
  BY FragmentOf DEF First, Typed, FileTyped
<1>2. t \in Nat
  BY <1>1, CallFacts DEF Typed
<1>3. /\ n \in Nat \ {0} /\ w = s + n - 1
      /\ M = IF L <= w THEN w ELSE L
      /\ \A k \in 1..M : file'[k] = IF s <= k /\ k <= w THEN Unit(f[1], o + k - s + 1)
                                    ELSE IF k <= L THEN file[k] ELSE Zero
  BY DEF WriteDone
<1> HIDE DEF s, w, o, t, L, M
<1>4. w \in Nat /\ M \in Nat /\ L <= M /\ w <= M
  BY <1>1, <1>3
<1>5. ASSUME NEW k \in Nat \ {0}, s <= k, k <= w PROVE k <= M /\ file'[k] = Unit(f[1], k - t + 1)
  <2>1. k \in 1..M /\ o + k - s + 1 = k - t + 1
    BY <1>1, <1>2, <1>4, <1>5
  <2>2. file'[k] = Unit(f[1], o + k - s + 1)
    BY <2>1, <1>3, <1>5
  <2>3. QED
    BY <2>1, <2>2
<1>6. ASSUME NEW k \in Nat \ {0}, ~(s <= k /\ k <= w)
      PROVE  /\ k <= L => file'[k] = file[k]
             /\ L < k /\ k <= M => file'[k] = Zero
  <2>1. k <= M => k \in 1..M
    BY <1>4
  <2>2. k <= L => k <= M
    BY <1>1, <1>4
  <2>3. L < k => ~(k <= L)
    BY <1>1
  <2>4. QED
    BY <2>1, <2>2, <2>3, <1>3, <1>6
<1>7. \A k \in Nat \ {0} :
        IF s <= k /\ k <= w
        THEN k <= M /\ file'[k] = Unit(f[1], k - t + 1)
        ELSE /\ k <= L => file'[k] = file[k]
             /\ L < k /\ k <= M => file'[k] = Zero
  BY <1>5, <1>6
<1>8. QED
  BY <1>1, <1>7 DEF s, w, o, t, L, M

(* What is written and sure is not written over by the execution of another fragment. *)
LEMMA WrittenStays ==
    ASSUME Typed, Ranges, NEW f \in pending, NEW m \in Nat, WriteDone(f, m),
           NEW c \in Calls, Busy(c), call[c].op = "write",
           NEW p \in Nat, NEW n \in Nat, NEW r, IsWritten(c, p, n, r)
    PROVE  n >= 1 /\ r = n =>
             /\ Len(file') >= p + n - 1
             /\ \A k \in call[c].sure :
                  p <= k /\ k <= p + n - 1 => file'[k] = Unit(c, k - call[c].start + 1)
<1>1. SUFFICES ASSUME n >= 1, r = n
               PROVE  /\ Len(file') >= p + n - 1
                      /\ \A k \in call[c].sure :
                           p <= k /\ k <= p + n - 1 => file'[k] = Unit(c, k - call[c].start + 1)
  OBVIOUS
<1>2. /\ Len(file) >= p + n - 1
      /\ \A k \in call[c].sure :
           p <= k /\ k <= p + n - 1 => file[k] = Unit(c, k - call[c].start + 1)
  BY <1>1 DEF IsWritten
<1>3. Len(file) <= Len(file') /\ Len(file) \in Nat /\ Len(file') \in Nat
  BY WriteChanges DEF Typed, FileTyped
<1>4. Len(file') >= p + n - 1
  BY <1>2, <1>3
<1>5. \A k \in call[c].sure : k \in Nat \ {0}
  <2>1. call[c].sure \subseteq Cells
    BY BusyPlace
  <2>2. QED
    BY <2>1, SizeFacts
<1>6. ASSUME NEW k \in call[c].sure, p <= k, k <= p + n - 1
      PROVE  file'[k] = Unit(c, k - call[c].start + 1)
  <2>1. k <= Len(file) /\ file[k] = Unit(c, k - call[c].start + 1) /\ k \in Nat \ {0}
    BY <1>2, <1>3, <1>5, <1>6
  <2>2. CASE c # f[1]
    BY <2>1, <2>2, SureStays
  <2>3. CASE c = f[1]
    BY <2>1, <2>3, FragmentIsWritten
  <2>4. QED
    BY <2>2, <2>3
<1>7. QED
  BY <1>4, <1>6

(* Two parts of a write that follow each other. *)
LEMMA WrittenJoin ==
    ASSUME FileTyped, NEW c, NEW p \in Nat \ {0}, NEW o \in Nat, NEW h \in Nat \ {0},
           NEW n \in Nat, NEW r \in Nat, n <= o, r <= h,
           \A k \in call[c].sure : k \in Nat \ {0},
           IsWritten(c, p, o, n), IsWritten(c, p + o, h, r)
    PROVE  IsWritten(c, p, o + h, n + r)
<1> DEFINE q == call[c].sure
           t == call[c].start
<1>1. /\ o >= 1 /\ n = o => /\ Len(file) >= p + o - 1
                            /\ \A k \in q : p <= k /\ k <= p + o - 1 => file[k] = Unit(c, k - t + 1)
      /\ h >= 1 /\ r = h => /\ Len(file) >= p + o + h - 1
                            /\ \A k \in q : p + o <= k /\ k <= p + o + h - 1 =>
                                  file[k] = Unit(c, k - t + 1)
      /\ \A k \in q : k \in Nat \ {0}
      /\ Len(file) \in Nat
  BY DEF IsWritten, FileTyped
<1> HIDE DEF q, t
<1>2. ASSUME n + r = o + h
      PROVE  /\ Len(file) >= p + (o + h) - 1
             /\ \A k \in q : p <= k /\ k <= p + (o + h) - 1 => file[k] = Unit(c, k - t + 1)
  <2>1. n = o /\ r = h /\ h >= 1
    BY <1>2
  <2>2. Len(file) >= p + (o + h) - 1
    BY <2>1, <1>1
  <2>3. ASSUME NEW k \in q, p <= k, k <= p + (o + h) - 1 PROVE file[k] = Unit(c, k - t + 1)
    <3>1. k \in Nat
      BY <1>1
    <3>2. CASE k <= p + o - 1
      <4>1. o >= 1
        BY <3>1, <3>2, <2>3
      <4>2. QED
        BY <4>1, <3>2, <2>1, <2>3, <1>1
    <3>3. CASE p + o <= k
      <4>1. k <= p + o + h - 1
        BY <3>1, <2>3
      <4>2. QED
        BY <4>1, <3>3, <2>1, <1>1
    <3>4. QED
      BY <3>1, <3>2, <3>3
  <2>4. QED
    BY <2>2, <2>3
<1>3. QED
  BY <1>2 DEF IsWritten, q, t

(* Every step keeps in place what the writes wrote. *)
LEMMA WritesNext ==
    ASSUME Typed, Ranges, WritesAreRight, [Next]_vars
    PROVE  WritesAreRight'
<1> DEFINE There(c, p, n, r) ==
             n >= 1 /\ r = n =>
               /\ Len(file') >= p + n - 1
               /\ \A k \in call'[c].sure :
                    p <= k /\ k <= p + n - 1 => file'[k] = Unit(c, k - call'[c].start + 1)
           Right(c) ==
             /\ \A k \in call'[c].sure : k < call'[c].start /\ k <= Len(file') => file'[k] = Zero
             /\ There(c, call'[c].start, Offset(call'[c].next), call'[c].count)
             /\ \A b \in answers' : b.frag[1] = c =>
                  There(c, call'[c].start + Offset(b.frag[2]), Part(call'[c].len, b.frag[2]), b.res)
<1>0. ASSUME NEW c \in Calls, Busy(c), call[c].op = "write"
      PROVE  /\ \A k \in call[c].sure : k < call[c].start /\ k <= Len(file) => file[k] = Zero
             /\ IsWritten(c, call[c].start, Offset(call[c].next), call[c].count)
             /\ \A b \in answers : b.frag[1] = c =>
                  IsWritten(c, call[c].start + Offset(b.frag[2]), Part(call[c].len, b.frag[2]),
                    b.res)
             /\ call[c].start \in Nat \ {0} /\ call[c].len \in Nat \ {0}
             /\ call[c].next \in Fragments(call[c].len) /\ Offset(call[c].next) \in Nat
             /\ \A k \in call[c].sure : k \in Nat \ {0}
  <2>1. call[c].start \in Nat \ {0} /\ call[c].len \in Nat \ {0}
        /\ call[c].next \in Fragments(call[c].len)
    BY <1>0, CallFacts DEF Typed
  <2>2. Offset(call[c].next) \in Nat
    BY <2>1, PartFacts
  <2>3. \A k \in call[c].sure : k \in Nat \ {0}
    <3>1. call[c].sure \subseteq Cells
      BY <1>0, BusyPlace
    <3>2. QED
      BY <3>1, SizeFacts
  <2>4. QED
    BY <2>1, <2>2, <2>3, <1>0 DEF WritesAreRight
<1>s. ASSUME NEW c \in Calls, Busy(c), call[c].op = "write", call'[c] = call[c], file' = file,
             answers' \subseteq answers
      PROVE  Right(c)
  BY <1>s, <1>0 DEF IsWritten
<1>1. ASSUME NEW d \in Calls, NEW x, Began(d, x), NEW c \in Calls, Busy(c)', call'[c].op = "write"
      PROVE  Right(c)
  <2>1. /\ call'[d] = x /\ answers' = answers /\ file' = file
        /\ \A a \in answers : a.frag[1] # d
        /\ \A e \in Calls : e # d => call'[e] = call[e] /\ (Busy(e)' <=> Busy(e))
    BY <1>1 DEF Began
  <2>2. CASE c # d
    <3>1. call'[c] = call[c] /\ Busy(c) /\ answers' \subseteq answers
      BY <2>1, <2>2, <1>1
    <3> HIDE DEF Right
    <3>2. QED
      BY <3>1, <1>s, <1>1, <2>1
  <2>3. CASE c = d
    <3>1. /\ x.next = 1 /\ x.start \in Nat \ {0} /\ x.op = "write" /\ x.touched \subseteq Cells
      BY <2>1, <2>3, <1>1 DEF Began, NewCall
    <3>2. Offset(1) = 0
      BY OffsetFacts
    <3>3. x.touched = Place(x) \cup {k \in Cells : Len(file) < k /\ k < x.start}
          /\ x.sure = x.touched \ Late
      BY <3>1, <1>1 DEF Began
    <3>4. \A k \in x.sure : k < x.start => Len(file) < k /\ k \in Nat
      <4>1. \A k \in Place(x) : k >= x.start /\ k \in Int
        BY <3>1, <1>1 DEF Place, Began
      <4>2. QED
        BY <4>1, <3>1, <3>3, SizeFacts
    <3>5. Len(file) \in Nat
      BY DEF Typed, FileTyped
    <3>6. \A k \in x.sure : k < x.start /\ k <= Len(file') => file'[k] = Zero
      BY <3>4, <3>5, <2>1
    <3>7. There(c, x.start, Offset(x.next), x.count)
      BY <3>1, <3>2
    <3>8. \A b \in answers' : b.frag[1] # c
      BY <2>1, <2>3
    <3>9. call'[c] = x
      BY <2>1, <2>3
    <3> HIDE DEF There
    <3>10. QED
      BY <3>6, <3>7, <3>8, <3>9
  <2>4. QED
    BY <2>2, <2>3
<1>2. ASSUME NEW f \in pending, Executes(f), NEW c \in Calls, Busy(c)', call'[c].op = "write"
      PROVE  Right(c)
  <2>0. call' = call
    BY <1>2, ExecutesIs
  <2>1. Busy(c) /\ call[c].op = "write" /\ call'[c] = call[c]
    BY <2>0, <1>2 DEF Busy
  <2>2. ASSUME NEW data, ReadDone(f, data) PROVE Right(c)
    <3>1. file' = file /\ \A b \in answers' : b \in answers \/ b.frag = f
      BY <2>2 DEF ReadDone, Answer
    <3>2. f[1] # c
      BY <2>1, <2>2 DEF ReadDone
    <3>3. QED
      BY <3>1, <3>2, <2>1, <1>0 DEF IsWritten
  <2>3. ASSUME FailDone(f) PROVE Right(c)
    <3>1. file' = file /\ \A b \in answers' : b \in answers \/ (b.frag = f /\ b.res = -1)
      BY <2>3 DEF FailDone, Answer
    <3>2. ASSUME NEW b \in answers', b \notin answers, b.frag[1] = c
          PROVE  There(c, call'[c].start + Offset(b.frag[2]), Part(call'[c].len, b.frag[2]), b.res)
      <4>1. b.res = -1
        BY <3>1, <3>2
      <4>2. QED
        BY <4>1
    <3>3. QED
      BY <3>1, <3>2, <2>1, <1>0 DEF IsWritten
  <2>4. ASSUME NEW m \in Nat, WriteDone(f, m) PROVE Right(c)
    <3>1. \A b \in answers' : b \in answers \/ (b.frag = f /\ b.res = m)
      BY <2>4 DEF WriteDone, Answer
    <3>2. \A k \in call[c].sure : k < call[c].start /\ k <= Len(file') => file'[k] = Zero
      <4>1. ASSUME NEW k \in call[c].sure, k < call[c].start, k <= Len(file')
            PROVE  file'[k] = Zero
        <5>0. k \in Nat \ {0} /\ call[c].start \in Nat /\ (k <= Len(file) => file[k] = Zero)
              /\ Len(file) \in Nat
          BY <4>1, <2>1, <1>0 DEF Typed, FileTyped
        <5>1. CASE c # f[1]
          BY <5>0, <5>1, <4>1, <2>1, <2>4, SureStays
        <5>2. CASE c = f[1]
          <6>1. First(f) = call[c].start + Offset(f[2]) /\ Offset(f[2]) \in Nat
            BY <5>2, <2>1, <2>4, FragmentIsWritten, FragmentOf DEF Typed
          <6>2. ~(First(f) <= k)
            BY <6>1, <5>0, <4>1
          <6>3. (k <= Len(file) => file'[k] = file[k])
                /\ (Len(file) < k /\ k <= Len(file') => file'[k] = Zero)
            BY <6>2, <5>0, <5>2, <2>1, <2>4, FragmentIsWritten
          <6>4. QED
            BY <6>3, <5>0, <4>1
        <5>3. QED
          BY <5>1, <5>2
      <4>2. QED
        BY <4>1
    <3>3. There(c, call[c].start, Offset(call[c].next), call[c].count)
      <4> DEFINE p == call[c].start
                 n == Offset(call[c].next)
                 r == call[c].count
      <4>1. p \in Nat /\ n \in Nat /\ IsWritten(c, p, n, r)
        BY <2>1, <1>0
      <4> HIDE DEF p, n, r
      <4>2. There(c, p, n, r)
        BY <4>1, <2>0, <2>1, <2>4, WrittenStays
      <4>3. QED
        BY <4>2 DEF p, n, r
    <3>4. ASSUME NEW b \in answers, b.frag[1] = c
          PROVE  There(c, call[c].start + Offset(b.frag[2]), Part(call[c].len, b.frag[2]), b.res)
      <4> DEFINE p == call[c].start + Offset(b.frag[2])
                 n == Part(call[c].len, b.frag[2])
                 r == b.res
      <4>1. b.frag[2] \in Fragments(call[c].len) /\ call[c].len \in Nat \ {0}
            /\ call[c].start \in Nat
        BY <3>4, <2>1, <1>0 DEF Typed, AnswersTyped
      <4>2. p \in Nat /\ n \in Nat /\ IsWritten(c, p, n, r)
        <5>1. Offset(b.frag[2]) \in Nat /\ Part(call[c].len, b.frag[2]) \in 1..Fragment
          BY <4>1, PartFacts
        <5>2. p \in Nat /\ n \in Nat
          BY <4>1, <5>1, SizeFacts
        <5>3. QED
          BY <5>2, <3>4, <2>1, <1>0
      <4> HIDE DEF p, n, r
      <4>3. There(c, p, n, r)
        BY <4>2, <2>0, <2>1, <2>4, WrittenStays
      <4>4. QED
        BY <4>3 DEF p, n, r
    <3>5. ASSUME f[1] = c
          PROVE  There(c, call[c].start + Offset(f[2]), Part(call[c].len, f[2]), m)
      <4>1. /\ First(f) = call[c].start + Offset(f[2])
            /\ \A k \in Nat \ {0} : First(f) <= k /\ k <= First(f) + m - 1 =>
                 k <= Len(file') /\ file'[k] = Unit(c, k - call[c].start + 1)
        BY <3>5, <2>1, <2>4, FragmentIsWritten
      <4>2. First(f) \in Nat \ {0} /\ m \in Nat \ {0} /\ Len(file') \in Nat
        BY <2>4, FragmentOf, WriteChanges DEF Typed, WriteDone
      <4>3. First(f) + m - 1 \in Nat \ {0} /\ First(f) <= First(f) + m - 1
        BY <4>2
      <4>4. Len(file') >= First(f) + m - 1
        BY <4>1, <4>2, <4>3
      <4>5. \A k \in call[c].sure : k \in Nat \ {0}
        BY <2>1, <1>0
      <4>6. QED
        BY <4>1, <4>4, <4>5, <2>0
    <3> HIDE DEF There
    <3>6. ASSUME NEW b \in answers', b.frag[1] = c
          PROVE  There(c, call'[c].start + Offset(b.frag[2]), Part(call'[c].len, b.frag[2]), b.res)
      BY <3>1, <3>4, <3>5, <3>6, <2>1
    <3>7. QED
      BY <3>2, <3>3, <3>6, <2>1
  <2> HIDE DEF Right
  <2>5. QED
    BY <2>2, <2>3, <2>4, <1>2 DEF Executes
<1>3. ASSUME NEW d \in Calls, NEW a \in answers, Collect(d, a),
             NEW c \in Calls, Busy(c)', call'[c].op = "write"
      PROVE  Right(c)
  <2>0. Collected(d, a) /\ file' = file
    BY <1>3, CollectIs, TakenIs DEF Taken
  <2>1. answers' \subseteq answers
    BY <2>0 DEF Collected
  <2>2. CASE c # d
    <3>1. call'[c] = call[c] /\ Busy(c)
      BY <2>0, <2>2, <1>3 DEF Collected
    <3> HIDE DEF Right
    <3>2. QED
      BY <3>1, <2>0, <2>1, <1>s, <1>3
  <2>3. CASE c = d
    <3> DEFINE y == call[c]
               z == call'[c]
               o == Offset(y.next)
               h == Part(y.len, y.next)
    <3>1. MoreLeft(c, a)
      BY <2>0, <2>3, <1>3, MoreToTake
    <3>2. /\ Busy(c) /\ y.op = "write" /\ z.op = y.op /\ z.start = y.start /\ z.len = y.len
          /\ z.sure = y.sure /\ z.count = y.count + a.res /\ z.next = y.next + 1
          /\ a.frag[1] = c /\ a.frag[2] = y.next /\ a.res \in Nat /\ a.res <= h
          /\ y.count \in Nat /\ y.start \in Nat \ {0}
          /\ o \in Nat /\ h \in Nat \ {0} /\ Offset(y.next + 1) = o + h
      BY <3>1, <1>3 DEF MoreLeft
    <3>3. y.count <= o
      BY <3>2 DEF Typed, SoFar
    <3>4. /\ IsWritten(c, y.start, o, y.count)
          /\ IsWritten(c, y.start + o, h, a.res)
          /\ \A k \in y.sure : k \in Nat \ {0}
          /\ \A k \in y.sure : k < y.start /\ k <= Len(file) => file[k] = Zero
          /\ \A b \in answers : b.frag[1] = c =>
               IsWritten(c, y.start + Offset(b.frag[2]), Part(y.len, b.frag[2]), b.res)
      BY <3>2, <1>0
    <3>5. There(c, z.start, Offset(z.next), z.count)
      <4>1. y.start \in Nat \ {0} /\ FileTyped
        BY <3>2 DEF Typed
      <4>2. IsWritten(c, y.start, o + h, y.count + a.res)
        <5> HIDE DEF y, o, h
        <5>1. \A k \in call[c].sure : k \in Nat \ {0}
          BY <3>4 DEF y
        <5>2. QED
          BY <4>1, <5>1, <3>2, <3>3, <3>4, WrittenJoin
      <4>3. QED
        BY <4>2, <3>2, <2>0 DEF IsWritten
    <3>6. ASSUME NEW b \in answers', b.frag[1] = c
          PROVE  There(c, z.start + Offset(b.frag[2]), Part(z.len, b.frag[2]), b.res)
      <4>1. IsWritten(c, y.start + Offset(b.frag[2]), Part(y.len, b.frag[2]), b.res)
        BY <3>4, <3>6, <2>1
      <4>2. QED
        BY <4>1, <3>2, <2>0 DEF IsWritten
    <3>7. \A k \in z.sure : k < z.start /\ k <= Len(file') => file'[k] = Zero
      BY <3>2, <3>4, <2>0
    <3> HIDE DEF There
    <3>8. QED
      BY <3>5, <3>6, <3>7
  <2>4. QED
    BY <2>2, <2>3
<1>4. ASSUME NEW d \in Calls, GiveUp(d), NEW c \in Calls, Busy(c)', call'[c].op = "write"
      PROVE  Right(c)
  <2>1. GaveUp(d)
    BY <1>4, GiveUpIs
  <2>2. call'[c] = call[c] /\ Busy(c) /\ answers' \subseteq answers /\ file' = file
    BY <2>1, <1>4 DEF GaveUp
  <2> HIDE DEF Right
  <2>3. QED
    BY <2>2, <1>s, <1>4
<1>5. ASSUME UNCHANGED vars, NEW c \in Calls, Busy(c)', call'[c].op = "write" PROVE Right(c)
  <2>1. call' = call /\ answers' = answers /\ file' = file
    BY <1>5 DEF vars
  <2>2. call'[c] = call[c] /\ Busy(c) /\ answers' \subseteq answers
    BY <2>1, <1>5 DEF Busy
  <2> HIDE DEF Right
  <2>3. QED
    BY <2>1, <2>2, <1>s, <1>5
<1>6. ASSUME NEW c \in Calls, Busy(c)', call'[c].op = "write" PROVE Right(c)
  <2> HIDE DEF Right
  <2>1. QED
    BY <1>1, <1>2, <1>3, <1>4, <1>5, <1>6, StepIs DEF Executes
<1>7. QED
  BY <1>6 DEF WritesAreRight, IsWritten

-----------------------------------------------------------------------------
(* The units of a call. *)

(* The file is a sequence of units. *)
LEMMA FileIs ==
    ASSUME FileTyped
    PROVE  /\ Len(file) \in Nat /\ DOMAIN file = 1..Len(file)
           /\ \A k \in DOMAIN file : file[k] \in Units /\ file[k] = <<file[k][1], file[k][2]>>
                                     /\ file[k][1] \in Nat /\ file[k][2] \in Nat
<1>1. Len(file) \in Nat /\ DOMAIN file = 1..Len(file) /\ \A k \in 1..Len(file) : file[k] \in Units
  BY DEF FileTyped
<1>2. QED
  BY <1>1, UnitFacts

(* The places of the units of a call can be counted. *)
LEMMA PlacesFacts ==
    ASSUME FileTyped, NEW c, NEW i \in Nat, NEW j \in Nat
    PROVE  /\ IsFiniteSet(PlacesOf(c, i, j)) /\ Cardinality(PlacesOf(c, i, j)) \in Nat
           /\ PlacesOf(c, i, j) \subseteq 1..Len(file)
<1>1. PlacesOf(c, i, j) \subseteq 1..Len(file) /\ Len(file) \in Nat
  BY FileIs DEF PlacesOf
<1>2. IsFiniteSet(1..Len(file))
  BY <1>1, FS_Interval
<1>3. IsFiniteSet(PlacesOf(c, i, j))
  BY <1>1, <1>2, FS_Subset
<1>4. QED
  BY <1>1, <1>3, FS_CardinalityType

(* The units of two fragments that follow each other. *)
LEMMA PlacesJoin ==
    ASSUME FileTyped, NEW c, NEW i \in Nat, NEW j \in Nat, i <= j
    PROVE  Cardinality(PlacesOf(c, 0, j)) = Cardinality(PlacesOf(c, 0, i))
             + Cardinality(PlacesOf(c, i, j))
<1> DEFINE A == PlacesOf(c, 0, i)
           B == PlacesOf(c, i, j)
<1>1. A \cup B = PlacesOf(c, 0, j) /\ A \cap B = {}
  BY FileIs DEF PlacesOf
<1>2. IsFiniteSet(A) /\ IsFiniteSet(B) /\ Cardinality(A) \in Nat /\ Cardinality(B) \in Nat
  BY PlacesFacts
<1> HIDE DEF A, B
<1>3. Cardinality(A \cup B) = Cardinality(A) + Cardinality(B) - Cardinality(A \cap B)
  BY <1>2, FS_Union
<1>4. Cardinality(A \cap B) = 0
  BY <1>1, FS_EmptySet
<1>5. QED
  BY <1>1, <1>2, <1>3, <1>4 DEF A, B

\* A step leaves the units of call c as they are.
UnitsKept(c) ==
    /\ \A k \in DOMAIN file' : file'[k][1] = c => k \in DOMAIN file /\ file'[k] = file[k]
    /\ \A k \in DOMAIN file : file[k][1] = c => k \in DOMAIN file' /\ file'[k] = file[k]
    /\ call[c].op = "append" =>
        \A k \in DOMAIN file' : k >= call[c].start => k \in DOMAIN file /\ file'[k] = file[k]

(* The units of a call are where they were if the step kept them. *)
LEMMA KeptPlaces ==
    ASSUME NEW c, UnitsKept(c), NEW i, NEW j
    PROVE  PlacesOf(c, i, j)' = PlacesOf(c, i, j)
BY DEF UnitsKept, PlacesOf

(* ...and are as they were... *)
LEMMA KeptUnits ==
    ASSUME NEW c, UnitsKept(c), OwnUnitsOf(c),
           call'[c].op = call[c].op, call'[c].start = call[c].start, call'[c].len = call[c].len
    PROVE  OwnUnitsOf(c)'
<1>1. ASSUME NEW k \in DOMAIN file', file'[k][1] = c
      PROVE  /\ file'[k][2] \in 1..call'[c].len
             /\ call'[c].op = "write" => k = call'[c].start + file'[k][2] - 1
             /\ call'[c].op = "append" => k >= call'[c].start
  BY <1>1 DEF UnitsKept, OwnUnitsOf
<1>2. ASSUME NEW k \in DOMAIN file', NEW l \in DOMAIN file', file'[k] = file'[l], file'[k][1] = c
      PROVE  k = l
  BY <1>2 DEF UnitsKept, OwnUnitsOf
<1>3. ASSUME call'[c].op = "append", NEW k \in DOMAIN file', k >= call'[c].start
      PROVE  file'[k][1] = c
  BY <1>3 DEF UnitsKept, OwnUnitsOf
<1>4. QED
  BY <1>1, <1>2, <1>3 DEF OwnUnitsOf

(* ...and as many. *)
LEMMA KeptCounts ==
    ASSUME NEW c, UnitsKept(c), OwnCountsOf(c), call'[c] = call[c],
           \A f \in pending' : f[1] = c => f \in pending,
           \A b \in answers' : b.frag[1] = c /\ b.res >= 0 => b \in answers
    PROVE  OwnCountsOf(c)'
<1>1. \A i, j : PlacesOf(c, i, j)' = PlacesOf(c, i, j)
  BY KeptPlaces
<1>2. call'[c].count = Cardinality(PlacesOf(c, 0, Offset(call[c].next))')
  BY <1>1 DEF OwnCountsOf
<1>3. ASSUME NEW f \in pending', f[1] = c
      PROVE  PlacesOf(c, Offset(f[2]), Offset(f[2]) + Part(call[c].len, f[2]))' = {}
  <2>1. PlacesOf(c, Offset(f[2]), Offset(f[2]) + Part(call[c].len, f[2])) = {}
    BY <1>3 DEF OwnCountsOf
  <2>2. QED
    BY <2>1, <1>1 DEF PlacesOf
<1>4. ASSUME NEW b \in answers', b.frag[1] = c, b.res >= 0
      PROVE  b.res = Cardinality(PlacesOf(c, Offset(b.frag[2]),
                                          Offset(b.frag[2]) + Part(call[c].len, b.frag[2]))')
  BY <1>1, <1>4 DEF OwnCountsOf
<1>5. QED
  BY <1>2, <1>3, <1>4 DEF OwnCountsOf

(* A step that leaves the file alone keeps the units of every call. *)
LEMMA SameFileKeeps ==
    ASSUME file' = file, NEW c
    PROVE  UnitsKept(c)
BY DEF UnitsKept

(* What another call writes leaves the units as they are. *)
LEMMA OthersKeep ==
    ASSUME Typed, Ranges, OwnUnits, NEW f \in pending, NEW n \in Nat, WriteDone(f, n),
           NEW c \in Calls, Certain(c), c # f[1]
    PROVE  UnitsKept(c)
<1>0. /\ FileTyped /\ Len(file) \in Nat /\ DOMAIN file = 1..Len(file)
      /\ Len(file') \in Nat /\ DOMAIN file' = 1..Len(file') /\ Len(file) <= Len(file')
      /\ Len(file') <= Size /\ Size \in Nat
  <2>1. file' \in Seq(Units)
    BY DEF WriteDone
  <2>2. QED
    BY <2>1, FileIs, WriteChanges, SizeFacts DEF Typed
<1>1. Busy(c) /\ call[c].op # "read" /\ call[c].sure = call[c].touched
  BY DEF Certain
<1>2. /\ call[c].op \in IOOps /\ call[c].start \in Nat \ {0} /\ call[c].len \in Nat \ {0} /\ c # 0
  BY <1>1, CallFacts, SizeFacts DEF Typed
<1>3. \A k \in call[c].sure : /\ k <= Len(file') <=> k <= Len(file)
                              /\ k <= Len(file) => file'[k] = file[k]
  BY <1>1, SureStays
<1>4. /\ Place(call[c]) \subseteq call[c].touched
      /\ call[c].op = "append" => call[c].touched = {k \in Cells : k >= call[c].start}
  BY <1>1 DEF Ranges, Touching
<1>5. OwnUnitsOf(c)
  BY DEF OwnUnits
<1>6. ASSUME NEW k \in DOMAIN file', file'[k][1] = c PROVE k \in DOMAIN file /\ file'[k] = file[k]
  <2>1. k \in 1..Len(file')
    BY <1>0
  <2>2. file'[k] = IF First(f) <= k /\ k <= First(f) + n - 1
                   THEN Unit(f[1], Offset(f[2]) + k - First(f) + 1)
                   ELSE IF k <= Len(file) THEN file[k] ELSE Zero
    BY <2>1 DEF WriteDone
  <2>3. file'[k] # Zero /\ file'[k] # Unit(f[1], Offset(f[2]) + k - First(f) + 1)
    <3>1. Zero[1] = 0 /\ Unit(f[1], Offset(f[2]) + k - First(f) + 1)[1] = f[1]
      BY UnitFacts
    <3>2. QED
      BY <3>1, <1>2, <1>6
  <2>4. k <= Len(file) /\ file'[k] = file[k]
    BY <2>2, <2>3
  <2>5. QED
    BY <2>1, <2>4, <1>0
<1>7. ASSUME NEW k \in DOMAIN file, file[k][1] = c PROVE k \in DOMAIN file' /\ file'[k] = file[k]
  <2>1. /\ k \in 1..Len(file)
        /\ file[k][2] \in 1..call[c].len
        /\ call[c].op = "write" => k = call[c].start + file[k][2] - 1
        /\ call[c].op = "append" => k >= call[c].start
    BY <1>0, <1>5, <1>7 DEF OwnUnitsOf
  <2>2. k \in Cells
    BY <2>1, <1>0, SizeFacts
  <2>3. k \in call[c].touched
    <3>1. CASE call[c].op = "append"
      BY <3>1, <2>1, <2>2, <1>4
    <3>2. CASE call[c].op = "write"
      <4>1. k \in call[c].start .. (call[c].start + call[c].len - 1)
        <5> DEFINE u == file[k][2]
                   s == call[c].start
                   m == call[c].len
        <5>1. u \in 1..m /\ k = s + u - 1 /\ s \in Nat /\ m \in Nat
          BY <2>1, <3>2, <1>2
        <5> HIDE DEF u, s, m
        <5>2. k \in s .. (s + m - 1)
          BY <5>1
        <5>3. QED
          BY <5>2 DEF s, m
      <4>2. QED
        BY <4>1, <1>4 DEF Place
    <3>3. QED
      BY <3>1, <3>2, <1>1, <1>2 DEF IOOps
  <2>4. QED
    BY <2>1, <2>3, <1>0, <1>1, <1>3
<1>8. ASSUME call[c].op = "append", NEW k \in DOMAIN file', k >= call[c].start
      PROVE  k \in DOMAIN file /\ file'[k] = file[k]
  <2>1. k \in 1..Len(file') /\ k \in Cells
    BY <1>0, SizeFacts
  <2>2. k \in call[c].sure
    BY <2>1, <1>1, <1>4, <1>8
  <2>3. QED
    BY <2>1, <2>2, <1>0, <1>3
<1>9. QED
  BY <1>6, <1>7, <1>8 DEF UnitsKept

\* The units of fragment f are added to those of its call.
UnitsAdded(f, n) ==
    LET s == First(f)
        w == First(f) + n - 1
    IN  /\ \A k \in DOMAIN file' : file'[k][1] = f[1] =>
            \/ s <= k /\ k <= w
            \/ k \in DOMAIN file /\ file'[k] = file[k] /\ ~(s <= k /\ k <= w)
        /\ \A k \in s..w : k \in DOMAIN file' /\ file'[k] = Unit(f[1], Offset(f[2]) + k - s + 1)
        /\ \A k \in DOMAIN file : file[k][1] = f[1] =>
            k \in DOMAIN file' /\ file'[k] = file[k] /\ ~(s <= k /\ k <= w)
            /\ ~(Offset(f[2]) < file[k][2] /\ file[k][2] <= Offset(f[2]) + Share(f))

(* The execution of a fragment of a call adds its first n units, and keeps the others. *)
LEMMA OwnAdds ==
    ASSUME Typed, OwnUnits, OwnCounts, NEW f \in pending, NEW n \in Nat, WriteDone(f, n),
           Certain(f[1])
    PROVE  UnitsAdded(f, n)
<1> DEFINE c == f[1]
           s == First(f)
           w == First(f) + n - 1
           o == Offset(f[2])
           h == Share(f)
<1>0. /\ FileTyped /\ Len(file) \in Nat /\ DOMAIN file = 1..Len(file)
      /\ Len(file') \in Nat /\ DOMAIN file' = 1..Len(file') /\ Len(file) <= Len(file')
  <2>1. file' \in Seq(Units)
    BY DEF WriteDone
  <2>2. QED
    BY <2>1, FileIs, WriteChanges DEF Typed
<1>1. /\ c \in Calls /\ s \in Nat \ {0} /\ h \in Nat \ {0} /\ o \in Nat /\ o + h <= call[c].len
      /\ call[c].op \in {"write", "append"} /\ c # 0
  <2>1. call[c].op # "read"
    BY DEF Certain
  <2>2. QED
    BY <2>1, FragmentOf, SizeFacts DEF Typed, IOOps
<1>2. n \in Nat \ {0} /\ n <= h /\ w = s + n - 1 /\ w \in Nat
      /\ Len(file') = IF Len(file) <= w THEN w ELSE Len(file)
  BY <1>1 DEF WriteDone
<1>3. \A k \in 1..Len(file') :
        file'[k] = IF s <= k /\ k <= w THEN Unit(c, o + k - s + 1)
                   ELSE IF k <= Len(file) THEN file[k] ELSE Zero
  BY DEF WriteDone
<1>4. OwnUnitsOf(c) /\ OwnCountsOf(c)
  BY <1>1 DEF OwnUnits, OwnCounts
<1>5. PlacesOf(c, o, o + h) = {}
  BY <1>4 DEF OwnCountsOf, Share
<1>6. call[c].start \in Nat \ {0}
  BY <1>1, CallFacts DEF Typed
<1>7. /\ call[c].op = "append" => s = Len(file) + 1
      /\ call[c].op = "write" => s = call[c].start + o
  BY DEF First
<1> HIDE DEF s, w, o, h, c
<1>8. ASSUME NEW k \in DOMAIN file', file'[k][1] = c
      PROVE  \/ s <= k /\ k <= w
             \/ k \in DOMAIN file /\ file'[k] = file[k] /\ ~(s <= k /\ k <= w)
  <2>1. Zero[1] = 0
    BY UnitFacts
  <2>2. ~(s <= k /\ k <= w) => k <= Len(file) /\ file'[k] = file[k]
    BY <2>1, <1>0, <1>1, <1>3, <1>8
  <2>3. QED
    BY <2>2, <1>0
<1>9. ASSUME NEW k \in s..w PROVE k \in DOMAIN file' /\ file'[k] = Unit(c, o + k - s + 1)
  <2>1. k \in 1..Len(file')
    BY <1>0, <1>1, <1>2
  <2>2. QED
    BY <2>1, <1>0, <1>3
<1>10. ASSUME NEW k \in DOMAIN file, file[k][1] = c
       PROVE  k \in DOMAIN file' /\ file'[k] = file[k] /\ ~(s <= k /\ k <= w)
              /\ ~(o < file[k][2] /\ file[k][2] <= o + h)
  <2> DEFINE u == file[k][2]
  <2>1. k \in 1..Len(file) /\ k \in 1..Len(file') /\ u \in Nat
    BY <1>0, FileIs
  <2>2. ~(o < u /\ u <= o + h)
    BY <1>5, <1>10 DEF PlacesOf
  <2>3. call[c].op = "write" => k = call[c].start + u - 1
    BY <1>4, <1>10 DEF OwnUnitsOf
  <2> HIDE DEF u
  <2>4. ~(s <= k /\ k <= w)
    <3>1. CASE call[c].op = "append"
      BY <3>1, <2>1, <1>0, <1>7
    <3>2. CASE call[c].op = "write"
      <4> DEFINE t == call[c].start
      <4>1. /\ k = t + u - 1 /\ s = t + o /\ ~(o < u /\ u <= o + h) /\ w = s + n - 1 /\ n <= h
            /\ u \in Nat /\ o \in Nat /\ h \in Nat /\ n \in Nat /\ t \in Nat
        BY <3>2, <2>1, <2>2, <2>3, <1>1, <1>2, <1>6, <1>7
      <4> HIDE DEF t
      <4>2. QED
        BY <4>1
    <3>3. QED
      BY <3>1, <3>2, <1>1
  <2>5. file'[k] = file[k]
    BY <2>1, <2>4, <1>3
  <2>6. QED
    BY <2>1, <2>2, <2>4, <2>5, <1>0 DEF u
<1>11. QED
  BY <1>8, <1>9, <1>10 DEF UnitsAdded, s, w, o, h, c

\* What is there of fragment f after it was written.
LEMMA AddedPlaces ==
    ASSUME Typed, NEW f \in pending, NEW n \in Nat, WriteDone(f, n), UnitsAdded(f, n)
    PROVE  /\ PlacesOf(f[1], Offset(f[2]), Offset(f[2]) + Share(f))'
                = First(f) .. (First(f) + n - 1)
           /\ \A i, j \in Nat : j <= Offset(f[2]) \/ Offset(f[2]) + Share(f) <= i =>
                PlacesOf(f[1], i, j)' = PlacesOf(f[1], i, j)
<1> DEFINE c == f[1]
           s == First(f)
           w == First(f) + n - 1
           o == Offset(f[2])
           h == Share(f)
<1>1. s \in Nat \ {0} /\ h \in Nat \ {0} /\ o \in Nat /\ n \in Nat \ {0} /\ n <= h /\ w = s + n - 1
  BY FragmentOf DEF Typed, WriteDone
<1>2. /\ FileTyped
      /\ \A k \in DOMAIN file : file[k][2] \in Nat
  BY FileIs DEF Typed
<1>3. /\ \A k \in DOMAIN file' : file'[k][1] = c =>
            \/ s <= k /\ k <= w
            \/ k \in DOMAIN file /\ file'[k] = file[k] /\ ~(s <= k /\ k <= w)
      /\ \A k \in s..w : k \in DOMAIN file' /\ file'[k] = Unit(c, o + k - s + 1)
      /\ \A k \in DOMAIN file : file[k][1] = c =>
            k \in DOMAIN file' /\ file'[k] = file[k] /\ ~(s <= k /\ k <= w)
            /\ ~(o < file[k][2] /\ file[k][2] <= o + h)
  BY DEF UnitsAdded
<1>4. DOMAIN file' \subseteq Nat
  <2>1. file' \in Seq(Units)
    BY DEF WriteDone
  <2>2. QED
    BY <2>1
<1> HIDE DEF s, w, o, h, c
<1>5. ASSUME NEW k \in s..w
      PROVE  /\ k \in DOMAIN file' /\ file'[k][1] = c /\ file'[k][2] = o + k - s + 1
             /\ o < file'[k][2] /\ file'[k][2] <= o + h
  <2> DEFINE v == o + k - s + 1
  <2>a. k \in DOMAIN file' /\ file'[k] = Unit(c, v)
    BY <1>3
  <2> HIDE DEF v
  <2>b. file'[k][1] = c /\ file'[k][2] = v
    BY <2>a DEF Unit
  <2>1. file'[k][1] = c /\ file'[k][2] = o + k - s + 1 /\ k \in DOMAIN file'
    BY <2>a, <2>b DEF v
  <2>2. o < o + k - s + 1 /\ o + k - s + 1 <= o + h
    BY <1>1
  <2>3. QED
    BY <2>1, <2>2
<1>6. PlacesOf(c, o, o + h)' = {k \in DOMAIN file' : file'[k][1] = c /\ o < file'[k][2]
                                                     /\ file'[k][2] <= o + h}
  BY DEF PlacesOf, c, o, h, Offset, Share, Part, WriteDone
<1>7. PlacesOf(c, o, o + h)' = s..w
  <2>1. \A k \in DOMAIN file' : s <= k /\ k <= w => k \in s..w
    BY <1>1, <1>4
  <2>2. ASSUME NEW k \in DOMAIN file', file'[k][1] = c, o < file'[k][2], file'[k][2] <= o + h
        PROVE  k \in s..w
    BY <2>1, <2>2, <1>3
  <2>3. QED
    BY <2>2, <1>5, <1>6
<1>8. ASSUME NEW i \in Nat, NEW j \in Nat, j <= o \/ o + h <= i
      PROVE  PlacesOf(c, i, j)' = PlacesOf(c, i, j)
  <2>1. PlacesOf(c, i, j)' = {k \in DOMAIN file' : file'[k][1] = c /\ i < file'[k][2]
                                                   /\ file'[k][2] <= j}
    BY DEF PlacesOf, c
  <2>2. ASSUME NEW k \in DOMAIN file', file'[k][1] = c, i < file'[k][2], file'[k][2] <= j
        PROVE  k \in DOMAIN file /\ file'[k] = file[k]
    <3>1. CASE s <= k /\ k <= w
      <4>1. k \in s..w
        BY <3>1, <1>1, <1>4
      <4> DEFINE u == file'[k][2]
      <4>2. u = o + k - s + 1 /\ k \in Nat
        BY <4>1, <1>4, <1>5
      <4>3. o < u /\ u <= o + h /\ i < u /\ u <= j
        BY <4>1, <1>5, <2>2
      <4> HIDE DEF u
      <4>4. FALSE
        BY <4>2, <4>3, <1>1, <1>8
      <4>5. QED
        BY <4>4
    <3>2. QED
      BY <3>1, <2>2, <1>3
  <2>3. QED
    BY <2>1, <2>2, <1>3 DEF PlacesOf
<1>9. QED
  BY <1>7, <1>8 DEF s, w, o, h, c

(* Each unit that was added is there once, and where it belongs. *)
LEMMA AddedUnits ==
    ASSUME Typed, Ranges, NEW f \in pending, NEW n \in Nat, WriteDone(f, n), UnitsAdded(f, n),
           Certain(f[1]), OwnUnitsOf(f[1])
    PROVE  OwnUnitsOf(f[1])'
<1> DEFINE c == f[1]
           s == First(f)
           w == First(f) + n - 1
           o == Offset(f[2])
           h == Share(f)
           t == call[f[1]].start
           m == call[f[1]].len
<1>1. /\ s \in Nat \ {0} /\ h \in Nat \ {0} /\ o \in Nat /\ n \in Nat \ {0} /\ n <= h
      /\ w = s + n - 1 /\ o + h <= m /\ call[c].op \in IOOps /\ c \in Calls
  BY FragmentOf DEF Typed, WriteDone
<1>2. t \in Nat \ {0} /\ m \in Nat /\ Busy(c) /\ call[c].op # "read"
  BY <1>1, CallFacts, SizeFacts DEF Typed, Certain, IOOps
<1>3. /\ FileTyped /\ Len(file) \in Nat /\ DOMAIN file = 1..Len(file)
      /\ \A k \in DOMAIN file : file[k][2] \in Nat
  BY FileIs DEF Typed
<1>4. /\ \A k \in DOMAIN file' : file'[k][1] = c =>
            \/ s <= k /\ k <= w
            \/ k \in DOMAIN file /\ file'[k] = file[k] /\ ~(s <= k /\ k <= w)
      /\ \A k \in s..w : k \in DOMAIN file' /\ file'[k] = Unit(c, o + k - s + 1)
      /\ \A k \in DOMAIN file : file[k][1] = c =>
            k \in DOMAIN file' /\ file'[k] = file[k] /\ ~(s <= k /\ k <= w)
            /\ ~(o < file[k][2] /\ file[k][2] <= o + h)
  BY DEF UnitsAdded
<1>5. /\ call[c].op = "write" => s = t + o
      /\ call[c].op = "append" => s = Len(file) + 1 /\ t <= Len(file) + 1
  BY <1>1, <1>2 DEF First, Ranges, Touching
<1>6. /\ \A k \in DOMAIN file : file[k][1] = c =>
           /\ file[k][2] \in 1..m
           /\ call[c].op = "write" => k = t + file[k][2] - 1
           /\ call[c].op = "append" => k >= t
      /\ \A k, l \in DOMAIN file : file[k] = file[l] /\ file[k][1] = c => k = l
      /\ call[c].op = "append" => \A k \in DOMAIN file : k >= t => file[k][1] = c
  BY DEF OwnUnitsOf
<1>7. /\ call' = call
      /\ DOMAIN file' = 1..Len(file') /\ Len(file') \in Nat
      /\ Len(file') = IF Len(file) <= w THEN w ELSE Len(file)
  <2>1. file' \in Seq(Units)
    BY DEF WriteDone
  <2>2. QED
    BY <2>1 DEF WriteDone
<1>8. OwnUnitsOf(c)' <=>
        /\ \A k \in DOMAIN file' : file'[k][1] = c =>
             /\ file'[k][2] \in 1..m
             /\ call[c].op = "write" => k = t + file'[k][2] - 1
             /\ call[c].op = "append" => k >= t
        /\ \A k, l \in DOMAIN file' : file'[k] = file'[l] /\ file'[k][1] = c => k = l
        /\ call[c].op = "append" => \A k \in DOMAIN file' : k >= t => file'[k][1] = c
  BY <1>7 DEF OwnUnitsOf
<1> HIDE DEF s, w, o, h, t, m, c
<1>9. ASSUME NEW k \in DOMAIN file', s <= k, k <= w
      PROVE  file'[k][1] = c /\ file'[k][2] = o + k - s + 1 /\ k \in Nat
  <2>1. k \in s..w /\ k \in Nat
    BY <1>1, <1>7, <1>9
  <2> DEFINE v == o + k - s + 1
  <2>2. file'[k] = Unit(c, v)
    BY <2>1, <1>4
  <2> HIDE DEF v
  <2>3. file'[k][1] = c /\ file'[k][2] = v
    BY <2>2 DEF Unit
  <2>4. QED
    BY <2>1, <2>3 DEF v
<1>10. ASSUME NEW k \in DOMAIN file', file'[k][1] = c
       PROVE  /\ file'[k][2] \in 1..m
              /\ call[c].op = "write" => k = t + file'[k][2] - 1
              /\ call[c].op = "append" => k >= t
  <2>1. CASE s <= k /\ k <= w
    <3> DEFINE u == file'[k][2]
    <3>1. u = o + k - s + 1 /\ k \in Nat
      BY <2>1, <1>9
    <3> HIDE DEF u
    <3>2. u \in 1..m
      BY <3>1, <2>1, <1>1, <1>2
    <3>3. call[c].op = "write" => k = t + u - 1
      BY <3>1, <1>1, <1>2, <1>5
    <3>4. call[c].op = "append" => k >= t
      BY <3>1, <2>1, <1>1, <1>2, <1>3, <1>5
    <3>5. QED
      BY <3>2, <3>3, <3>4 DEF u
  <2>2. CASE ~(s <= k /\ k <= w)
    BY <2>2, <1>4, <1>6, <1>10
  <2>3. QED
    BY <2>1, <2>2
<1>11. ASSUME NEW k \in DOMAIN file', NEW l \in DOMAIN file', file'[k] = file'[l], file'[k][1] = c
       PROVE  k = l
  <2>1. ASSUME NEW x \in DOMAIN file', NEW y \in DOMAIN file', file'[x] = file'[y],
               file'[x][1] = c, s <= x /\ x <= w
        PROVE  x = y
    <3> DEFINE u == file'[x][2]
    <3>1. u = o + x - s + 1 /\ x \in Nat
      BY <2>1, <1>9
    <3>2. CASE s <= y /\ y <= w
      <4>1. u = o + y - s + 1 /\ y \in Nat
        BY <2>1, <3>2, <1>9
      <4> HIDE DEF u
      <4>2. QED
        BY <3>1, <4>1, <1>1
    <3>3. CASE ~(s <= y /\ y <= w)
      <4>1. y \in DOMAIN file /\ file[y][1] = c /\ file[y][2] = u
        BY <2>1, <3>3, <1>4
      <4>2. ~(o < u /\ u <= o + h)
        BY <4>1, <1>4
      <4> HIDE DEF u
      <4>3. FALSE
        BY <4>2, <3>1, <2>1, <1>1
      <4>4. QED
        BY <4>3
    <3>4. QED
      BY <3>2, <3>3
  <2>2. CASE s <= k /\ k <= w
    BY <2>1, <2>2, <1>11
  <2>3. CASE s <= l /\ l <= w
    <3>1. l = k
      BY <2>1, <2>3, <1>11
    <3>2. QED
      BY <3>1
  <2>4. CASE ~(s <= k /\ k <= w) /\ ~(s <= l /\ l <= w)
    <3>1. k \in DOMAIN file /\ file'[k] = file[k] /\ l \in DOMAIN file /\ file'[l] = file[l]
      BY <2>4, <1>4, <1>11
    <3>2. QED
      BY <3>1, <1>6, <1>11
  <2>5. QED
    BY <2>2, <2>3, <2>4
<1>12. ASSUME call[c].op = "append", NEW k \in DOMAIN file', k >= t
       PROVE  file'[k][1] = c
  <2>1. CASE k <= Len(file)
    <3>1. k \in DOMAIN file
      BY <2>1, <1>3, <1>7
    <3>2. file[k][1] = c
      BY <3>1, <1>6, <1>12
    <3>3. QED
      BY <3>1, <3>2, <1>4
  <2>2. CASE ~(k <= Len(file))
    <3>1. s = Len(file) + 1 /\ k \in 1..Len(file')
      BY <1>5, <1>7, <1>12
    <3>2. s <= k /\ k <= w
      BY <3>1, <2>2, <1>1, <1>3, <1>7
    <3>3. QED
      BY <3>2, <1>9
  <2>3. QED
    BY <2>1, <2>2
<1>13. OwnUnitsOf(c)'
  BY <1>8, <1>10, <1>11, <1>12
<1>14. QED
  BY <1>13 DEF c

(* The answer counts the units that were added. *)
LEMMA AddedCounts ==
    ASSUME Typed, NEW f \in pending, NEW n \in Nat, WriteDone(f, n), UnitsAdded(f, n),
           Certain(f[1]), OwnCountsOf(f[1])
    PROVE  OwnCountsOf(f[1])'
<1> DEFINE c == f[1]
           m == call[f[1]].len
           s == First(f)
           o == Offset(f[2])
           h == Share(f)
           x == call[f[1]].next
<1>1. /\ f = <<f[1], f[2]>> /\ c \in Calls /\ f[2] \in Fragments(m) /\ call[c].op \in IOOps
      /\ s \in Nat \ {0} /\ h \in Nat \ {0} /\ o \in Nat /\ h = Part(m, f[2])
  BY FragmentOf DEF Typed, Share
<1>2. /\ Busy(c) /\ m \in Nat \ {0} /\ x \in Fragments(m) /\ f[2] >= x
  BY <1>1, CallFacts DEF Typed, PendingTyped, Certain, IOOps
<1>3. /\ PlacesOf(c, o, o + h)' = s .. (s + n - 1)
      /\ \A i, j \in Nat : j <= o \/ o + h <= i => PlacesOf(c, i, j)' = PlacesOf(c, i, j)
  BY AddedPlaces
<1> DEFINE New(i, j) == {k \in DOMAIN file' : file'[k][1] = c
                                              /\ i < file'[k][2] /\ file'[k][2] <= j}
<1>n. \A i, j \in Nat : j <= o \/ o + h <= i => New(i, j) = PlacesOf(c, i, j)
  <2>1. \A i, j : PlacesOf(c, i, j)' = New(i, j)
    BY DEF PlacesOf
  <2>2. QED
    BY <2>1, <1>3
<1> HIDE DEF New
<1>4. call' = call /\ pending' = pending \ {f} /\ n \in Nat \ {0}
      /\ \A b \in answers' : b \in answers \/ (b.frag = f /\ b.res = n)
  BY DEF WriteDone, Answer
<1>5. ASSUME NEW i \in Fragments(m), i # f[2]
      PROVE  PlacesOf(c, Offset(i), Offset(i) + Part(m, i))'
               = PlacesOf(c, Offset(i), Offset(i) + Part(m, i))
  <2> DEFINE p == Offset(i)
             q == Offset(i) + Part(m, i)
  <2>1. p \in Nat /\ Part(m, i) \in 1..Fragment /\ i \in Nat /\ f[2] \in Nat
    BY <1>1, <1>2, PartFacts
  <2>2. q \in Nat
    BY <2>1, SizeFacts
  <2>3. q <= o \/ o + h <= p
    BY <2>1, <1>1, <1>2, <1>5, PartFacts
  <2> HIDE DEF p, q, o, h
  <2>4. New(p, q) = PlacesOf(c, p, q)
    BY <2>1, <2>2, <2>3, <1>n
  <2>5. QED
    BY <2>4, <1>4 DEF New, p, q, PlacesOf, Offset, Part
<1>6. PlacesOf(c, 0, Offset(x))' = PlacesOf(c, 0, Offset(x))
  <2> DEFINE q == Offset(x)
  <2>1. x \in Nat \ {0} /\ f[2] \in Nat \ {0} /\ q \in Nat
    BY <1>1, <1>2, PartFacts
  <2>2. q <= o
    <3>1. CASE x = f[2]
      BY <3>1, <2>1
    <3>2. CASE x < f[2]
      <4>1. Offset(x) + Part(m, x) <= Offset(f[2]) /\ Part(m, x) \in 1..Fragment
        BY <3>2, <1>1, <1>2, PartFacts
      <4>2. QED
        BY <4>1, <2>1, <1>1, SizeFacts
    <3>3. QED
      BY <3>1, <3>2, <2>1, <1>2
  <2> HIDE DEF q, o, h
  <2>3. New(0, q) = PlacesOf(c, 0, q)
    BY <2>1, <2>2, <1>n
  <2>4. QED
    BY <2>3, <1>4 DEF New, q, x, PlacesOf, Offset
<1>7. Cardinality(PlacesOf(c, o, o + h)') = n
  <2>1. Cardinality(s .. (s + n - 1)) = (s + n - 1) - s + 1
    <3>1. s \in Int /\ s + n - 1 \in Int /\ s <= s + n - 1
      BY <1>1, <1>4
    <3> HIDE DEF s
    <3>2. QED
      BY <3>1, FS_Interval
  <2>2. (s + n - 1) - s + 1 = n
    BY <1>1, <1>4
  <2>3. QED
    BY <2>1, <2>2, <1>3
<1>8. /\ call[c].count = Cardinality(PlacesOf(c, 0, Offset(x)))
      /\ \A g \in pending : g[1] = c => PlacesOf(c, Offset(g[2]), Offset(g[2]) + Part(m, g[2])) = {}
      /\ \A b \in answers : b.frag[1] = c /\ b.res >= 0 =>
           b.res =
             Cardinality(PlacesOf(c, Offset(b.frag[2]), Offset(b.frag[2]) + Part(m, b.frag[2])))
  BY DEF OwnCountsOf
<1>9. call[c].count = Cardinality(PlacesOf(c, 0, Offset(x))')
  BY <1>6, <1>8
<1>10. ASSUME NEW g \in pending', g[1] = c
       PROVE  PlacesOf(c, Offset(g[2]), Offset(g[2]) + Part(m, g[2]))' = {}
  <2>1. g \in pending /\ g # f
    BY <1>4
  <2>2. g = <<g[1], g[2]>> /\ g[2] \in Fragments(m)
    BY <2>1, <1>10, FragmentOf DEF Typed
  <2>3. g[2] # f[2]
    BY <2>1, <2>2, <1>1, <1>10
  <2>4. QED
    BY <2>1, <2>2, <2>3, <1>5, <1>8, <1>10
<1>11. ASSUME NEW b \in answers', b.frag[1] = c, b.res >= 0
       PROVE  b.res =
                Cardinality(PlacesOf(c, Offset(b.frag[2]), Offset(b.frag[2]) + Part(m, b.frag[2]))')
  <2>1. CASE b \in answers
    <3>1. /\ b.frag \in Calls \X (Nat \ {0}) /\ b.frag \notin pending /\ b.frag[2] \in Fragments(m)
      BY <2>1, <1>11 DEF Typed, AnswersTyped, AnswerRecord
    <3>2. b.frag[2] # f[2]
      <4>1. b.frag = <<b.frag[1], b.frag[2]>>
        BY <3>1
      <4>2. QED
        BY <4>1, <3>1, <1>1, <1>11
    <3>3. QED
      BY <2>1, <3>1, <3>2, <1>5, <1>8, <1>11
  <2>2. CASE b.frag = f /\ b.res = n
    BY <2>2, <1>1, <1>4, <1>7 DEF PlacesOf, Offset, Share, Part
  <2>3. QED
    BY <2>1, <2>2, <1>4
<1>12. QED
  BY <1>4, <1>9, <1>10, <1>11 DEF OwnCountsOf

(* A call that has not begun has no unit in the file. *)
LEMMA FreshNext ==
    ASSUME Typed, Fresh, [Next]_vars
    PROVE  Fresh'
<1>1. ASSUME NEW d \in Calls, NEW x, Began(d, x) PROVE Fresh'
  <2>1. file' = file /\ \A c \in Calls : call[c].state # "idle" => call'[c].state # "idle"
    BY <1>1 DEF Began
  <2>2. QED
    BY <2>1 DEF Fresh
<1>2. ASSUME NEW d \in Calls, NEW a \in answers, Collect(d, a) PROVE Fresh'
  <2>1. Collected(d, a) /\ file' = file
    BY <1>2, CollectIs, TakenIs DEF Taken
  <2>2. \A c \in Calls : call[c].state # "idle" => call'[c].state # "idle"
    BY <2>1, DoneIs DEF Collected
  <2>3. QED
    BY <2>1, <2>2 DEF Fresh
<1>3. ASSUME NEW d \in Calls, GiveUp(d) PROVE Fresh'
  <2>1. GaveUp(d)
    BY <1>3, GiveUpIs
  <2>2. file' = file /\ \A c \in Calls : call[c].state # "idle" => call'[c].state # "idle"
    BY <2>1 DEF GaveUp
  <2>3. QED
    BY <2>2 DEF Fresh
<1>4. ASSUME NEW f \in pending, NEW n \in Nat, WriteDone(f, n) PROVE Fresh'
  <2>1. call' = call /\ f[1] \in Calls /\ call[f[1]].op \in IOOps
    BY <1>4, FragmentOf DEF WriteDone, Typed
  <2>2. call[f[1]].state # "idle"
    BY <2>1 DEF Typed, CallsTyped, NoCall, IOOps
  <2>3. file' \in Seq(Units)
    BY <1>4 DEF WriteDone
  <2>4. ASSUME NEW k \in DOMAIN file' PROVE file'[k][1] = 0 \/ file'[k][1] = f[1]
                                           \/ (k \in DOMAIN file /\ file'[k] = file[k])
    <3>1. k \in 1..Len(file')
      BY <2>3
    <3>2. Zero[1] = 0 /\ \A j : Unit(f[1], j)[1] = f[1]
      BY UnitFacts
    <3>3. Len(file) \in Nat /\ DOMAIN file = 1..Len(file)
      BY FileIs DEF Typed
    <3>4. k <= Len(file) => k \in DOMAIN file
      BY <3>1, <3>3
    <3> DEFINE v == Offset(f[2]) + k - First(f) + 1
    <3>5. file'[k] = Unit(f[1], v) \/ (k <= Len(file) /\ file'[k] = file[k]) \/ file'[k] = Zero
      BY <3>1, <1>4 DEF WriteDone
    <3> HIDE DEF v
    <3>6. QED
      BY <3>2, <3>4, <3>5
  <2>5. 0 \notin Calls
    BY SizeFacts
  <2>6. QED
    BY <2>1, <2>2, <2>4, <2>5 DEF Fresh
<1>5. ASSUME NEW f \in pending, (\E data : ReadDone(f, data)) \/ FailDone(f) PROVE Fresh'
  BY <1>5 DEF ReadDone, FailDone, Fresh
<1>6. ASSUME UNCHANGED vars PROVE Fresh'
  BY <1>6 DEF vars, Fresh
<1>7. QED
  BY <1>1, <1>2, <1>3, <1>4, <1>5, <1>6, StepIs

\* What the invariant says of the units of call c.
Own(c) == OwnUnitsOf(c) /\ OwnCountsOf(c)

(* A call that begins has no unit in the file, and no answer. *)
LEMMA OwnBegan ==
    ASSUME Typed, Fresh, NEW c \in Calls, NEW x, Began(c, x)
    PROVE  Own(c)'
<1>1. /\ file' = file /\ call'[c] = x /\ x.next = 1 /\ x.count = 0 /\ answers' = answers
      /\ \A a \in answers : a.frag[1] # c
      /\ call[c].state = "idle" /\ x.op = "append" => x.start = Len(file) + 1
  BY DEF Began, NewCall
<1>2. \A k \in DOMAIN file : file[k][1] # c
  BY <1>1 DEF Fresh, Began
<1>3. \A i, j : PlacesOf(c, i, j)' = {}
  BY <1>1, <1>2 DEF PlacesOf
<1>4. \A k \in DOMAIN file : k <= Len(file) /\ k \in Nat /\ Len(file) \in Nat
  BY FileIs DEF Typed
<1>5. OwnUnitsOf(c)'
  <2>1. call'[c].op = "append" => \A k \in DOMAIN file' : ~(k >= call'[c].start)
    BY <1>1, <1>4 DEF Began
  <2>2. QED
    BY <2>1, <1>1, <1>2 DEF OwnUnitsOf
<1>6. OwnCountsOf(c)'
  <2>1. call'[c].count = Cardinality(PlacesOf(c, 0, Offset(call[c].next))')
    BY <1>1, <1>3, FS_EmptySet
  <2>2. \A f \in pending' :
          PlacesOf(c, Offset(f[2]), Offset(f[2]) + Part(call[c].len, f[2]))' = {}
    BY <1>3
  <2>3. QED
    BY <2>1, <2>2, <1>1 DEF OwnCountsOf
<1>7. QED
  BY <1>5, <1>6 DEF Own

(* A step that has nothing to do with a call keeps its units and their number. *)
LEMMA OwnKept ==
    ASSUME NEW c \in Calls, UnitsKept(c), Own(c), call'[c] = call[c],
           \A f \in pending' : f[1] = c => f \in pending,
           \A b \in answers' : b.frag[1] = c /\ b.res >= 0 => b \in answers
    PROVE  Own(c)'
BY KeptUnits, KeptCounts DEF Own

(* Taking an answer adds the units of its fragment to the count. *)
LEMMA OwnCollected ==
    ASSUME Typed, NEW c \in Calls, NEW a \in answers, Collect(c, a), Busy(c)', Own(c)
    PROVE  Own(c)'
<1>0. Collected(c, a) /\ file' = file /\ pending' = pending
  BY CollectIs, TakenIs DEF Taken
<1>1. MoreLeft(c, a) /\ answers' \subseteq answers
  BY <1>0, MoreToTake DEF Collected
<1>2. UnitsKept(c)
  BY <1>0, SameFileKeeps
<1>3. OwnUnitsOf(c)'
  BY <1>1, <1>2, KeptUnits DEF Own, MoreLeft
<1> DEFINE y == call[c]
           o == Offset(y.next)
           h == Part(y.len, y.next)
<1>4. /\ a.frag[1] = c /\ a.frag[2] = y.next /\ a.res \in Nat /\ y.count \in Nat
      /\ o \in Nat /\ h \in Nat \ {0}
      /\ call'[c].count = y.count + a.res /\ call'[c].len = y.len
      /\ Offset(call'[c].next) = o + h
  BY <1>1 DEF MoreLeft
<1>5. /\ y.count = Cardinality(PlacesOf(c, 0, o)) /\ a.res = Cardinality(PlacesOf(c, o, o + h))
      /\ \A f \in pending : f[1] = c
           => PlacesOf(c, Offset(f[2]), Offset(f[2]) + Part(y.len, f[2])) = {}
      /\ \A b \in answers : b.frag[1] = c /\ b.res >= 0 =>
           b.res =
             Cardinality(PlacesOf(c, Offset(b.frag[2]), Offset(b.frag[2]) + Part(y.len, b.frag[2])))
  <2>1. /\ y.count = Cardinality(PlacesOf(c, 0, o))
        /\ \A f \in pending : f[1] = c
             => PlacesOf(c, Offset(f[2]), Offset(f[2]) + Part(y.len, f[2])) = {}
        /\ \A b \in answers : b.frag[1] = c /\ b.res >= 0 =>
             b.res =
               Cardinality(PlacesOf(c, Offset(b.frag[2]),
                                    Offset(b.frag[2]) + Part(y.len, b.frag[2])))
    BY Zenon DEF Own, OwnCountsOf
  <2>2. a.res >= 0
    BY <1>4
  <2>3. a.res = Cardinality(PlacesOf(c, o, o + h))
    <3>1. a.res =
            Cardinality(PlacesOf(c, Offset(a.frag[2]), Offset(a.frag[2]) + Part(y.len, a.frag[2])))
      BY <2>1, <2>2, <1>4, Zenon
    <3>2. QED
      BY <3>1, <1>4, Zenon
  <2>4. QED
    BY <2>1, <2>3
<1> HIDE DEF y, o, h
<1>6. Cardinality(PlacesOf(c, 0, o + h)) = y.count + a.res
  <2> DEFINE j == o + h
  <2>1. j \in Nat /\ o <= j
    BY <1>4
  <2> HIDE DEF j
  <2>2. Cardinality(PlacesOf(c, 0, j)) = Cardinality(PlacesOf(c, 0, o))
          + Cardinality(PlacesOf(c, o, j))
    BY <2>1, <1>4, PlacesJoin DEF Typed
  <2>3. QED
    BY <2>2, <1>5 DEF j
<1>7. \A i, j : {k \in DOMAIN file' : file'[k][1] = c /\ i < file'[k][2] /\ file'[k][2] <= j}
                = PlacesOf(c, i, j)
  BY <1>0 DEF PlacesOf
<1>8. OwnCountsOf(c)'
  BY <1>0, <1>1, <1>4, <1>5, <1>6, <1>7 DEF OwnCountsOf, PlacesOf
<1>9. QED
  BY <1>3, <1>8 DEF Own

(* Every step keeps the units of the calls and their numbers. *)
LEMMA OwnNext ==
    ASSUME Typed, Ranges, Fresh, OwnUnits, OwnCounts, [Next]_vars
    PROVE  OwnUnits' /\ OwnCounts'
<1>0. \A c \in Calls : Certain(c) => Own(c)
  BY DEF OwnUnits, OwnCounts, Own
<1>k. ASSUME NEW c \in Calls, Certain(c), file' = file, call'[c] = call[c],
             \A f \in pending' : f[1] = c => f \in pending,
             \A b \in answers' : b.frag[1] = c /\ b.res >= 0 => b \in answers
      PROVE  Own(c)'
  BY <1>0, <1>k, SameFileKeeps, OwnKept
<1>1. ASSUME NEW d \in Calls, NEW x, Began(d, x), NEW c \in Calls, Certain(c)' PROVE Own(c)'
  <2>1. CASE c = d
    BY <1>1, <2>1, OwnBegan
  <2>2. CASE c # d
    <3>1. /\ call'[c] = call[c] /\ file' = file /\ answers' = answers
          /\ pending' = pending \cup ({d} \X Fragments(x.len)) /\ Certain(c)
      BY <2>2, <1>1 DEF Began, Certain, Busy
    <3>2. \A f \in pending' : f[1] = c => f \in pending
      BY <2>2, <3>1
    <3>3. QED
      BY <3>1, <3>2, <1>k
  <2>3. QED
    BY <2>1, <2>2
<1>2. ASSUME NEW d \in Calls, NEW a \in answers, Collect(d, a), NEW c \in Calls, Certain(c)'
      PROVE  Own(c)'
  <2>0. Collected(d, a) /\ file' = file /\ pending' = pending
    BY <1>2, CollectIs, TakenIs DEF Taken
  <2>1. CASE c = d
    <3>1. Busy(c)'
      BY <1>2 DEF Certain
    <3>2. MoreLeft(c, a)
      BY <2>0, <2>1, <3>1, MoreToTake
    <3>3. Certain(c)
      BY <3>2, <1>2 DEF MoreLeft, Certain
    <3>4. QED
      BY <2>1, <3>1, <3>3, <1>0, <1>2, OwnCollected
  <2>2. CASE c # d
    <3>1. call'[c] = call[c] /\ answers' \subseteq answers
      BY <2>0, <2>2 DEF Collected
    <3>2. Certain(c)
      BY <3>1, <1>2 DEF Certain, Busy
    <3>3. QED
      BY <3>1, <3>2, <2>0, <1>k
  <2>3. QED
    BY <2>1, <2>2
<1>3. ASSUME NEW d \in Calls, GiveUp(d), NEW c \in Calls, Certain(c)' PROVE Own(c)'
  <2>1. GaveUp(d)
    BY <1>3, GiveUpIs
  <2>2. c # d
    BY <2>1, <1>3 DEF GaveUp, Certain
  <2>3. /\ call'[c] = call[c] /\ file' = file /\ pending' \subseteq pending
             /\ answers' \subseteq answers
    BY <2>1, <2>2 DEF GaveUp
  <2>4. Certain(c)
    BY <2>3, <1>3 DEF Certain, Busy
  <2>5. QED
    BY <2>3, <2>4, <1>k
<1>4. ASSUME NEW f \in pending, Executes(f), NEW c \in Calls, Certain(c)' PROVE Own(c)'
  <2>1. call' = call /\ pending' \subseteq pending
    BY <1>4, ExecutesIs
  <2>2. Certain(c) /\ call'[c] = call[c] /\ \A g \in pending' : g[1] = c => g \in pending
    BY <2>1, <1>4 DEF Certain, Busy
  <2>3. ASSUME NEW data, ReadDone(f, data) PROVE Own(c)'
    <3>1. file' = file /\ \A b \in answers' : b \in answers \/ b.frag = f
      BY <2>3 DEF ReadDone, Answer
    <3>2. f[1] # c
      BY <2>2, <2>3 DEF ReadDone, Certain
    <3>3. QED
      BY <3>1, <3>2, <2>2, <1>k
  <2>4. ASSUME FailDone(f) PROVE Own(c)'
    <3>1. file' = file /\ \A b \in answers' : b \in answers \/ b.res = -1
      BY <2>4 DEF FailDone, Answer
    <3>2. \A b \in answers' : b.frag[1] = c /\ b.res >= 0 => b \in answers
      <4>1. ~(-1 >= 0)
        OBVIOUS
      <4>2. QED
        BY <3>1, <4>1
    <3>3. QED
      BY <3>1, <3>2, <2>2, <1>k
  <2>5. ASSUME NEW n \in Nat, WriteDone(f, n) PROVE Own(c)'
    <3>1. CASE c # f[1]
      <4>1. UnitsKept(c)
        BY <2>2, <2>5, <3>1, OthersKeep
      <4>2. \A b \in answers' : b.frag[1] = c => b \in answers
        BY <2>5, <3>1 DEF WriteDone, Answer
      <4>3. QED
        BY <4>1, <4>2, <2>2, <1>0, OwnKept
    <3>2. CASE c = f[1]
      <4>1. UnitsAdded(f, n) /\ OwnUnitsOf(f[1]) /\ OwnCountsOf(f[1]) /\ Certain(f[1])
        BY <2>2, <2>5, <3>2, <1>0, OwnAdds DEF Own
      <4>2. OwnUnitsOf(f[1])' /\ OwnCountsOf(f[1])'
        BY <4>1, <2>5, AddedUnits, AddedCounts
      <4>3. f[1]' = c
        BY <3>2
      <4>4. QED
        BY <4>2, <4>3, <3>2 DEF Own
    <3>3. QED
      BY <3>1, <3>2
  <2>6. QED
    BY <2>3, <2>4, <2>5, <1>4 DEF Executes
<1>5. ASSUME UNCHANGED vars, NEW c \in Calls, Certain(c)' PROVE Own(c)'
  <2>1. call' = call /\ answers' = answers /\ file' = file /\ pending' = pending
    BY <1>5 DEF vars
  <2>2. Certain(c)
    BY <2>1, <1>5 DEF Certain, Busy
  <2>3. QED
    BY <2>1, <2>2, <1>k
<1>6. ASSUME NEW c \in Calls, Certain(c)' PROVE Own(c)'
  BY <1>1, <1>2, <1>3, <1>4, <1>5, <1>6, StepIs DEF Executes
<1>7. QED
  BY <1>6 DEF OwnUnits, OwnCounts, Own

(* The invariant holds initially. *)
LEMMA Initially ==
    ASSUME Init
    PROVE  IInv
<1>1. Typed /\ Ranges
  BY TypedInit, RangesInit
<1>2. \A c \in Calls : ~Busy(c)
  BY DEF Init, Busy, NoCall
<1>3. Fresh
  <2>1. PICK n \in 0..Size : file = [k \in 1..n |-> Unit(0, k)]
    BY DEF Init
  <2>2. \A k \in DOMAIN file : file[k][1] = 0
    BY <2>1 DEF Unit
  <2>3. QED
    BY <2>2, SizeFacts DEF Fresh
<1>4. ReadsAreRight /\ WritesAreRight /\ OwnUnits /\ OwnCounts
  BY <1>2 DEF ReadsAreRight, WritesAreRight, OwnUnits, OwnCounts, Certain
<1>5. QED
  BY <1>1, <1>3, <1>4 DEF IInv, Ranges

(* Every step keeps the invariant. *)
LEMMA Inductive ==
    ASSUME IInv, [Next]_vars
    PROVE  IInv'
<1>1. Typed /\ Ranges /\ ReadsAreRight /\ WritesAreRight /\ Fresh /\ OwnUnits /\ OwnCounts
  BY DEF IInv, Ranges
<1>2. Typed' /\ Ranges'
  BY <1>1, TypedNext, RangesNext
<1>3. ReadsAreRight' /\ WritesAreRight' /\ Fresh'
  BY <1>1, ReadsNext, WritesNext, FreshNext
<1>4. OwnUnits' /\ OwnCounts'
  BY <1>1, OwnNext
<1>5. QED
  BY <1>2, <1>3, <1>4 DEF IInv, Ranges

(* The inductive invariant holds. *)
THEOREM Invariance == Spec => []IInv
BY Initially, Inductive, PTL DEF Spec

-----------------------------------------------------------------------------
(* What a write returns. *)

\* The result of a write that is sure of its places is the number of its units in the file.
Counted ==
    \A c \in Calls :
        Busy(c) /\ call[c].op # "read" /\ call[c].sure = call[c].touched /\ returned'.ok
        /\ returned'.call = c =>
            returned'.count = Cardinality({k \in DOMAIN file : file[k] \in {c} \X Cells})

(* With the last answer the count is the number of the units that are in the file. *)
LEMMA WholeCount ==
    ASSUME Typed, NEW c \in Calls, NEW a \in answers, Collect(c, a), IsLast(c), Certain(c), Own(c)
    PROVE  /\ PlacesOf(c, 0, call[c].len) = {k \in DOMAIN file : file[k] \in {c} \X Cells}
           /\ PlacesOf(c, 0, call[c].len) = {k \in DOMAIN file : file[k][1] = c}
           /\ After(c, a).count = Cardinality(PlacesOf(c, 0, call[c].len))
<1>0. Collected(c, a)
  BY CollectIs
<1> DEFINE y == call[c]
           o == Offset(y.next)
           h == Part(y.len, y.next)
<1>1. /\ a.frag[1] = c /\ a.frag[2] = y.next /\ a.res \in Nat /\ y.count \in Nat
      /\ y.next \in Fragments(y.len) /\ y.len \in Nat \ {0}
      /\ y.op \in IOOps /\ After(c, a).count = y.count + a.res
  BY <1>0 DEF Collected
<1>2. o \in Nat /\ h \in Nat /\ o + h = y.len /\ o <= y.len
  <2>1. /\ Offset(y.next) \in Nat /\ Part(y.len, y.next) \in 1..Fragment
        /\ Offset(y.next) + Part(y.len, y.next) = y.len
    BY <1>1, PartFacts DEF IsLast
  <2>2. QED
    BY <2>1, <1>1, SizeFacts
<1>3. y.count = Cardinality(PlacesOf(c, 0, o))
  BY DEF Own, OwnCountsOf
<1>4. a.res = Cardinality(PlacesOf(c, o, o + h))
  <2>1. \A b \in answers : b.frag[1] = c /\ b.res >= 0 =>
          b.res =
            Cardinality(PlacesOf(c, Offset(b.frag[2]), Offset(b.frag[2]) + Part(y.len, b.frag[2])))
    BY Zenon DEF Own, OwnCountsOf
  <2>2. a.res >= 0
    BY <1>1
  <2>3. a.res =
          Cardinality(PlacesOf(c, Offset(a.frag[2]), Offset(a.frag[2]) + Part(y.len, a.frag[2])))
    BY <2>1, <2>2, <1>1, Zenon
  <2>4. QED
    BY <2>3, <1>1, Zenon
<1>5. y.len <= Size /\ Size \in Nat
  BY <1>1, CallFacts, SizeFacts DEF Typed, IOOps
<1>6. \A k \in DOMAIN file : file[k][1] = c => file[k][2] \in 1..y.len
  BY DEF Own, OwnUnitsOf
<1>7. \A k \in DOMAIN file : file[k] = <<file[k][1], file[k][2]>> /\ file[k][2] \in Nat
  BY FileIs DEF Typed
<1> HIDE DEF y, o, h
<1>8. PlacesOf(c, 0, y.len) = {k \in DOMAIN file : file[k][1] = c}
  BY <1>1, <1>6, <1>7 DEF PlacesOf
<1>9. \A k \in DOMAIN file : file[k][1] = c <=> file[k] \in {c} \X Cells
  <2>1. Cells = 1..Size
    BY DEF Cells
  <2>2. \A k \in DOMAIN file : file[k][1] = c => file[k][2] \in Cells
    BY <2>1, <1>1, <1>5, <1>6
  <2>3. QED
    BY <2>2, <1>7
<1>10. y.count + a.res = Cardinality(PlacesOf(c, 0, y.len))
  <2> DEFINE j == y.len
  <2>1. j \in Nat /\ o <= j /\ o + h = j
    BY <1>1, <1>2
  <2> HIDE DEF j
  <2>2. Cardinality(PlacesOf(c, 0, j)) = Cardinality(PlacesOf(c, 0, o))
          + Cardinality(PlacesOf(c, o, j))
    BY <2>1, <1>2, PlacesJoin DEF Typed
  <2>3. QED
    BY <2>1, <2>2, <1>3, <1>4 DEF j
<1>11. QED
  BY <1>1, <1>8, <1>9, <1>10 DEF y

(* Every step of the system satisfies CountIsWritten. *)
LEMMA CountedNext ==
    ASSUME IInv, [Next]_vars
    PROVE  [Counted]_vars
<1>0. Typed /\ Ranges /\ OwnUnits /\ OwnCounts
  BY DEF IInv, Ranges
<1>1. ASSUME returned' = Nothing PROVE Counted
  BY <1>1 DEF Counted, Nothing
<1>2. ASSUME NEW c \in Calls, NEW a \in answers, Collect(c, a) PROVE Counted
  <2>1. Taken(c, a)
    BY <1>0, <1>2, TakenIs
  <2>2. CASE ~IsLast(c)
    BY <2>1, <2>2, <1>1 DEF Taken
  <2>3. CASE IsLast(c)
    <3>1. returned'.call = c /\ returned'.count = After(c, a).count
      BY <2>1, <2>3 DEF Taken
    <3>2. ASSUME Certain(c) PROVE After(c, a).count
                   = Cardinality({k \in DOMAIN file : file[k] \in {c} \X Cells})
      BY <3>2, <2>3, <1>0, <1>2, WholeCount DEF OwnUnits, OwnCounts, Own
    <3>3. QED
      BY <3>1, <3>2 DEF Counted, Certain
  <2>4. QED
    BY <2>2, <2>3
<1>3. ASSUME NEW c \in Calls, GiveUp(c) PROVE Counted
  <2>1. returned'.ok = FALSE
    BY <1>3 DEF GiveUp, Nothing
  <2>2. QED
    BY <2>1 DEF Counted
<1>4. ASSUME NEW c \in Calls, NEW x, Began(c, x) PROVE Counted
  BY <1>1, <1>4 DEF Began, Start
<1>5. ASSUME NEW f \in pending, Executes(f) PROVE Counted
  BY <1>0, <1>1, <1>5, ExecutesIs
<1>6. QED
  BY <1>0, <1>2, <1>3, <1>4, <1>5, StepIs DEF Executes

(* What a write returns is the number of its units in the file, wherever they are: also
   when its fragments were executed in another order than they were sent. *)
THEOREM CountWritten == Spec => CountIsWritten
<1>1. IInv /\ [Next]_vars => [Counted]_vars
  BY CountedNext
<1>2. QED
  BY <1>1, Invariance, PTL DEF Spec, CountIsWritten, Counted

-----------------------------------------------------------------------------
(* The calls as WholeRangeIO has them. *)

\* The record of a call of WholeRangeIO.
IsShown(v, state, op, start, len, touched, sure) ==
    /\ v = [f \in {"state", "op", "start", "len", "touched", "sure"} |-> v[f]]
    /\ v.state = state /\ v.op = op /\ v.start = start /\ v.len = len
    /\ v.touched = touched /\ v.sure = sure

(* A call, as its caller sees it, is what its fields are. *)
LEMMA SameShown ==
    ASSUME NEW v, NEW w, NEW state, NEW op, NEW start, NEW len, NEW touched, NEW sure,
           IsShown(v, state, op, start, len, touched, sure),
           IsShown(w, state, op, start, len, touched, sure)
    PROVE  v = w
<1> DEFINE F == {"state", "op", "start", "len", "touched", "sure"}
<1>1. v = [f \in F |-> v[f]] /\ w = [f \in F |-> w[f]]
  BY DEF IsShown
<1>2. \A f \in F : v[f] = w[f]
  <2>1. /\ v["state"] = w["state"] /\ v["op"] = w["op"] /\ v["start"] = w["start"]
        /\ v["len"] = w["len"] /\ v["touched"] = w["touched"] /\ v["sure"] = w["sure"]
    BY DEF IsShown
  <2>2. QED
    BY <2>1
<1> HIDE DEF F
<1>3. [f \in F |-> v[f]] = [f \in F |-> w[f]]
  BY <1>2
<1>4. QED
  BY <1>1, <1>3

(* A call that has not begun, and one that is over, as WholeRangeIO has them. *)
LEMMA NoCallShown ==
    /\ IsShown(WholeRange!NoCall, "idle", "none", 1, 0, {}, {})
    /\ IsShown([WholeRange!NoCall EXCEPT !.state = "done"], "done", "none", 1, 0, {}, {})
<1>1. IsShown(WholeRange!NoCall, "idle", "none", 1, 0, {}, {})
  BY DEF IsShown, WholeRange!NoCall
<1>2. IsShown([WholeRange!NoCall EXCEPT !.state = "done"], "done", "none", 1, 0, {}, {})
  BY DEF IsShown, WholeRange!NoCall
<1>3. QED
  BY <1>1, <1>2

(* What the callers see of the calls, field by field. *)
LEMMA ShownIs ==
    /\ DOMAIN Shown = Calls /\ Shown = [c \in Calls |-> Shown[c]]
    /\ \A c \in Calls :
        IF Busy(c) THEN IsShown(Shown[c], call[c].state, call[c].op, call[c].start, call[c].len,
                                call[c].touched, call[c].sure)
        ELSE IsShown(Shown[c], call[c].state, "none", 1, 0, {}, {})
<1>1. DOMAIN Shown = Calls /\ Shown = [c \in Calls |-> Shown[c]]
  BY DEF Shown
<1>2. ASSUME NEW c \in Calls, Busy(c)
      PROVE  IsShown(Shown[c], call[c].state, call[c].op, call[c].start, call[c].len,
                     call[c].touched, call[c].sure)
  <2>1. Shown[c] = [f \in {"state", "op", "start", "len", "touched", "sure"} |-> call[c][f]]
    BY <1>2 DEF Shown
  <2>2. QED
    BY <2>1 DEF IsShown
<1>3. ASSUME NEW c \in Calls, ~Busy(c)
      PROVE  IsShown(Shown[c], call[c].state, "none", 1, 0, {}, {})
  <2> DEFINE x == [NoCall EXCEPT !.state = call[c].state]
  <2>1. /\ x.state = call[c].state /\ x.op = "none" /\ x.start = 1 /\ x.len = 0
        /\ x.touched = {} /\ x.sure = {}
    BY DEF NoCall
  <2> HIDE DEF x
  <2>2. Shown[c] = [f \in {"state", "op", "start", "len", "touched", "sure"} |-> x[f]]
    BY <1>3 DEF Shown, x
  <2>3. QED
    BY <2>1, <2>2 DEF IsShown
<1>4. QED
  BY <1>1, <1>2, <1>3

\* The same of the next state.
LEMMA ShownNextIs ==
    /\ DOMAIN Shown' = Calls /\ Shown' = [c \in Calls |-> Shown'[c]]
    /\ \A c \in Calls :
        IF Busy(c)' THEN IsShown(Shown'[c], call'[c].state, call'[c].op, call'[c].start,
          call'[c].len,
                                 call'[c].touched, call'[c].sure)
        ELSE IsShown(Shown'[c], call'[c].state, "none", 1, 0, {}, {})
<1>1. DOMAIN Shown' = Calls /\ Shown' = [c \in Calls |-> Shown'[c]]
  BY DEF Shown
<1>2. ASSUME NEW c \in Calls, Busy(c)'
      PROVE  IsShown(Shown'[c], call'[c].state, call'[c].op, call'[c].start, call'[c].len,
                     call'[c].touched, call'[c].sure)
  <2>1. Shown'[c] = [f \in {"state", "op", "start", "len", "touched", "sure"} |-> call'[c][f]]
    BY <1>2 DEF Shown
  <2>2. QED
    BY <2>1 DEF IsShown
<1>3. ASSUME NEW c \in Calls, ~Busy(c)'
      PROVE  IsShown(Shown'[c], call'[c].state, "none", 1, 0, {}, {})
  <2> DEFINE x == [NoCall EXCEPT !.state = call'[c].state]
  <2>1. /\ x.state = call'[c].state /\ x.op = "none" /\ x.start = 1 /\ x.len = 0
        /\ x.touched = {} /\ x.sure = {}
    BY DEF NoCall
  <2>2. Shown'[c] = [f \in {"state", "op", "start", "len", "touched", "sure"} |-> x[f]]
    BY <1>3 DEF Shown
  <2> HIDE DEF x
  <2>3. QED
    BY <2>1, <2>2 DEF IsShown
<1>4. QED
  BY <1>1, <1>2, <1>3

(* A call that is neither begun nor returned looks as before. *)
LEMMA ShownStays ==
    ASSUME NEW c \in Calls, Busy(c)' <=> Busy(c), call'[c].state = call[c].state,
           Busy(c) => /\ call'[c].op = call[c].op /\ call'[c].start = call[c].start
                      /\ call'[c].len = call[c].len
                      /\ call'[c].touched = call[c].touched /\ call'[c].sure = call[c].sure
    PROVE  Shown'[c] = Shown[c]
<1>1. CASE Busy(c)
  <2>1. IsShown(Shown[c], call[c].state, call[c].op, call[c].start, call[c].len,
                call[c].touched, call[c].sure)
    BY <1>1, ShownIs
  <2>2. IsShown(Shown'[c], call'[c].state, call'[c].op, call'[c].start, call'[c].len,
                call'[c].touched, call'[c].sure)
    BY <1>1, ShownNextIs
  <2>3. IsShown(Shown'[c], call[c].state, call[c].op, call[c].start, call[c].len,
                call[c].touched, call[c].sure)
    BY <1>1, <2>2
  <2>4. QED
    BY <2>1, <2>3, SameShown
<1>2. CASE ~Busy(c)
  <2>1. IsShown(Shown[c], call[c].state, "none", 1, 0, {}, {})
    BY <1>2, ShownIs
  <2>2. IsShown(Shown'[c], call[c].state, "none", 1, 0, {}, {})
    BY <1>2, ShownNextIs
  <2>3. QED
    BY <2>1, <2>2, SameShown
<1>3. QED
  BY <1>1, <1>2

(* A step of one call changes only what the caller of this call sees. *)
LEMMA OthersStay ==
    ASSUME NEW c, \A d \in Calls : d # c => call'[d] = call[d] /\ (Busy(d)' <=> Busy(d))
    PROVE  Shown' = [Shown EXCEPT ![c] = Shown'[c]]
<1>1. ASSUME NEW d \in Calls, d # c PROVE Shown'[d] = Shown[d]
  BY <1>1, ShownStays
<1>2. Shown' = [d \in Calls |-> Shown'[d]] /\ Shown = [d \in Calls |-> Shown[d]]
  BY ShownIs, ShownNextIs
<1>3. \A d \in Calls : Shown'[d] = IF d = c THEN Shown'[c] ELSE Shown[d]
  BY <1>1
<1> DEFINE S == Shown
           T == Shown'
<1>4. S = [d \in Calls |-> S[d]] /\ T = [d \in Calls |-> T[d]]
      /\ \A d \in Calls : T[d] = IF d = c THEN T[c] ELSE S[d]
  BY <1>2, <1>3
<1> HIDE DEF S, T
<1>5. T = [S EXCEPT ![c] = T[c]]
  BY <1>4
<1>6. QED
  BY <1>5 DEF S, T

(* Callers see no change if no call changed for its caller. *)
LEMMA AllStay ==
    ASSUME \A c \in Calls : Shown'[c] = Shown[c]
    PROVE  Shown' = Shown
<1>1. Shown' = [d \in Calls |-> Shown'[d]] /\ Shown = [d \in Calls |-> Shown[d]]
  BY ShownIs, ShownNextIs
<1> DEFINE S == Shown
           T == Shown'
<1>2. S = [d \in Calls |-> S[d]] /\ T = [d \in Calls |-> T[d]] /\ \A d \in Calls : T[d] = S[d]
  BY <1>1
<1> HIDE DEF S, T
<1>3. T = S
  BY <1>2
<1>4. QED
  BY <1>3 DEF S, T

AbstractStep == [WholeRange!Next]_(WholeRange!vars)

(* The initial states are initial states of WholeRangeIO. *)
LEMMA InitIs ==
    ASSUME Init
    PROVE  WholeRange!Init
<1>0. Typed /\ Ranges
  BY TypedInit, RangesInit
<1>1. PICK n \in 0..Size : file = [k \in 1..n |-> Unit(0, k)]
  BY DEF Init
<1>2. /\ call = [c \in Calls |-> NoCall] /\ pending = {} /\ returned = Nothing /\ unsure = {}
      /\ \A c \in Calls : ~Busy(c)
  BY DEF Init, Busy, NoCall
<1>3. Unknown = {} /\ Late = {}
  BY <1>2 DEF Unknown, Late
<1>4. n \in {0} \cup Cells /\ n \in Nat /\ Len(file) = n
  BY <1>1, SizeFacts
<1>5. Known = [k \in Cells |-> IF k <= n THEN WholeRange!Unit(0, k) ELSE WholeRange!Eof]
  <2>1. \A k \in Cells : k <= n => file[k] = WholeRange!Unit(0, k)
    BY <1>1, <1>4, SizeFacts DEF Unit, WholeRange!Unit
  <2>2. QED
    BY <2>1, <1>3, <1>4 DEF Known, WholeRange!Eof
<1>6. ASSUME NEW c \in Calls PROVE Shown[c] = WholeRange!NoCall
  <2>1. call[c].state = "idle"
    BY <1>2, <1>6 DEF NoCall
  <2>2. IsShown(Shown[c], "idle", "none", 1, 0, {}, {})
    BY <2>1, <1>2, ShownIs
  <2>3. QED
    BY <2>2, NoCallShown, SameShown
<1>7. Shown = [c \in Calls |-> WholeRange!NoCall]
  <2>1. Shown = [c \in Calls |-> Shown[c]]
    BY ShownIs
  <2> DEFINE S == Shown
  <2>2. S = [c \in Calls |-> S[c]] /\ \A c \in Calls : S[c] = WholeRange!NoCall
    BY <2>1, <1>6
  <2> HIDE DEF S
  <2>3. S = [c \in Calls |-> WholeRange!NoCall]
    BY <2>2
  <2>4. QED
    BY <2>3 DEF S
<1>8. returned = WholeRange!Nothing
  BY <1>2 DEF Nothing, WholeRange!Nothing
<1>9. QED
  BY <1>3, <1>4, <1>5, <1>7, <1>8 DEF WholeRange!Init

(* What is known of a place in the range of the file is what is there. *)
LEMMA KnownCells ==
    ASSUME FileTyped, NEW k \in Cells
    PROVE  /\ Known[k] = WholeRange!Eof <=> k \notin Unknown /\ k > Len(file)
           /\ Known[k] = WholeRange!Unsure <=> k \in Unknown
           /\ Known[k] = WholeRange!Eof \/ Known[k] = WholeRange!Unsure \/ Known[k] \in Units
<1>1. Known[k] = IF k \in Unknown THEN <<"unsure">>
                 ELSE IF k <= Len(file) THEN file[k] ELSE <<"end of file">>
  BY KnownIs
<1>2. k <= Len(file) => file[k] \in Units
  BY SizeFacts DEF FileTyped
<1>3. k \in Nat /\ Len(file) \in Nat
  BY SizeFacts DEF FileTyped
<1>4. /\ <<"end of file">> # <<"unsure">>
      /\ \A u \in Units : u # <<"end of file">> /\ u # <<"unsure">>
  BY UnitFacts
<1>5. k > Len(file) <=> ~(k <= Len(file))
  BY <1>3
<1> DEFINE v == Known[k]
<1>6. v = IF k \in Unknown THEN <<"unsure">> ELSE IF k <= Len(file) THEN file[k]
        ELSE <<"end of file">>
  BY <1>1
<1> HIDE DEF v
<1>7. CASE k \in Unknown
  BY <1>4, <1>6, <1>7, Zenon DEF WholeRange!Eof, WholeRange!Unsure, v
<1>8. CASE k \notin Unknown /\ k <= Len(file)
  <2>1. v = file[k] /\ v \in Units
    BY <1>2, <1>6, <1>8
  <2>2. QED
    BY <2>1, <1>4, <1>5, <1>8, Zenon DEF WholeRange!Eof, WholeRange!Unsure, v
<1>9. CASE k \notin Unknown /\ ~(k <= Len(file))
  BY <1>4, <1>5, <1>6, <1>9, Zenon DEF WholeRange!Eof, WholeRange!Unsure, v
<1>10. QED
  BY <1>7, <1>8, <1>9

(* The start of a call is a Begin. *)
LEMMA BeginIs ==
    ASSUME Typed, Ranges, NEW c \in Calls, NEW x, Began(c, x)
    PROVE  WholeRange!Begin(c)
<1> DEFINE v == Shown'[c]
<1>1. /\ x.state = "busy" /\ x.op \in IOOps /\ x.len \in Nat \ {0} /\ x.start \in Nat \ {0}
      /\ call'[c] = x /\ Busy(c)' /\ ~Busy(c) /\ call[c].state = "idle"
      /\ \A d \in Calls : d # c => call'[d] = call[d] /\ (Busy(d)' <=> Busy(d))
      /\ Place(x) \subseteq x.touched /\ x.touched \subseteq Cells
      /\ returned' = Nothing /\ file' = file
  BY DEF Began, NewCall, Start
<1>2. IsShown(Shown'[c], x.state, x.op, x.start, x.len, x.touched, x.sure)
  BY <1>1, ShownNextIs
<1>3. /\ v.state = "busy" /\ v.op = x.op /\ v.start = x.start /\ v.len = x.len
      /\ v.touched = x.touched /\ v.sure = x.sure
  BY <1>1, <1>2 DEF IsShown
<1>4. Shown' = [Shown EXCEPT ![c] = v]
  BY <1>1, OthersStay
<1>5. /\ Shown[c].state = "idle"
      /\ \A d \in Calls : /\ WholeRange!Busy(d) <=> Busy(d)
                          /\ Busy(d) => Shown[d].op = call[d].op
                               /\ Shown[d].touched = call[d].touched
  <2>1. Shown[c].state = "idle"
    BY <1>1, ShownIs DEF IsShown
  <2>2. ASSUME NEW d \in Calls
        PROVE  /\ WholeRange!Busy(d) <=> Busy(d)
               /\ Busy(d) => Shown[d].op = call[d].op /\ Shown[d].touched = call[d].touched
    BY ShownIs DEF IsShown, Busy, WholeRange!Busy
  <2>3. QED
    BY <2>1, <2>2
<1>6. /\ Late' = Late
      /\ Unknown' = IF x.op = "read" THEN Unknown ELSE Unknown \cup x.touched
  BY BeganUnseen
<1>7. Known' = [k \in Cells |-> IF x.op # "read" /\ k \in x.touched THEN WholeRange!Unsure
        ELSE Known[k]]
  <2>1. \A k \in Cells : Known'[k] = IF x.op # "read" /\ k \in x.touched THEN WholeRange!Unsure
          ELSE Known[k]
    BY <1>1, <1>6, KnownIs DEF WholeRange!Unsure
  <2>2. Known' = [k \in Cells |-> Known'[k]]
    BY KnownIs
  <2> DEFINE T == Known'
  <2>3. T = [k \in Cells |-> T[k]]
    BY <2>2
  <2>4. \A k \in Cells : T[k] = IF x.op # "read" /\ k \in x.touched THEN WholeRange!Unsure
          ELSE Known[k]
    BY <2>1
  <2> HIDE DEF T
  <2>5. T = [k \in Cells |-> IF x.op # "read" /\ k \in x.touched THEN WholeRange!Unsure
          ELSE Known[k]]
    BY <2>3, <2>4
  <2>6. QED
    BY <2>5 DEF T
<1>8. \A d \in Calls : Busy(d) /\ {x.op, call[d].op} # {"read"}
        => x.touched \cap call[d].touched = {}
  BY DEF Began
<1>9. /\ x.op = "write" =>
           /\ \A k \in Cells : k < x.start /\ Known[k] = WholeRange!Eof => k \in x.touched
           /\ x.sure = x.touched \ Late
      /\ x.op = "append" =>
           /\ \A k \in Cells : k >= x.start => k \in x.touched
           /\ \A k \in Cells : k < x.start => Known[k] # WholeRange!Eof
           /\ x.sure = IF Late = {} THEN x.touched ELSE {}
      /\ x.op = "read" => x.sure = {}
  <2>1. /\ x.op = "write" =>
             /\ x.touched = Place(x) \cup {k \in Cells : Len(file) < k /\ k < x.start}
             /\ x.sure = x.touched \ Late
        /\ x.op = "append" =>
             /\ x.start = Len(file) + 1
             /\ x.touched = {k \in Cells : k >= x.start}
             /\ x.sure = IF Late = {} THEN x.touched ELSE {}
        /\ x.op = "read" => x.sure = {}
    BY DEF Began
  <2>2. \A k \in Cells : Known[k] = WholeRange!Eof => k > Len(file)
    BY KnownCells DEF Typed
  <2>3. \A k \in Cells : k \in Nat
    BY SizeFacts
  <2>4. Len(file) \in Nat
    BY DEF Typed, FileTyped
  <2>5. \A k \in Cells : k < Len(file) + 1 => ~(k > Len(file))
    BY <2>3, <2>4
  <2>6. \A k \in Cells : k > Len(file) => Len(file) < k
    BY <2>3, <2>4
  <2>7. QED
    BY <2>1, <2>2, <2>5, <2>6
<1>10. returned' = WholeRange!Nothing
  BY <1>1 DEF Nothing, WholeRange!Nothing
<1>11. WholeRange!Place(v) \subseteq v.touched
  BY <1>1, <1>3 DEF Place, WholeRange!Place
<1>12. v.state = "busy" /\ v.op \in {"read", "write", "append"} /\ v.len > 0
         /\ v.touched \subseteq Cells
  BY <1>1, <1>3 DEF IOOps
<1>13. \A d \in Calls : WholeRange!Busy(d) /\ {v.op, Shown[d].op} # {"read"} =>
                                v.touched \cap Shown[d].touched = {}
  BY <1>3, <1>5, <1>8
<1>14. (CASE v.op = "write" ->
              /\ \A k \in Cells : k < v.start /\ Known[k] = WholeRange!Eof => k \in v.touched
              /\ v.sure = v.touched \ Late
         [] v.op = "append" ->
              /\ \A k \in Cells : k >= v.start => k \in v.touched
              /\ \A k \in Cells : k < v.start => Known[k] # WholeRange!Eof
              /\ v.sure = IF Late = {} THEN v.touched ELSE {}
         [] OTHER -> v.sure = {})
  BY <1>1, <1>3, <1>9 DEF IOOps
<1>15. Known' = [k \in Cells |-> IF v.op # "read" /\ k \in v.touched THEN WholeRange!Unsure
         ELSE Known[k]]
  BY <1>3, <1>7
<1> HIDE DEF v
<1>16. QED
  BY <1>4, <1>5, <1>6, <1>10, <1>11, <1>12, <1>13, <1>14, <1>15 DEF WholeRange!Begin, v

(* A call that is over has returned to its caller. *)
LEMMA ReturnIs ==
    ASSUME NEW c \in Calls, Busy(c), ~Busy(c)', call'[c].state = "done",
           \A d \in Calls : d # c => call'[d] = call[d] /\ (Busy(d)' <=> Busy(d)),
           NEW ok, NEW got, NEW count,
           returned' = [call |-> c, ok |-> ok, got |-> got, count |-> count]
    PROVE  WholeRange!Return(c, ok, got, count)
<1>1. IsShown(Shown'[c], "done", "none", 1, 0, {}, {})
  BY ShownNextIs
<1>2. Shown'[c] = [WholeRange!NoCall EXCEPT !.state = "done"]
  BY <1>1, NoCallShown, SameShown
<1>3. Shown' = [Shown EXCEPT ![c] = Shown'[c]]
  BY OthersStay
<1>4. Shown[c].state = "busy"
  BY ShownIs DEF IsShown, Busy
<1>5. Shown' = [Shown EXCEPT ![c] = [WholeRange!NoCall EXCEPT !.state = "done"]]
  BY <1>2, <1>3
<1>6. QED
  BY <1>4, <1>5 DEF WholeRange!Return

(* Giving up is a Fail. *)
LEMMA FailIs ==
    ASSUME Typed, Ranges, NEW c \in Calls, GiveUp(c)
    PROVE  WholeRange!Fail(c)
<1>1. GaveUp(c)
  BY GiveUpIs
<1>2. returned' = [call |-> c, ok |-> FALSE, got |-> <<>>, count |-> 0]
  BY DEF GiveUp, Nothing
<1>3. WholeRange!Return(c, FALSE, <<>>, 0)
  BY <1>1, <1>2, ReturnIs DEF GaveUp
<1>4. /\ Late \subseteq Late'
      /\ Late' \subseteq Late \cup (IF call[c].op = "read" THEN {} ELSE call[c].touched)
      /\ Known' = Known
  BY GaveUpUnseen
<1>5. Shown[c].op = call[c].op /\ Shown[c].touched = call[c].touched
  BY <1>1, ShownIs DEF GaveUp, IsShown
<1>6. QED
  BY <1>3, <1>4, <1>5 DEF WholeRange!Fail

(* A step that no caller can see is a Settle, unless late writes become possible. *)
LEMMA SettleIs ==
    ASSUME Late' \subseteq Late, returned' = Nothing, Known' = Known, Shown' = Shown
    PROVE  WholeRange!Settle
BY DEF WholeRange!Settle, Nothing, WholeRange!Nothing

(* The execution of a fragment is a Settle: it changes only what is unknown. *)
LEMMA ExecutesSettles ==
    ASSUME Typed, Ranges, NEW f \in pending, Executes(f)
    PROVE  WholeRange!Settle
<1>1. call' = call /\ returned' = Nothing
  BY ExecutesIs
<1>2. Known' = Known /\ Late' \subseteq Late
  BY ExecutesUnseen
<1>3. Shown' = Shown
  <2>1. \A c \in Calls : Shown'[c] = Shown[c]
    BY <1>1, ShownStays DEF Busy
  <2>2. QED
    BY <2>1, AllStay
<1>4. QED
  BY <1>1, <1>2, <1>3, SettleIs

(* The end of a call is only seen when its last answer is taken. *)
LEMMA NotLastSettles ==
    ASSUME Typed, Ranges, NEW c \in Calls, NEW a \in answers, Collect(c, a), ~IsLast(c)
    PROVE  WholeRange!Settle
<1>1. Collected(c, a) /\ Taken(c, a)
  BY CollectIs, TakenIs
<1>2. returned' = Nothing /\ file' = file
  BY <1>1 DEF Taken
<1>3. Late' = Late /\ Unknown' = Unknown
  BY TakenUnseen
<1>4. Known' = Known
  BY <1>2, <1>3 DEF Known
<1>5. Shown' = Shown
  <2>1. Busy(c)' /\ Busy(c)
    BY <1>1 DEF Collected
  <2>2. MoreLeft(c, a)
    BY <1>1, <2>1, MoreToTake
  <2>3. Shown'[c] = Shown[c]
    <3>1. call'[c].state = call[c].state
      BY <2>1 DEF Busy
    <3>2. QED
      BY <2>1, <2>2, <3>1, ShownStays DEF MoreLeft
  <2>4. ASSUME NEW d \in Calls, d # c PROVE Shown'[d] = Shown[d]
    <3>1. call'[d] = call[d] /\ (Busy(d)' <=> Busy(d))
      BY <1>1, <2>4 DEF Collected
    <3>2. QED
      BY <3>1, ShownStays
  <2>5. QED
    BY <2>3, <2>4, AllStay
<1>6. QED
  BY <1>2, <1>3, <1>4, <1>5, SettleIs

(* Sequences of units one behind the other. *)
LEMMA Together ==
    ASSUME NEW s \in Seq(Units), NEW d \in Seq(Units)
    PROVE  /\ s \o d \in Seq(Units) /\ Len(s \o d) \in Nat
           /\ Len(s \o d) = Len(s) + Len(d)
<1>1. s \o d \in Seq(Units) /\ Len(s \o d) = Len(s) + Len(d)
  BY ConcatProperties
<1>2. Len(s \o d) \in Nat
  BY <1>1, LenProperties
<1>3. QED
  BY <1>1, <1>2

\* What the last answer of a call does.
LastTaken(c, a) ==
    LET y == call[c]
        n == After(c, a).count
    IN  /\ Busy(c) /\ y.op \in IOOps /\ y.len \in Nat \ {0} /\ y.start \in Nat \ {0}
        /\ n \in Nat /\ n = y.count + a.res /\ n <= y.len
        /\ y.count \in Nat /\ a.res \in Nat /\ y.got \in Seq(Units) /\ a.data \in Seq(Units)
        /\ y.next \in Fragments(y.len)
        /\ y.count <= Offset(y.next) /\ a.res <= Part(y.len, y.next)
        /\ a.frag[1] = c /\ a.frag[2] = y.next
        /\ Offset(y.next) \in Nat /\ Part(y.len, y.next) \in Nat \ {0}
        /\ Offset(y.next) + Part(y.len, y.next) = y.len
        /\ After(c, a).got = y.got \o a.data
        /\ Len(y.got \o a.data) = IF y.op = "read" THEN n ELSE 0
        /\ (y.op # "read" => y.got \o a.data = <<>>)
        /\ WholeRange!Return(c, TRUE, y.got \o a.data, n)
        /\ returned'.got = y.got \o a.data
        /\ file' = file /\ Late' = Late
        /\ Unknown' = IF y.op # "read" /\ n >= y.len THEN Unknown \ y.sure ELSE Unknown
        /\ IsShown(Shown[c], "busy", y.op, y.start, y.len, y.touched, y.sure)

(* With the last answer the call returns all it got, and the count of all it wrote. *)
LEMMA LastTakenIs ==
    ASSUME Typed, Ranges, NEW c \in Calls, NEW a \in answers, Collect(c, a), IsLast(c)
    PROVE  LastTaken(c, a)
<1> DEFINE y == call[c]
           n == After(c, a).count
           g == y.got \o a.data
           o == Offset(y.next)
           h == Part(y.len, y.next)
<1>0. Collected(c, a) /\ Taken(c, a)
  BY CollectIs, TakenIs
<1>1. /\ Busy(c) /\ y.op \in IOOps /\ y.len \in Nat \ {0} /\ y.start \in Nat \ {0}
      /\ y.count \in Nat /\ a.res \in Nat /\ a.res <= h
      /\ y.got \in Seq(Units) /\ a.data \in Seq(Units)
      /\ n = y.count + a.res /\ y.next \in Fragments(y.len)
      /\ a.frag[1] = c /\ a.frag[2] = y.next /\ After(c, a).got = g
      /\ Len(a.data) = IF y.op = "read" THEN a.res ELSE 0
  BY <1>0 DEF Collected
<1>2. o \in Nat /\ h \in Nat \ {0} /\ o + h = y.len
  <2>1. /\ Offset(y.next) \in Nat /\ Part(y.len, y.next) \in 1..Fragment
        /\ Offset(y.next) + Part(y.len, y.next) = y.len
    BY <1>1, PartFacts DEF IsLast
  <2>2. QED
    BY <2>1, SizeFacts
<1>3. y.count <= o /\ Len(y.got) = IF y.op = "read" THEN y.count ELSE 0
  BY <1>1 DEF Typed, SoFar
<1>4. n \in Nat /\ n <= y.len
  <2> DEFINE k == y.count
             r == a.res
             m == y.len
  <2>1. k \in Nat /\ r \in Nat /\ m \in Nat /\ o \in Nat /\ h \in Nat /\ k <= o /\ r <= h
          /\ o + h = m
        /\ n = k + r
    BY <1>1, <1>2, <1>3
  <2> HIDE DEF k, r, m, o, h, n
  <2>2. n \in Nat /\ n <= m
    BY <2>1
  <2>3. QED
    BY <2>2 DEF m
<1>5. Len(g) = Len(y.got) + Len(a.data)
  BY <1>1, Together
<1>6. Len(g) = IF y.op = "read" THEN n ELSE 0
  BY <1>1, <1>3, <1>5
<1>7. y.op # "read" => g = <<>>
  <2>1. g \in Seq(Units)
    BY <1>1, Together
  <2> HIDE DEF g
  <2>2. Len(g) = 0 => g = <<>>
    BY <2>1, EmptySeq
  <2>3. QED
    BY <2>2, <1>6
<1>8. /\ returned' = [call |-> c, ok |-> TRUE, got |-> g, count |-> n]
      /\ file' = file
  BY <1>0, <1>1 DEF Taken
<1>9. WholeRange!Return(c, TRUE, g, n)
  <2>1. ~Busy(c)' /\ call'[c].state = "done"
        /\ \A d \in Calls : d # c => call'[d] = call[d] /\ (Busy(d)' <=> Busy(d))
    BY <1>0, DoneIs DEF Collected
  <2> HIDE DEF g, n, y
  <2>2. QED
    BY <2>1, <1>1, <1>8, ReturnIs
<1>10. /\ Late' = Late
       /\ Unknown' = IF y.op # "read" /\ n >= y.len THEN Unknown \ y.sure ELSE Unknown
  BY TakenUnseen
<1>11. IsShown(Shown[c], "busy", y.op, y.start, y.len, y.touched, y.sure)
  <2>1. y.state = "busy"
    BY <1>1 DEF Busy
  <2>2. QED
    BY <2>1, <1>1, ShownIs
<1>12. returned'.got = g
  BY <1>8
<1>13. QED
  BY <1>1, <1>2, <1>3, <1>4, <1>6, <1>7, <1>8, <1>9, <1>10, <1>11, <1>12 DEF LastTaken

(* The last answer of a read is a ReadReturns: the range is as the client knows it. *)
LEMMA ReadReturnsIs ==
    ASSUME Typed, Ranges, ReadsAreRight, NEW c \in Calls, NEW a \in answers, Collect(c, a),
           IsLast(c), call[c].op = "read"
    PROVE  WholeRange!ReadReturns(c)
<1> DEFINE y == call[c]
           v == Shown[c]
           g == y.got \o a.data
           o == Offset(y.next)
           h == Part(y.len, y.next)
<1>0. LastTaken(c, a)
  BY LastTakenIs
<1>1. /\ Busy(c) /\ y.len \in Nat \ {0} /\ y.start \in Nat \ {0}
      /\ y.got \in Seq(Units) /\ a.data \in Seq(Units) /\ a.res \in Nat
      /\ a.frag[1] = c /\ a.frag[2] = y.next
      /\ o \in Nat /\ h \in Nat \ {0} /\ o + h = y.len
      /\ WholeRange!Return(c, TRUE, g, Len(g)) /\ returned'.got = g
      /\ file' = file /\ Late' = Late /\ Unknown' = Unknown
      /\ v.op = "read" /\ v.start = y.start /\ v.len = y.len
  BY <1>0 DEF LastTaken, IsShown
<1>2. Known' = Known
  BY <1>1 DEF Known
<1>3. IsRead(y, Known, y.got, y.start, o) /\ IsRead(y, Known, a.data, y.start + o, h)
  <2>1. a.res >= 0
    BY <1>1
  <2>2. QED
    BY <2>1, <1>1 DEF ReadsAreRight
<1>4. \A k \in Place(y) : k \in Nat \ {0} /\ k \in Cells
  BY <1>1, BusyPlace
<1>5. IsRead(y, Known, g, y.start, y.len)
  <2>1. y.start \in Nat /\ \A k \in Place(y) : k \in Nat
    BY <1>1, <1>4
  <2> HIDE DEF o, h, y
  <2>2. IsRead(y, Known, y.got \o a.data, y.start, o + h)
    BY <2>1, <1>1, <1>3, ReadsJoin
  <2>3. QED
    BY <2>2, <1>1
<1>6. g \in Seq(Units) /\ Len(g) \in Nat
  BY <1>1, Together
<1> DEFINE At(k) == LET i == k - v.start + 1
                    IN  CASE Known[k] = WholeRange!Unsure -> TRUE
                          [] Known[k] = WholeRange!Eof -> i > Len(g)
                          [] OTHER -> i <= Len(g) /\ g[i] = Known[k]
<1>7. ASSUME NEW k \in WholeRange!Place(v) PROVE At(k)
  <2>1. k \in Place(y)
    BY <1>1 DEF Place, WholeRange!Place
  <2> DEFINE p == y.start
             m == y.len
             q == Known[k]
             l == Len(g)
  <2>2. /\ k \in Nat /\ p \in Nat /\ m \in Nat /\ l \in Nat /\ p <= k /\ k <= p + m - 1
    <3>1. k \in p .. (p + m - 1)
      BY <2>1 DEF Place
    <3>2. k \in Nat /\ p \in Nat /\ m \in Nat /\ l \in Nat
      BY <2>1, <1>1, <1>4, <1>6
    <3> HIDE DEF p, m, l
    <3>3. QED
      BY <3>1, <3>2
  <2>3. /\ q = <<"end of file">> => l = 0 \/ p + l - 1 < k
        /\ q \in Units => (p <= k /\ k <= p + m - 1 => k - p + 1 <= l /\ g[k - p + 1] = q)
    BY <2>1, <1>5 DEF IsRead
  <2>4. q = WholeRange!Eof \/ q = WholeRange!Unsure \/ q \in Units
    BY <2>1, <1>4, KnownCells DEF Typed
  <2>5. WholeRange!Eof = <<"end of file">> /\ WholeRange!Unsure = <<"unsure">>
        /\ WholeRange!Eof # WholeRange!Unsure
        /\ (q \in Units => q # WholeRange!Eof /\ q # WholeRange!Unsure)
    BY UnitFacts DEF WholeRange!Eof, WholeRange!Unsure
  <2>6. k - v.start + 1 = k - p + 1
    BY <1>1
  <2> HIDE DEF p, m, q, l, g
  <2>7. q = WholeRange!Eof => k - p + 1 > l
    <3>1. q = WholeRange!Eof => l = 0 \/ p + l - 1 < k
      BY <2>3, <2>5, Zenon
    <3>2. l = 0 \/ p + l - 1 < k => k - p + 1 > l
      BY <2>2
    <3>3. QED
      BY <3>1, <3>2
  <2>8. q \in Units => k - p + 1 <= l /\ g[k - p + 1] = q
    BY <2>2, <2>3
  <2>9. (CASE q = WholeRange!Unsure -> TRUE
           [] q = WholeRange!Eof -> k - p + 1 > l
           [] OTHER -> k - p + 1 <= l /\ g[k - p + 1] = q)
    BY <2>4, <2>5, <2>7, <2>8
  <2>10. QED
    BY <2>6, <2>9 DEF q, l
<1>8. \A k \in WholeRange!Place(v) : At(k)
  BY <1>7
<1> HIDE DEF g
<1>9. QED
  BY <1>1, <1>2, <1>8 DEF WholeRange!ReadReturns

(* The last answer of a write that is not complete is a WriteReturnsShort. *)
LEMMA ShortIs ==
    ASSUME Typed, Ranges, NEW c \in Calls, NEW a \in answers, Collect(c, a),
           IsLast(c), call[c].op # "read", ~(After(c, a).count >= call[c].len)
    PROVE  WholeRange!WriteReturnsShort(c)
<1> DEFINE y == call[c]
           n == After(c, a).count
<1>0. LastTaken(c, a)
  BY LastTakenIs
<1>1. /\ WholeRange!Return(c, TRUE, <<>>, n) /\ n \in Nat /\ y.len \in Nat
      /\ file' = file /\ Late' = Late /\ Unknown' = Unknown
      /\ Shown[c].op = y.op /\ Shown[c].len = y.len
  BY <1>0 DEF LastTaken, IsShown
<1>2. Known' = Known
  BY <1>1 DEF Known
<1>3. n \in 0..(y.len - 1)
  BY <1>1
<1>4. QED
  BY <1>1, <1>2, <1>3 DEF WholeRange!WriteReturnsShort

(* The last answer of a complete write is a WriteReturns: the range is written. *)
LEMMA WriteReturnsIs ==
    ASSUME Typed, Ranges, WritesAreRight, NEW c \in Calls, NEW a \in answers, Collect(c, a),
           IsLast(c), call[c].op = "write", After(c, a).count >= call[c].len
    PROVE  WholeRange!WriteReturns(c)
<1> DEFINE y == call[c]
           v == Shown[c]
           n == After(c, a).count
           o == Offset(y.next)
           h == Part(y.len, y.next)
<1>0. LastTaken(c, a)
  BY LastTakenIs
<1>1. /\ Busy(c) /\ y.len \in Nat \ {0} /\ y.start \in Nat \ {0}
      /\ y.count \in Nat /\ a.res \in Nat /\ n = y.count + a.res /\ n \in Nat /\ n <= y.len
      /\ y.count <= o /\ a.res <= h
      /\ a.frag[1] = c /\ a.frag[2] = y.next
      /\ o \in Nat /\ h \in Nat \ {0} /\ o + h = y.len
      /\ WholeRange!Return(c, TRUE, <<>>, n)
      /\ file' = file /\ Late' = Late /\ Unknown' = Unknown \ y.sure
      /\ v.op = "write" /\ v.start = y.start /\ v.len = y.len /\ v.sure = y.sure
  BY <1>0 DEF LastTaken, IsShown
<1>2. n = y.len
  BY <1>1
<1>3. /\ IsWritten(c, y.start, o, y.count) /\ IsWritten(c, y.start + o, h, a.res)
      /\ \A k \in y.sure : k < y.start /\ k <= Len(file) => file[k] = Zero
  BY <1>1 DEF WritesAreRight
<1>4. \A k \in y.sure : k \in Nat \ {0} /\ k \in Cells /\ k < y.start + y.len
  <2>1. y.sure \subseteq Cells /\ y.sure \subseteq y.touched
    BY <1>1, BusyPlace
  <2>2. \A k \in y.touched : k < y.start + y.len
    BY <1>1 DEF Ranges, Touching
  <2>3. QED
    BY <2>1, <2>2, SizeFacts
<1>5. IsWritten(c, y.start, y.len, y.len)
  <2>1. \A k \in call[c].sure : k \in Nat \ {0}
    BY <1>4
  <2> HIDE DEF y, o, h, n
  <2>2. IsWritten(c, y.start, o + h, y.count + a.res)
    BY <2>1, <1>1, <1>3, WrittenJoin DEF Typed
  <2>3. QED
    BY <2>2, <1>1, <1>2
<1>6. ASSUME NEW k \in y.sure
      PROVE  /\ k <= Len(file)
             /\ file[k] = IF k < y.start THEN Zero ELSE Unit(c, k - y.start + 1)
  <2> DEFINE p == y.start
             m == y.len
             L == Len(file)
  <2>1. /\ L >= p + m - 1
        /\ p <= k /\ k <= p + m - 1 => file[k] = Unit(c, k - p + 1)
        /\ k < p /\ k <= L => file[k] = Zero
    <3>1. y.len >= 1
      BY <1>1
    <3>2. QED
      BY <3>1, <1>3, <1>5, <1>6 DEF IsWritten
  <2>2. k \in Nat /\ p \in Nat /\ m \in Nat /\ L \in Nat /\ k < p + m
    BY <1>1, <1>4, <1>6 DEF Typed, FileTyped
  <2> HIDE DEF p, m, L
  <2>3. k <= L
    BY <2>1, <2>2
  <2>4. CASE k < p
    BY <2>1, <2>3, <2>4 DEF p, L
  <2>5. CASE ~(k < p)
    <3>1. p <= k /\ k <= p + m - 1
      BY <2>2, <2>5
    <3>2. QED
      BY <3>1, <2>1, <2>3, <2>5 DEF p, L
  <2>6. QED
    BY <2>4, <2>5
<1> DEFINE new(k) == IF k \notin v.sure THEN Known[k]
                     ELSE IF k < v.start THEN WholeRange!Zero
                       ELSE WholeRange!Unit(c, k - v.start + 1)
<1>7. ASSUME NEW k \in Cells PROVE Known'[k] = new(k)
  <2>1. /\ Known[k] = IF k \in Unknown THEN <<"unsure">> ELSE IF k <= Len(file) THEN file[k]
                      ELSE <<"end of file">>
        /\ Known'[k] = IF k \in Unknown' THEN <<"unsure">> ELSE IF k <= Len(file') THEN file'[k]
                       ELSE <<"end of file">>
    BY KnownIs
  <2>2. CASE k \in y.sure
    <3>1. Known'[k] = file[k] /\ file[k] = IF k < y.start THEN Zero ELSE Unit(c, k - y.start + 1)
      BY <2>1, <2>2, <1>1, <1>6
    <3>2. QED
      BY <3>1, <2>2, <1>1 DEF Zero, Unit, WholeRange!Zero, WholeRange!Unit
  <2>3. CASE k \notin y.sure
    BY <2>1, <2>3, <1>1
  <2>4. QED
    BY <2>2, <2>3
<1>8. Known' = [k \in Cells |-> new(k)]
  <2> DEFINE T == Known'
  <2>1. T = [k \in Cells |-> T[k]] /\ \A k \in Cells : T[k] = new(k)
    BY <1>7, KnownIs
  <2> HIDE DEF T, new
  <2>2. T = [k \in Cells |-> new(k)]
    BY <2>1
  <2>3. QED
    BY <2>2 DEF T
<1>9. WholeRange!Return(c, TRUE, <<>>, v.len)
  BY <1>1, <1>2
<1>10. v.op = "write" /\ Late' = Late
  BY <1>1
<1> HIDE DEF y, n, o, h
<1>11. QED
  BY <1>8, <1>9, <1>10 DEF WholeRange!WriteReturns

\* The units of an append that is sure of its places are all that is behind them.
LEMMA AppendedIs ==
    ASSUME Typed, NEW c \in Calls, NEW a \in answers, Collect(c, a), IsLast(c), Certain(c), Own(c),
           call[c].op = "append", call[c].start \in Nat \ {0}, call[c].len \in Nat \ {0},
           call[c].start <= Len(file) + 1, After(c, a).count = call[c].len
    PROVE  /\ Len(file) = call[c].start + call[c].len - 1
           /\ \A k \in call[c].start .. Len(file) :
                file[k][2] \in 1..call[c].len /\ file[k] = Unit(c, file[k][2])
           /\ \A u \in 1..call[c].len : \E k \in call[c].start .. Len(file) : file[k] = Unit(c, u)
<1> DEFINE p == call[c].start
           m == call[c].len
           L == Len(file)
           P == p..L
           g == [k \in P |-> file[k][2]]
<1>1. FileTyped /\ L \in Nat /\ DOMAIN file = 1..L
      /\ \A k \in DOMAIN file : file[k] = <<file[k][1], file[k][2]>>
  BY FileIs DEF Typed
<1>2. /\ \A k \in DOMAIN file : file[k][1] = c => file[k][2] \in 1..m /\ k >= p
      /\ \A k, l \in DOMAIN file : file[k] = file[l] /\ file[k][1] = c => k = l
      /\ \A k \in DOMAIN file : k >= p => file[k][1] = c
  BY DEF Own, OwnUnitsOf
<1>3. m = Cardinality({k \in DOMAIN file : file[k][1] = c})
  BY WholeCount
<1>4. p \in Nat \ {0} /\ m \in Nat \ {0} /\ p <= L + 1
  OBVIOUS
<1> HIDE DEF p, m, L
<1>5. P \subseteq DOMAIN file
  BY <1>1, <1>4
<1>6. {k \in DOMAIN file : file[k][1] = c} = P
  <2>1. ASSUME NEW k \in DOMAIN file, file[k][1] = c PROVE k \in P
    BY <2>1, <1>1, <1>2, <1>4
  <2>2. ASSUME NEW k \in P PROVE k \in DOMAIN file /\ file[k][1] = c
    BY <2>2, <1>1, <1>2, <1>4, <1>5
  <2>3. QED
    BY <2>1, <2>2
<1>7. IsFiniteSet(P) /\ Cardinality(P) = m
      /\ Cardinality(P) = IF p > L THEN 0 ELSE L - p + 1
  <2>1. p \in Int /\ L \in Int
    BY <1>1, <1>4
  <2>2. IsFiniteSet(p..L) /\ Cardinality(p..L) = IF p > L THEN 0 ELSE L - p + 1
    BY <2>1, FS_Interval
  <2>3. Cardinality(P) = m
    BY <1>3, <1>6
  <2>4. QED
    BY <2>2, <2>3
<1>8. L = p + m - 1
  <2>1. m = IF p > L THEN 0 ELSE L - p + 1
    BY <1>7
  <2>2. QED
    BY <2>1, <1>1, <1>4
<1>9. ASSUME NEW k \in P PROVE file[k][2] \in 1..m /\ file[k] = Unit(c, file[k][2])
  <2>1. k \in DOMAIN file /\ file[k][1] = c
    BY <1>5, <1>6
  <2>2. QED
    BY <2>1, <1>1, <1>2 DEF Unit
<1>10. g \in Injection(P, 1..m)
  <2>1. g \in [P -> 1..m]
    BY <1>9
  <2>2. ASSUME NEW k \in P, NEW l \in P, g[k] = g[l] PROVE k = l
    <3>1. file[k][2] = file[l][2] /\ k \in DOMAIN file /\ l \in DOMAIN file
      BY <2>2, <1>5
    <3>2. file[k] = file[l] /\ file[k][1] = c
      BY <3>1, <1>6, <1>9
    <3>3. QED
      BY <3>1, <3>2, <1>2
  <2> HIDE DEF g, P
  <2>3. QED
    BY <2>1, <2>2, Fun_IsInj
<1>11. IsFiniteSet(1..m) /\ Cardinality(1..m) = m
  <2>1. 1 \in Int /\ m \in Int /\ ~(1 > m) /\ m - 1 + 1 = m
    BY <1>4
  <2>2. QED
    BY <2>1, FS_Interval
<1>12. g \in Surjection(P, 1..m)
  <2> DEFINE N == 1..m
  <2>1. IsFiniteSet(N) /\ Cardinality(P) = Cardinality(N) /\ g \in Injection(P, N)
    BY <1>7, <1>10, <1>11
  <2> HIDE DEF g, P, N
  <2>2. g \in Surjection(P, N)
    BY <2>1, FS_Injection
  <2>3. QED
    BY <2>2 DEF N
<1>13. ASSUME NEW u \in 1..m PROVE \E k \in P : file[k] = Unit(c, u)
  <2>1. PICK k \in P : g[k] = u
    <3> HIDE DEF g, P
    <3>1. QED
      BY <1>12 DEF Surjection
  <2>2. file[k][2] = u
    BY <2>1
  <2>3. QED
    BY <2>2, <1>9
<1>14. QED
  BY <1>8, <1>9, <1>13 DEF p, m, L

(* The last answer of a complete append is an AppendReturns: the units are at the end. *)
LEMMA AppendReturnsIs ==
    ASSUME Typed, Ranges, OwnUnits, OwnCounts, NEW c \in Calls, NEW a \in answers, Collect(c, a),
           IsLast(c), call[c].op = "append", After(c, a).count >= call[c].len
    PROVE  WholeRange!AppendReturns(c)
<1> DEFINE y == call[c]
           v == Shown[c]
           n == After(c, a).count
<1>0. LastTaken(c, a)
  BY LastTakenIs
<1>1. /\ Busy(c) /\ y.len \in Nat \ {0} /\ y.start \in Nat \ {0} /\ n \in Nat /\ n <= y.len
      /\ WholeRange!Return(c, TRUE, <<>>, n)
      /\ file' = file /\ Late' = Late /\ Unknown' = Unknown \ y.sure
      /\ v.op = "append" /\ v.start = y.start /\ v.len = y.len /\ v.sure = y.sure
  BY <1>0 DEF LastTaken, IsShown
<1>2. n = y.len
  BY <1>1
<1>3. /\ y.touched = {k \in Cells : k >= y.start} /\ y.sure \in {y.touched, {}}
      /\ y.start <= Len(file) + 1
  BY <1>1 DEF Ranges, Touching
<1>4. WholeRange!Return(c, TRUE, <<>>, v.len) /\ v.op = "append" /\ Late' = Late
  BY <1>1, <1>2
<1>5. ASSUME v.sure = {} PROVE Known' = Known
  BY <1>1, <1>5 DEF Known
<1>6. ASSUME v.sure # {}
      PROVE  /\ {Known'[k] : k \in WholeRange!Place(v)} = {WholeRange!Unit(c, k) : k \in 1..v.len}
             /\ Known' = [k \in Cells |-> IF k \notin v.sure THEN Known[k]
                                          ELSE IF k \in WholeRange!Place(v) THEN Known'[k]
                                            ELSE WholeRange!Eof]
  <2>1. y.sure = y.touched
    BY <1>1, <1>3, <1>6
  <2>2. Certain(c) /\ Own(c)
    BY <1>1, <2>1 DEF OwnUnits, OwnCounts, Own, Certain
  <2>3. /\ Len(file) = y.start + y.len - 1
        /\ \A k \in y.start .. Len(file) :
             file[k][2] \in 1..y.len /\ file[k] = Unit(c, file[k][2])
        /\ \A u \in 1..y.len : \E k \in y.start .. Len(file) : file[k] = Unit(c, u)
    BY <1>1, <1>2, <1>3, <2>2, AppendedIs
  <2> DEFINE p == y.start
             m == y.len
             L == Len(file)
             P == p..L
             T == Known'
  <2>4. p \in Nat \ {0} /\ m \in Nat \ {0} /\ L \in Nat /\ L = p + m - 1
    BY <1>1, <2>3 DEF Typed, FileTyped
  <2>5. WholeRange!Place(v) = P
    BY <1>1, <2>3 DEF WholeRange!Place
  <2>6. L <= Size /\ Size \in Nat
    <3>1. Cardinality(Unappended) \in Nat /\ Len(file) + Cardinality(Unappended) <= Size
      BY UnappendedFacts DEF Typed, Capacity
    <3>2. QED
      BY <3>1, <2>4, SizeFacts
  <2>7. \A k \in Cells : k \in Nat /\ (k \in y.sure <=> k >= p)
    BY <1>3, <2>1, SizeFacts
  <2>8. P \subseteq Cells
    <3> HIDE DEF p, m, L
    <3>1. QED
      BY <2>4, <2>6 DEF Cells
  <2>9. \A k \in Cells : T[k] = IF k \in Unknown' THEN <<"unsure">>
                                ELSE IF k <= L THEN file[k] ELSE <<"end of file">>
    BY <1>1, KnownIs
  <2>10. \A k \in Cells : Known[k] = IF k \in Unknown THEN <<"unsure">>
                                     ELSE IF k <= L THEN file[k] ELSE <<"end of file">>
    BY KnownIs
  <2>11. \A k \in Cells : k \in Unknown' <=> k \in Unknown /\ ~(k >= p)
    BY <1>1, <2>7
  <2>12. T = [k \in Cells |-> T[k]]
    BY KnownIs
  <2>13. /\ \A k \in P : file[k][2] \in 1..m /\ file[k] = WholeRange!Unit(c, file[k][2])
         /\ \A u \in 1..m : \E k \in P : file[k] = WholeRange!Unit(c, u)
    BY <2>3 DEF Unit, WholeRange!Unit
  <2> HIDE DEF T, P, p, m, L
  <2>14. \A k \in P : k >= p /\ k <= L /\ k \in Cells
    BY <2>4, <2>8 DEF P
  <2>15. \A k \in P : T[k] = file[k]
    BY <2>9, <2>11, <2>14
  <2>16. {T[k] : k \in P} = {WholeRange!Unit(c, k) : k \in 1..m}
    BY <2>13, <2>15
  <2>17. ASSUME NEW k \in Cells
         PROVE  T[k] = IF ~(k >= p) THEN Known[k] ELSE IF k \in P THEN T[k] ELSE WholeRange!Eof
    <3>1. CASE ~(k >= p)
      BY <3>1, <2>9, <2>10, <2>11
    <3>2. CASE k >= p /\ k \notin P
      <4>1. ~(k <= L)
        BY <3>2, <2>4, <2>7 DEF P
      <4>2. QED
        BY <3>2, <4>1, <2>9, <2>11 DEF WholeRange!Eof
    <3>3. QED
      BY <3>1, <3>2
  <2>18. \A k \in Cells : T[k] = IF k \notin v.sure THEN Known[k]
                                 ELSE IF k \in P THEN T[k] ELSE WholeRange!Eof
    BY <2>7, <2>17, <1>1
  <2>19. T = [k \in Cells |-> IF k \notin v.sure THEN Known[k]
                              ELSE IF k \in P THEN T[k] ELSE WholeRange!Eof]
    BY <2>12, <2>18
  <2>20. m = v.len
    BY <1>1 DEF m
  <2>21. QED
    BY <2>5, <2>16, <2>19, <2>20 DEF T
<1> HIDE DEF y, v, n
<1>7. QED
  BY <1>4, <1>5, <1>6 DEF WholeRange!AppendReturns, v

(* Every step of FileIO is a step of WholeRangeIO or leaves it as it is. *)
LEMMA StepAbstract ==
    ASSUME IInv, [Next]_vars
    PROVE  AbstractStep
<1>0. Typed /\ Ranges /\ ReadsAreRight /\ WritesAreRight /\ OwnUnits /\ OwnCounts
  BY DEF IInv, Ranges
<1>1. ASSUME NEW c \in Calls, NEW x, Began(c, x) PROVE AbstractStep
  BY <1>0, <1>1, BeginIs DEF AbstractStep, WholeRange!Next
<1>2. ASSUME NEW c \in Calls, NEW a \in answers, Collect(c, a) PROVE AbstractStep
  <2>1. CASE ~IsLast(c)
    BY <1>0, <1>2, <2>1, NotLastSettles DEF AbstractStep, WholeRange!Next
  <2>2. CASE IsLast(c)
    <3>1. call[c].op \in IOOps
      BY <1>0, <1>2, CollectIs DEF Collected
    <3>2. \/ WholeRange!ReadReturns(c) \/ WholeRange!WriteReturns(c) \/ WholeRange!AppendReturns(c)
          \/ WholeRange!WriteReturnsShort(c)
      BY <3>1, <1>0, <1>2, <2>2, ReadReturnsIs, WriteReturnsIs, AppendReturnsIs, ShortIs DEF IOOps
    <3>3. QED
      BY <3>2 DEF AbstractStep, WholeRange!Next
  <2>3. QED
    BY <2>1, <2>2
<1>3. ASSUME NEW c \in Calls, GiveUp(c) PROVE AbstractStep
  BY <1>0, <1>3, FailIs DEF AbstractStep, WholeRange!Next
<1>4. ASSUME NEW f \in pending, Executes(f) PROVE AbstractStep
  BY <1>0, <1>4, ExecutesSettles DEF AbstractStep, WholeRange!Next
<1>5. ASSUME UNCHANGED vars PROVE AbstractStep
  <2>1. call' = call /\ returned' = returned /\ Late' = Late /\ Known' = Known
    BY <1>0, <1>5, RangesStutters DEF vars
  <2>2. Shown' = Shown
    <3>1. \A c \in Calls : Shown'[c] = Shown[c]
      BY <2>1, ShownStays DEF Busy
    <3>2. QED
      BY <3>1, AllStay
  <2>3. QED
    BY <2>1, <2>2 DEF AbstractStep, WholeRange!vars
<1>6. QED
  BY <1>0, <1>1, <1>2, <1>3, <1>4, <1>5, StepIs DEF Executes

(* The fragments of a call, executed in any order and taken in theirs, are one operation
   on its range; and what is left of failed calls changes only what is unsure. *)
THEOREM Refinement == Spec => ImplementsWholeRangeIO
<1>1. Init => WholeRange!Init
  BY InitIs
<1>2. IInv /\ [Next]_vars => [WholeRange!Next]_(WholeRange!vars)
  BY StepAbstract DEF AbstractStep
<1>3. QED
  BY <1>1, <1>2, Invariance, PTL DEF Spec, ImplementsWholeRangeIO, WholeRange!Spec
=============================================================================
