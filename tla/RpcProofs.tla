----------------------------- MODULE RpcProofs -----------------------------
(***************************************************************************)
(* Proofs about Rpc, for any number of callers, workers, commands and      *)
(* restarts and whatever the socket loses.  The first part follows the     *)
(* frames: a command is executed at most once.  The second part follows    *)
(* the calls: Rpc implements AtMostOnceCall, and the Deserializer keeps no *)
(* reply that nobody waits for or gave up.  It rests on what a call holds: *)
(* its commands are pending, no other call has them, and what it has       *)
(* queued is among them.                                                   *)
(***************************************************************************)
EXTENDS Rpc, Naturals, SequencesExt, SequenceTheorems, TLAPS

-----------------------------------------------------------------------------
(* Sequences.                                                              *)

(* Appending adds one element. *)
LEMMA AppendFacts ==
    ASSUME NEW S, NEW s \in Seq(S), NEW e \in S
    PROVE  /\ Append(s, e) \in Seq(S)
           /\ Append(s, e) # <<>>
           /\ ToSet(Append(s, e)) = ToSet(s) \cup {e}
           /\ IsInjective(s) /\ e \notin ToSet(s) => IsInjective(Append(s, e))
<1>1. /\ Append(s, e) \in Seq(S)
      /\ Len(Append(s, e)) = Len(s) + 1
      /\ \A k \in 1..Len(s) : Append(s, e)[k] = s[k]
      /\ Append(s, e)[Len(s) + 1] = e
  OBVIOUS
<1>2. ToSet(Append(s, e)) = ToSet(s) \cup {e}
  BY <1>1 DEF ToSet
<1>3. ASSUME IsInjective(s), e \notin ToSet(s) PROVE IsInjective(Append(s, e))
  BY <1>1, <1>3 DEF ToSet, IsInjective
<1>4. Append(s, e) # <<>>
  BY <1>1, Len(<<>>) = 0
<1>5. QED
  BY <1>1, <1>2, <1>3, <1>4

(* Popping the first element removes it and nothing else. *)
LEMMA TailFacts ==
    ASSUME NEW S, NEW s \in Seq(S), s # <<>>
    PROVE  /\ Head(s) \in S
           /\ Head(s) \in ToSet(s)
           /\ Tail(s) \in Seq(S)
           /\ Len(s) = 1 <=> Tail(s) = <<>>
           /\ ToSet(Tail(s)) \subseteq ToSet(s)
           /\ IsInjective(s) => /\ IsInjective(Tail(s))
                                /\ Head(s) \notin ToSet(Tail(s))
<1>1. /\ Head(s) = s[1]
      /\ Len(s) \in Nat \ {0}
      /\ Tail(s) \in Seq(S)
      /\ Len(Tail(s)) = Len(s) - 1
      /\ \A k \in 1..(Len(s) - 1) : Tail(s)[k] = s[k + 1]
  OBVIOUS
<1>2. /\ Head(s) \in S
      /\ Head(s) \in ToSet(s)
      /\ ToSet(Tail(s)) \subseteq ToSet(s)
  BY <1>1 DEF ToSet
<1>3. ASSUME IsInjective(s)
      PROVE  IsInjective(Tail(s)) /\ Head(s) \notin ToSet(Tail(s))
  BY <1>1, <1>3 DEF ToSet, IsInjective
<1>4. Len(s) = 1 <=> Tail(s) = <<>>
  <2> DEFINE t == Tail(s)
  <2>1. t \in Seq(S) /\ Len(t) = Len(s) - 1 /\ Len(s) \in Nat
    BY <1>1
  <2> HIDE DEF t
  <2>2. Len(s) = 1 <=> t = <<>>
    BY <2>1, EmptySeq
  <2>3. QED
    BY <2>2 DEF t
<1>5. QED
  BY <1>1, <1>2, <1>3, <1>4

(* Popping the first element removes no other. *)
LEMMA HeadOrTail ==
    ASSUME NEW S, NEW s \in Seq(S), s # <<>>
    PROVE  ToSet(s) = {Head(s)} \cup ToSet(Tail(s))
<1> DEFINE t == Tail(s)
<1>1. /\ Head(s) = s[1] /\ Head(s) \in ToSet(s)
      /\ t \in Seq(S) /\ Len(t) = Len(s) - 1
      /\ ToSet(t) \subseteq ToSet(s)
      /\ Len(s) \in Nat \ {0}
      /\ \A k \in 1..(Len(s) - 1) : t[k] = s[k + 1]
  BY TailFacts
<1> HIDE DEF t
<1>2. DOMAIN s = 1..Len(s) /\ DOMAIN t = 1..Len(t)
  BY <1>1
<1>3. ASSUME NEW k \in 1..Len(s), k # 1 PROVE s[k] \in ToSet(t)
  <2>1. k - 1 \in DOMAIN t /\ s[k] = t[k - 1]
    BY <1>1, <1>2, <1>3
  <2>2. QED
    BY <2>1 DEF ToSet
<1>4. \A x \in ToSet(s) : \E k \in 1..Len(s) : x = s[k]
  BY <1>2 DEF ToSet
<1>5. ToSet(s) \subseteq {Head(s)} \cup ToSet(t)
  BY <1>1, <1>3, <1>4
<1>6. QED
  BY <1>1, <1>5 DEF t

(* Losing any element adds none. *)
LEMMA RemoveAtFacts ==
    ASSUME NEW S, NEW s \in Seq(S), NEW k \in 1..Len(s)
    PROVE  /\ RemoveAt(s, k) \in Seq(S)
           /\ ToSet(RemoveAt(s, k)) \subseteq ToSet(s)
           /\ IsInjective(s) => IsInjective(RemoveAt(s, k))
<1> DEFINE f == SubSeq(s, 1, k - 1)
           g == SubSeq(s, k + 1, Len(s))
<1>1. /\ f \in Seq(S) /\ Len(f) = k - 1
      /\ \A j \in 1..(k - 1) : f[j] = s[j]
  OBVIOUS
<1>2. /\ g \in Seq(S) /\ Len(g) = Len(s) - k
      /\ \A j \in 1..(Len(s) - k) : g[j] = s[j + k]
  OBVIOUS
<1>3. RemoveAt(s, k) = f \o g
  BY DEF RemoveAt
<1> HIDE DEF f, g
<1>4. /\ f \o g \in Seq(S)
      /\ Len(f \o g) = Len(s) - 1
      /\ \A j \in 1..(Len(s) - 1) : (f \o g)[j] = IF j < k THEN s[j] ELSE s[j + 1]
  <2>1. f \o g \in Seq(S) /\ Len(f \o g) = Len(f) + Len(g)
    BY <1>1, <1>2, ConcatProperties
  <2>2. \A j \in 1..(Len(f) + Len(g)) :
           (f \o g)[j] = IF j <= Len(f) THEN f[j] ELSE g[j - Len(f)]
    BY <1>1, <1>2, ConcatProperties
  <2>3. Len(s) \in Nat /\ k \in 1..Len(s)
    OBVIOUS
  <2>4. ASSUME NEW j \in 1..(Len(s) - 1)
        PROVE  (f \o g)[j] = IF j < k THEN s[j] ELSE s[j + 1]
    <3>1. CASE j < k
      BY <3>1, <2>2, <2>3, <1>1, <1>2
    <3>2. CASE ~(j < k)
      <4>1. j - Len(f) \in 1..(Len(s) - k) /\ (j - Len(f)) + k = j + 1
        BY <3>2, <2>3, <1>1
      <4>2. (f \o g)[j] = g[j - Len(f)]
        BY <3>2, <2>2, <2>3, <1>1, <1>2
      <4>3. QED
        BY <4>1, <4>2, <3>2, <1>2
    <3>3. QED
      BY <3>1, <3>2
  <2>5. QED
    BY <1>1, <1>2, <2>1, <2>3, <2>4
<1> DEFINE r == f \o g
<1>a. /\ r \in Seq(S) /\ Len(r) = Len(s) - 1 /\ Len(s) \in Nat
      /\ \A j \in 1..(Len(s) - 1) : r[j] = IF j < k THEN s[j] ELSE s[j + 1]
  BY <1>4
<1> HIDE DEF r
<1>5. ToSet(r) \subseteq ToSet(s)
  BY <1>a DEF ToSet
<1>6. ASSUME IsInjective(s) PROVE IsInjective(r)
  <2>1. DOMAIN s = 1..Len(s) /\ DOMAIN r = 1..(Len(s) - 1)
    BY <1>a
  <2>2. SUFFICES ASSUME NEW i \in DOMAIN r, NEW j \in DOMAIN r, r[i] = r[j] PROVE i = j
    BY DEF IsInjective
  <2> DEFINE x == IF i < k THEN i ELSE i + 1
             y == IF j < k THEN j ELSE j + 1
  <2>3. x \in DOMAIN s /\ y \in DOMAIN s /\ (x = y => i = j)
    BY <1>a, <2>1
  <2>4. r[i] = s[x] /\ r[j] = s[y]
    BY <1>a, <2>1
  <2> HIDE DEF x, y
  <2>5. QED
    BY <1>6, <2>2, <2>3, <2>4 DEF IsInjective
<1>7. QED
  BY <1>3, <1>a, <1>5, <1>6 DEF r

-----------------------------------------------------------------------------
(* The inductive invariant.                                                *)

\* A call waits for something as long as it lasts.
CallShape == \A c \in Callers : pc[c] = "idle" <=> mids[c] = <<>>

\* No frame is twice in a queue...
InOrder ==
    /\ \A c \in Callers : IsInjective(queue[c])
    /\ IsInjective(uplink)
    /\ IsInjective(requests)

\* ...nor in two places on its way to the server.
OnePlace ==
    /\ \A c, d \in Callers : c # d => ToSet(queue[c]) \cap ToSet(queue[d]) = {}
    /\ \A c \in Callers :
          ToSet(queue[c]) \cap (ToSet(uplink) \cup ToSet(requests) \cup taken) = {}
    /\ ToSet(uplink) \cap (ToSet(requests) \cup taken) = {}
    /\ ToSet(requests) \cap taken = {}

Underway(i) ==
    \/ \E c \in Callers : i \in ToSet(queue[c])
    \/ i \in ToSet(uplink) \/ i \in ToSet(requests) \/ i \in taken

\* What can still be executed was handed out, not executed and not withdrawn.
UnderwayUnexecuted ==
    \A i \in Ids : Underway(i) =>
        i < nextId /\ runs[i] = 0 /\ outcome[i] # "cancelled"

\* What comes back was executed.
RepliesExecuted ==
    \A i \in Ids : i \in answering \cup ToSet(downlink) \cup items => runs[i] = 1

UnissuedUnexecuted == \A i \in Ids : i >= nextId => runs[i] = 0

IInv ==
    /\ TypeOK /\ CallShape /\ InOrder /\ OnePlace
    /\ UnderwayUnexecuted /\ RepliesExecuted /\ UnissuedUnexecuted
    /\ AtMostOnce /\ AnsweredWasExecuted /\ CancelledNeverRuns


-----------------------------------------------------------------------------
(* Every step preserves it.                                                *)

(* The invariant holds at first: there is no frame. *)
LEMMA InitInv == ASSUME Init PROVE IInv
<1>1. TypeOK /\ CallShape
  BY ConstantsAssumption DEF Init, TypeOK, CallShape, Ids
<1>2. \A s : s = <<>> => ToSet(s) = {} /\ IsInjective(s)
  BY DEF ToSet, IsInjective
<1>3. InOrder /\ OnePlace
  BY <1>2 DEF Init, InOrder, OnePlace
<1>4. UnderwayUnexecuted /\ RepliesExecuted /\ UnissuedUnexecuted
  BY <1>2 DEF Init, UnderwayUnexecuted, Underway, RepliesExecuted,
              UnissuedUnexecuted
<1>5. AtMostOnce /\ AnsweredWasExecuted /\ CancelledNeverRuns
  BY DEF Init, AtMostOnce, AnsweredWasExecuted, CancelledNeverRuns
<1>6. QED
  BY <1>1, <1>3, <1>4, <1>5 DEF IInv

(* A frame is made, and is in the queue of its caller only. *)
LEMMA AddCommandInv ==
    ASSUME IInv, NEW c \in Callers, AddCommand(c) PROVE IInv'
<1> USE DEF AddCommand, IInv
<1>1. /\ nextId \in Ids /\ nextId \in Nat
      /\ queue[c] \in Seq(Ids) /\ mids[c] \in Seq(Ids)
      /\ nextId + 1 \in 1..(MaxId + 1)
  BY ConstantsAssumption DEF TypeOK, Ids
<1>2. /\ Append(queue[c], nextId) \in Seq(Ids)
      /\ ToSet(Append(queue[c], nextId)) = ToSet(queue[c]) \cup {nextId}
      /\ IsInjective(queue[c]) /\ nextId \notin ToSet(queue[c])
            => IsInjective(Append(queue[c], nextId))
  BY <1>1, AppendFacts
<1>3. Append(mids[c], nextId) \in Seq(Ids) /\ Append(mids[c], nextId) # <<>>
  BY <1>1, AppendFacts
<1>4. ~Underway(nextId) /\ runs[nextId] = 0
  BY <1>1 DEF UnderwayUnexecuted, UnissuedUnexecuted
<1>5. TypeOK'
  BY <1>1, <1>2, <1>3 DEF TypeOK, serverVars
<1>6. CallShape'
  BY <1>3 DEF CallShape, TypeOK
<1>7. InOrder' /\ OnePlace'
  BY <1>2, <1>4 DEF InOrder, OnePlace, Underway, TypeOK, serverVars
<1>8. UnderwayUnexecuted'
  <2>1. ASSUME NEW i \in Ids, Underway(i)' PROVE Underway(i) \/ i = nextId
    BY <2>1, <1>2 DEF Underway, TypeOK, serverVars
  <2>2. QED
    BY <2>1, <1>1, <1>4 DEF UnderwayUnexecuted, TypeOK, serverVars, Ids
<1>9. RepliesExecuted' /\ UnissuedUnexecuted'
  BY <1>1 DEF RepliesExecuted, UnissuedUnexecuted, serverVars, Ids
<1>10. AtMostOnce' /\ AnsweredWasExecuted' /\ CancelledNeverRuns'
  BY <1>4 DEF AtMostOnce, AnsweredWasExecuted, CancelledNeverRuns, TypeOK, serverVars
<1>11. QED
  BY <1>5, <1>6, <1>7, <1>8, <1>9, <1>10

(* No frame moves when a call begins to wait. *)
LEMMA AwaitRepliesInv ==
    ASSUME IInv, NEW c \in Callers, AwaitReplies(c) PROVE IInv'
<1> USE DEF AwaitReplies, IInv, serverVars
<1>1. TypeOK' /\ CallShape'
  BY DEF TypeOK, CallShape
<1>2. InOrder' /\ OnePlace' /\ RepliesExecuted'
  BY DEF InOrder, OnePlace, RepliesExecuted
<1>3. UnderwayUnexecuted' /\ UnissuedUnexecuted'
  BY DEF UnderwayUnexecuted, UnissuedUnexecuted, Underway
<1>4. AtMostOnce' /\ AnsweredWasExecuted' /\ CancelledNeverRuns'
  BY DEF AtMostOnce, AnsweredWasExecuted, CancelledNeverRuns
<1>5. QED
  BY <1>1, <1>2, <1>3, <1>4

(* The two ways a call ends early: what it still had queued is nowhere else. *)
LEMMA GiveUpInv ==
    ASSUME IInv, NEW c \in Callers, pc[c] = "waiting",
           NEW answered \in SUBSET Ids, NEW left \in SUBSET Ids,
           \A i \in answered : runs[i] = 1,
           GiveUp(c, answered, left),
           items' \subseteq items,
           UNCHANGED <<nextId, uplink, serverVars, downlink, restarts>>
    PROVE  IInv'
<1> USE DEF IInv, serverVars
<1> DEFINE dropped == IF c \in Resident THEN {} ELSE ToSet(queue[c])
<1>1. /\ queue' = IF c \in Resident THEN queue ELSE [queue EXCEPT ![c] = <<>>]
      /\ outcome' = [i \in Ids |-> IF i \in answered THEN "answered"
                                   ELSE IF i \in dropped THEN "cancelled"
                                   ELSE IF i \in left THEN "abandoned" ELSE outcome[i]]
      /\ mids' = [mids EXCEPT ![c] = <<>>]
      /\ pc' = [pc EXCEPT ![c] = "idle"]
  BY DEF GiveUp
<1>2. ToSet(<<>>) = {} /\ IsInjective(<<>>) /\ <<>> \in Seq(Ids)
  BY DEF ToSet, IsInjective
<1>3. /\ \A d \in Callers \ {c} : queue'[d] = queue[d]
      /\ \A i \in dropped : c \notin Resident
      /\ c \notin Resident => queue'[c] = <<>>
      /\ queue'[c] \in {queue[c], <<>>}
  BY <1>1 DEF TypeOK
<1>4. \A i \in dropped : Underway(i) /\ ~Underway(i)'
  <2> SUFFICES ASSUME NEW i \in dropped PROVE Underway(i) /\ ~Underway(i)'
    OBVIOUS
  <2>1. i \in ToSet(queue[c]) /\ queue'[c] = <<>>
    BY <1>3
  <2>2. Underway(i)
    BY <2>1 DEF Underway
  <2>3. /\ i \notin ToSet(uplink) /\ i \notin ToSet(requests) /\ i \notin taken
        /\ \A d \in Callers \ {c} : i \notin ToSet(queue[d])
    BY <2>1 DEF OnePlace
  <2>4. ~Underway(i)'
    BY <2>1, <2>3, <1>2, <1>3 DEF Underway
  <2>5. QED
    BY <2>2, <2>4
<1> HIDE DEF dropped
<1>5. \A i \in Ids :
         /\ i \in answered => outcome'[i] = "answered"
         /\ i \notin answered /\ i \in dropped => outcome'[i] = "cancelled"
         /\ i \notin answered /\ i \notin dropped
               => outcome'[i] \in {"abandoned", outcome[i]}
  BY <1>1
<1>6. TypeOK'
  <2>1. outcome' \in [Ids -> {"new", "pending", "answered", "abandoned", "cancelled"}]
    <3>1. \A i \in Ids : outcome'[i] \in {"new", "pending", "answered", "abandoned", "cancelled"}
      BY <1>5 DEF TypeOK
    <3>2. outcome' = [i \in Ids |-> outcome'[i]]
      BY <1>1
    <3>3. QED
      BY <3>1, <3>2
  <2>2. queue' \in [Callers -> Seq(Ids)] /\ mids' \in [Callers -> Seq(Ids)]
    BY <1>1, <1>2 DEF TypeOK
  <2>3. QED
    BY <2>1, <2>2, <1>1 DEF TypeOK
<1>7. CallShape'
  BY <1>1 DEF CallShape, TypeOK
<1>8. InOrder' /\ OnePlace'
  BY <1>2, <1>3 DEF InOrder, OnePlace
<1>9. \A i \in Ids : Underway(i)' => Underway(i)
  BY <1>2, <1>3 DEF Underway
<1>10. UnderwayUnexecuted'
  BY <1>4, <1>5, <1>9 DEF UnderwayUnexecuted
<1>11. RepliesExecuted' /\ UnissuedUnexecuted' /\ AtMostOnce'
  BY DEF RepliesExecuted, UnissuedUnexecuted, AtMostOnce
<1>12. AnsweredWasExecuted'
  BY <1>5 DEF AnsweredWasExecuted
<1>13. CancelledNeverRuns'
  BY <1>4, <1>5 DEF CancelledNeverRuns, UnderwayUnexecuted
<1>14. QED
  BY <1>6, <1>7, <1>8, <1>10, <1>11, <1>12, <1>13


(* The call takes the reply from m_items. *)
LEMMA TakeReplyInv ==
    ASSUME IInv, NEW c \in Callers, TakeReply(c) PROVE IInv'
<1> USE DEF TakeReply, IInv, serverVars
<1>1. mids[c] \in Seq(Ids) /\ mids[c] # <<>>
  BY DEF TypeOK, CallShape
<1>2. Head(mids[c]) \in Ids /\ Tail(mids[c]) \in Seq(Ids)
  BY <1>1, TailFacts
<1>3. Len(mids[c]) = 1 <=> Tail(mids[c]) = <<>>
  BY <1>1, TailFacts
<1>4. runs[Head(mids[c])] = 1
  BY <1>2 DEF RepliesExecuted
<1>5. TypeOK'
  BY <1>2 DEF TypeOK
<1>6. CallShape'
  BY <1>3 DEF CallShape, TypeOK
<1>7. InOrder' /\ OnePlace' /\ RepliesExecuted' /\ UnissuedUnexecuted' /\ AtMostOnce'
  BY DEF InOrder, OnePlace, RepliesExecuted, UnissuedUnexecuted, AtMostOnce
<1>8. UnderwayUnexecuted'
  BY DEF UnderwayUnexecuted, Underway, TypeOK
<1>9. AnsweredWasExecuted' /\ CancelledNeverRuns'
  BY <1>4 DEF AnsweredWasExecuted, CancelledNeverRuns, TypeOK
<1>10. QED
  BY <1>5, <1>6, <1>7, <1>8, <1>9

(* An error reply ends the call, which gives up the rest. *)
LEMMA TakeErrorInv ==
    ASSUME IInv, NEW c \in Callers, TakeError(c) PROVE IInv'
<1>1. mids[c] \in Seq(Ids) /\ mids[c] # <<>>
  BY DEF TakeError, IInv, TypeOK, CallShape
<1>2. /\ Head(mids[c]) \in Ids
      /\ Tail(mids[c]) \in Seq(Ids)
  BY <1>1, TailFacts
<1>3. ToSet(Tail(mids[c])) \in SUBSET Ids
  BY <1>2 DEF ToSet
<1>4. runs[Head(mids[c])] = 1
  BY <1>2 DEF TakeError, IInv, RepliesExecuted
<1>5. /\ pc[c] = "waiting"
      /\ GiveUp(c, {Head(mids[c])}, ToSet(Tail(mids[c])))
      /\ items' \subseteq items
      /\ UNCHANGED <<nextId, uplink, serverVars, downlink, restarts>>
  BY DEF TakeError
<1>6. QED
  BY <1>2, <1>3, <1>4, <1>5, GiveUpInv

(* The deadline ends the call. *)
LEMMA TimedOutInv ==
    ASSUME IInv, NEW c \in Callers, TimedOut(c) PROVE IInv'
<1>1. ToSet(mids[c]) \in SUBSET Ids
  BY DEF ToSet, IInv, TypeOK
<1>2. /\ pc[c] = "waiting"
      /\ GiveUp(c, {}, ToSet(mids[c]))
      /\ items' \subseteq items
      /\ UNCHANGED <<nextId, uplink, serverVars, downlink, restarts>>
  BY DEF TimedOut
<1>3. QED
  BY <1>1, <1>2, GiveUpInv

(* The writer thread moves a frame from the queue to the socket. *)
LEMMA SendInv ==
    ASSUME IInv, NEW c \in Callers, Send(c) \/ SendFails(c) PROVE IInv'
<1> USE DEF IInv, serverVars, callerVars
<1> DEFINE f == Head(queue[c])
<1>1. queue[c] \in Seq(Ids) /\ queue[c] # <<>> /\ IsInjective(queue[c])
  BY DEF Send, SendFails, Consumable, TypeOK, InOrder
<1>2. /\ f \in Ids /\ f \in ToSet(queue[c])
      /\ Tail(queue[c]) \in Seq(Ids)
      /\ ToSet(Tail(queue[c])) \subseteq ToSet(queue[c])
      /\ IsInjective(Tail(queue[c])) /\ f \notin ToSet(Tail(queue[c]))
  BY <1>1, TailFacts
<1>3. f \notin ToSet(uplink) /\ uplink \in Seq(Ids) /\ IsInjective(uplink)
  BY <1>2 DEF OnePlace, InOrder, TypeOK
<1>4. /\ Append(uplink, f) \in Seq(Ids)
      /\ ToSet(Append(uplink, f)) = ToSet(uplink) \cup {f}
      /\ IsInjective(Append(uplink, f))
  BY <1>2, <1>3, AppendFacts
<1>5. /\ queue' = [queue EXCEPT ![c] = Tail(queue[c])]
      /\ uplink' \in {uplink, Append(uplink, f)}
      /\ UNCHANGED <<nextId, callerVars, serverVars, downlink, items, restarts>>
  BY DEF Send, SendFails
<1> HIDE DEF f
<1>6. TypeOK' /\ CallShape'
  BY <1>2, <1>3, <1>4, <1>5 DEF TypeOK, CallShape
<1>7. InOrder'
  BY <1>2, <1>3, <1>4, <1>5 DEF InOrder, TypeOK
<1>8. ToSet(uplink') \subseteq ToSet(uplink) \cup {f}
  BY <1>4, <1>5
<1>9. /\ \A d \in Callers : ToSet(queue'[d]) \subseteq ToSet(queue[d])
      /\ \A d \in Callers : f \notin ToSet(queue'[d])
  BY <1>2, <1>5 DEF TypeOK, OnePlace
<1>10. OnePlace'
  <2>1. /\ \A d \in Callers : ToSet(queue'[d]) \cap (ToSet(uplink) \cup {f}) = {}
        /\ f \notin ToSet(requests) /\ f \notin taken
    BY <1>2, <1>9 DEF OnePlace
  <2>2. requests' = requests /\ taken' = taken
    BY <1>5
  <2>3. \A d, e \in Callers : d # e => ToSet(queue'[d]) \cap ToSet(queue'[e]) = {}
    BY <1>9 DEF OnePlace
  <2>4. \A d \in Callers :
           ToSet(queue'[d]) \cap (ToSet(uplink') \cup ToSet(requests) \cup taken) = {}
    BY <1>8, <1>9, <2>1 DEF OnePlace
  <2>5. ToSet(uplink') \cap (ToSet(requests) \cup taken) = {}
    BY <1>8, <2>1 DEF OnePlace
  <2>6. QED
    BY <2>2, <2>3, <2>4, <2>5 DEF OnePlace
<1>11. \A i \in Ids : Underway(i)' => Underway(i)
  BY <1>2, <1>5, <1>8, <1>9 DEF Underway
<1>12. UnderwayUnexecuted'
  BY <1>5, <1>11 DEF UnderwayUnexecuted
<1>13. RepliesExecuted' /\ UnissuedUnexecuted'
  BY <1>5 DEF RepliesExecuted, UnissuedUnexecuted
<1>14. AtMostOnce' /\ AnsweredWasExecuted' /\ CancelledNeverRuns'
  BY <1>5 DEF AtMostOnce, AnsweredWasExecuted, CancelledNeverRuns
<1>15. QED
  BY <1>6, <1>7, <1>10, <1>12, <1>13, <1>14

(* A frame moves from the socket to the queue of the server. *)
LEMMA ReceiveInv == ASSUME IInv, Receive PROVE IInv'
<1> USE DEF IInv, callerVars, Receive
<1> DEFINE f == Head(uplink)
<1>1. /\ f \in Ids /\ f \in ToSet(uplink)
      /\ Tail(uplink) \in Seq(Ids)
      /\ ToSet(Tail(uplink)) \subseteq ToSet(uplink)
      /\ IsInjective(Tail(uplink)) /\ f \notin ToSet(Tail(uplink))
  BY TailFacts DEF TypeOK, InOrder
<1>2. f \notin ToSet(requests) /\ requests \in Seq(Ids) /\ IsInjective(requests)
  BY <1>1 DEF OnePlace, InOrder, TypeOK
<1>3. /\ Append(requests, f) \in Seq(Ids)
      /\ ToSet(Append(requests, f)) = ToSet(requests) \cup {f}
      /\ IsInjective(Append(requests, f))
  BY <1>1, <1>2, AppendFacts
<1>4. TypeOK' /\ CallShape' /\ InOrder'
  BY <1>1, <1>3 DEF TypeOK, CallShape, InOrder
<1>5. OnePlace'
  <2> DEFINE up == ToSet(uplink)
             rq == ToSet(requests)
  <2>1. /\ up' \subseteq up /\ f \in up /\ f \notin up' /\ rq' = rq \cup {f}
        /\ UNCHANGED <<queue, taken>>
    BY <1>1, <1>3
  <2>2. up \cap (rq \cup taken) = {} /\ rq \cap taken = {}
    BY DEF OnePlace
  <2>3. up' \cap (rq' \cup taken') = {} /\ rq' \cap taken' = {}
    <3> HIDE DEF f, up, rq, IInv, Receive
    <3>1. QED
      BY <2>1, <2>2
  <2>4. ASSUME NEW c \in Callers PROVE ToSet(queue'[c]) \cap (up' \cup rq' \cup taken') = {}
    <3>1. ToSet(queue[c]) \cap (up \cup rq \cup taken) = {}
      BY DEF OnePlace
    <3> HIDE DEF f, up, rq, IInv, Receive
    <3>2. QED
      BY <2>1, <3>1
  <2>5. \A c, d \in Callers : c # d => ToSet(queue'[c]) \cap ToSet(queue'[d]) = {}
    BY <2>1 DEF OnePlace
  <2>6. QED
    BY <2>3, <2>4, <2>5 DEF OnePlace
<1>6. UnderwayUnexecuted'
  BY <1>1, <1>3 DEF UnderwayUnexecuted, Underway
<1>7. RepliesExecuted' /\ UnissuedUnexecuted'
  BY DEF RepliesExecuted, UnissuedUnexecuted
<1>8. AtMostOnce' /\ AnsweredWasExecuted' /\ CancelledNeverRuns'
  BY DEF AtMostOnce, AnsweredWasExecuted, CancelledNeverRuns
<1>9. QED
  BY <1>4, <1>5, <1>6, <1>7, <1>8

(* A worker thread takes a frame from the queue. *)
LEMMA DispatchInv == ASSUME IInv, Dispatch PROVE IInv'
<1> USE DEF IInv, callerVars, Dispatch
<1> DEFINE f == Head(requests)
<1>1. /\ f \in Ids /\ f \in ToSet(requests)
      /\ Tail(requests) \in Seq(Ids)
      /\ ToSet(Tail(requests)) \subseteq ToSet(requests)
      /\ IsInjective(Tail(requests)) /\ f \notin ToSet(Tail(requests))
  BY TailFacts DEF TypeOK, InOrder
<1>2. TypeOK' /\ CallShape' /\ InOrder'
  BY <1>1 DEF TypeOK, CallShape, InOrder
<1>3. OnePlace'
  <2> DEFINE up == ToSet(uplink)
             rq == ToSet(requests)
  <2>1. /\ rq' \subseteq rq /\ f \in rq /\ f \notin rq' /\ taken' = taken \cup {f}
        /\ UNCHANGED <<queue, uplink>>
    BY <1>1
  <2>2. up \cap (rq \cup taken) = {} /\ rq \cap taken = {}
    BY DEF OnePlace
  <2>3. up' \cap (rq' \cup taken') = {} /\ rq' \cap taken' = {}
    <3>1. up' = up
      BY <2>1
    <3> HIDE DEF f, up, rq, IInv, Dispatch
    <3>2. QED
      BY <2>1, <2>2, <3>1
  <2>4. ASSUME NEW c \in Callers PROVE ToSet(queue'[c]) \cap (up' \cup rq' \cup taken') = {}
    <3>1. ToSet(queue[c]) \cap (up \cup rq \cup taken) = {} /\ up' = up
      BY <2>1 DEF OnePlace
    <3> HIDE DEF f, up, rq, IInv, Dispatch
    <3>2. QED
      BY <2>1, <3>1
  <2>5. \A c, d \in Callers : c # d => ToSet(queue'[c]) \cap ToSet(queue'[d]) = {}
    BY <2>1 DEF OnePlace
  <2>6. QED
    BY <2>3, <2>4, <2>5 DEF OnePlace
<1>4. UnderwayUnexecuted'
  BY <1>1 DEF UnderwayUnexecuted, Underway
<1>5. RepliesExecuted' /\ UnissuedUnexecuted'
  BY DEF RepliesExecuted, UnissuedUnexecuted
<1>6. AtMostOnce' /\ AnsweredWasExecuted' /\ CancelledNeverRuns'
  BY DEF AtMostOnce, AnsweredWasExecuted, CancelledNeverRuns
<1>7. QED
  BY <1>2, <1>3, <1>4, <1>5, <1>6

(* The worker executes a command that did not run before. *)
LEMMA ExecuteInv == ASSUME IInv, NEW i \in Ids, Execute(i) PROVE IInv'
<1> USE DEF IInv, callerVars, Execute
<1>1. Underway(i) /\ runs[i] = 0 /\ i < nextId /\ outcome[i] # "cancelled"
  BY DEF Underway, UnderwayUnexecuted
<1>2. runs'[i] = 1 /\ \A j \in Ids \ {i} : runs'[j] = runs[j]
  BY <1>1 DEF TypeOK
<1>3. TypeOK' /\ CallShape'
  BY DEF TypeOK, CallShape
<1>4. InOrder' /\ OnePlace'
  BY DEF InOrder, OnePlace
<1>5. ~Underway(i)'
  BY DEF Underway, OnePlace
<1>6. \A j \in Ids : Underway(j)' => Underway(j)
  BY DEF Underway
<1>7. UnderwayUnexecuted'
  BY <1>2, <1>5, <1>6 DEF UnderwayUnexecuted
<1>8. RepliesExecuted' /\ UnissuedUnexecuted'
  BY <1>1, <1>2 DEF RepliesExecuted, UnissuedUnexecuted, Ids, TypeOK
<1>9. AtMostOnce' /\ AnsweredWasExecuted' /\ CancelledNeverRuns'
  BY <1>1, <1>2 DEF AtMostOnce, AnsweredWasExecuted, CancelledNeverRuns
<1>10. QED
  BY <1>3, <1>4, <1>7, <1>8, <1>9

(* The steps that move replies: what arrives was executed. *)
LEMMA DownlinkInv ==
    ASSUME IInv,
           \/ Arrive \/ Notify
           \/ \E i \in Ids : Reply(i) \/ ReplyFails(i)
           \/ \E k \in 1..Len(downlink) : LoseDown(k)
    PROVE  IInv'
<1> USE DEF IInv, callerVars, serverVars
<1> DEFINE Frames == Ids \cup {NotifyId}
<1> DEFINE OnlyReplies ==
          /\ UNCHANGED <<nextId, queue, callerVars, uplink, requests, taken, runs, restarts>>
          /\ downlink' \in Seq(Frames)
          /\ answering' \in SUBSET Ids /\ items' \in SUBSET Frames
          /\ \A i \in Ids : i \in answering' \cup ToSet(downlink') \cup items'
                                => i \in answering \cup ToSet(downlink) \cup items
<1>1. OnlyReplies
  <2>0. downlink \in Seq(Frames) /\ NotifyId \in Frames
    BY DEF TypeOK
  <2>1. CASE Arrive
    <3>1. /\ Head(downlink) \in Frames /\ Head(downlink) \in ToSet(downlink)
          /\ Tail(downlink) \in Seq(Frames)
          /\ ToSet(Tail(downlink)) \subseteq ToSet(downlink)
      BY <2>0, <2>1, TailFacts DEF Arrive
    <3>2. QED
      BY <2>1, <3>1 DEF Arrive, TypeOK
  <2>2. CASE Notify
    <3>1. /\ Append(downlink, NotifyId) \in Seq(Frames)
          /\ ToSet(Append(downlink, NotifyId)) = ToSet(downlink) \cup {NotifyId}
      BY <2>0, AppendFacts
    <3>2. NotifyId \notin Ids
      BY ConstantsAssumption DEF NotifyId, Ids
    <3>3. QED
      BY <2>2, <3>1, <3>2 DEF Notify, TypeOK
  <2>3. ASSUME NEW i \in Ids, Reply(i) \/ ReplyFails(i) PROVE OnlyReplies
    <3>1. /\ Append(downlink, i) \in Seq(Frames)
          /\ ToSet(Append(downlink, i)) = ToSet(downlink) \cup {i}
      BY <2>0, AppendFacts
    <3>2. CASE Reply(i)
      <4>1. /\ downlink' = Append(downlink, i)
            /\ answering' = answering \ {i}
            /\ i \in answering
            /\ items' = items
        BY <3>2 DEF Reply
      <4>2. downlink' \in Seq(Frames)
        BY <3>1, <4>1
      <4>3. \A j \in Ids : j \in answering' \cup ToSet(downlink') \cup items'
                              => j \in answering \cup ToSet(downlink) \cup items
        BY <3>1, <4>1
      <4>4. QED
        BY <3>2, <4>1, <4>2, <4>3 DEF Reply, TypeOK
    <3>3. CASE ReplyFails(i)
      BY <2>0, <3>3 DEF ReplyFails, TypeOK
    <3>4. QED
      BY <2>3, <3>2, <3>3
  <2>4. ASSUME NEW k \in 1..Len(downlink), LoseDown(k) PROVE OnlyReplies
    <3>1. /\ RemoveAt(downlink, k) \in Seq(Frames)
          /\ ToSet(RemoveAt(downlink, k)) \subseteq ToSet(downlink)
      BY <2>0, RemoveAtFacts
    <3>2. QED
      BY <2>4, <3>1 DEF LoseDown, TypeOK
  <2>5. QED
    BY <2>1, <2>2, <2>3, <2>4
<1>2. TypeOK' /\ CallShape' /\ InOrder' /\ OnePlace'
  BY <1>1 DEF TypeOK, CallShape, InOrder, OnePlace
<1>3. UnderwayUnexecuted' /\ UnissuedUnexecuted'
  BY <1>1 DEF UnderwayUnexecuted, Underway, UnissuedUnexecuted
<1>4. RepliesExecuted'
  BY <1>1 DEF RepliesExecuted
<1>5. AtMostOnce' /\ AnsweredWasExecuted' /\ CancelledNeverRuns'
  BY <1>1 DEF AtMostOnce, AnsweredWasExecuted, CancelledNeverRuns
<1>6. QED
  BY <1>2, <1>3, <1>4, <1>5

(* The socket loses a frame on its way to the server. *)
LEMMA LoseUpInv ==
    ASSUME IInv, NEW k \in 1..Len(uplink), LoseUp(k) PROVE IInv'
<1> USE DEF IInv, callerVars, serverVars, LoseUp
<1>1. /\ RemoveAt(uplink, k) \in Seq(Ids)
      /\ ToSet(RemoveAt(uplink, k)) \subseteq ToSet(uplink)
      /\ IsInjective(RemoveAt(uplink, k))
  BY RemoveAtFacts DEF TypeOK, InOrder
<1>2. TypeOK' /\ CallShape' /\ InOrder' /\ OnePlace'
  BY <1>1 DEF TypeOK, CallShape, InOrder, OnePlace
<1>3. UnderwayUnexecuted' /\ UnissuedUnexecuted' /\ RepliesExecuted'
  BY <1>1 DEF UnderwayUnexecuted, Underway, UnissuedUnexecuted, RepliesExecuted
<1>4. AtMostOnce' /\ AnsweredWasExecuted' /\ CancelledNeverRuns'
  BY DEF AtMostOnce, AnsweredWasExecuted, CancelledNeverRuns
<1>5. QED
  BY <1>2, <1>3, <1>4

(* The server is restarted: its frames are gone. *)
LEMMA RestartInv == ASSUME IInv, Restart PROVE IInv'
<1> USE DEF IInv, callerVars, Restart
<1>1. ToSet(<<>>) = {} /\ IsInjective(<<>>) /\ <<>> \in Seq(Ids)
  BY DEF ToSet, IsInjective
<1>2. TypeOK' /\ CallShape' /\ InOrder' /\ OnePlace'
  BY <1>1, ConstantsAssumption DEF TypeOK, CallShape, InOrder, OnePlace
<1>3. UnderwayUnexecuted' /\ UnissuedUnexecuted' /\ RepliesExecuted'
  BY <1>1 DEF UnderwayUnexecuted, Underway, UnissuedUnexecuted, RepliesExecuted
<1>4. AtMostOnce' /\ AnsweredWasExecuted' /\ CancelledNeverRuns'
  BY DEF AtMostOnce, AnsweredWasExecuted, CancelledNeverRuns
<1>5. QED
  BY <1>2, <1>3, <1>4

(* Nothing happens. *)
LEMMA StutterInv == ASSUME IInv, UNCHANGED vars PROVE IInv'
<1> USE DEF IInv, vars
<1>1. TypeOK' /\ CallShape' /\ InOrder' /\ OnePlace'
  BY DEF TypeOK, CallShape, InOrder, OnePlace
<1>2. UnderwayUnexecuted' /\ UnissuedUnexecuted' /\ RepliesExecuted'
  BY DEF UnderwayUnexecuted, Underway, UnissuedUnexecuted, RepliesExecuted
<1>3. AtMostOnce' /\ AnsweredWasExecuted' /\ CancelledNeverRuns'
  BY DEF AtMostOnce, AnsweredWasExecuted, CancelledNeverRuns
<1>4. QED
  BY <1>1, <1>2, <1>3

(* Every step keeps the invariant. *)
LEMMA StepInv == IInv /\ [Next]_vars => IInv'
<1> SUFFICES ASSUME IInv, [Next]_vars PROVE IInv'
  OBVIOUS
<1>1. ASSUME NEW c \in Callers, Calls(c) PROVE IInv'
  BY <1>1, AddCommandInv, AwaitRepliesInv, TakeReplyInv, TakeErrorInv,
     TimedOutInv, SendInv DEF Calls
<1>2. CASE Receive
  BY <1>2, ReceiveInv
<1>3. CASE Dispatch
  BY <1>3, DispatchInv
<1>4. ASSUME NEW i \in Ids, Execute(i) PROVE IInv'
  BY <1>4, ExecuteInv
<1>5. CASE \/ Arrive \/ Notify
           \/ \E i \in Ids : Reply(i) \/ ReplyFails(i)
           \/ \E k \in 1..Len(downlink) : LoseDown(k)
  BY <1>5, DownlinkInv
<1>6. ASSUME NEW k \in 1..Len(uplink), LoseUp(k) PROVE IInv'
  BY <1>6, LoseUpInv
<1>7. CASE Restart
  BY <1>7, RestartInv
<1>8. CASE Done \/ UNCHANGED vars
  BY <1>8, StutterInv DEF Done
<1>9. QED
  BY <1>1, <1>2, <1>3, <1>4, <1>5, <1>6, <1>7, <1>8 DEF Next

-----------------------------------------------------------------------------
(* The theorems.                                                           *)

(* The inductive invariant holds in every reachable state: every frame is in
   one place on its way to the server and has not been executed there. *)
THEOREM Invariance == Spec => []IInv
<1>1. Init => IInv
  BY InitInv
<1>2. QED
  BY <1>1, StepInv, PTL DEF Spec

(* The state of the messaging layer keeps its type. *)
THEOREM TypeCorrect == Spec => []TypeOK
<1>1. IInv => TypeOK
  BY DEF IInv
<1>2. QED
  BY <1>1, Invariance, PTL

(* No command is executed twice, whatever is lost, late or given up. *)
THEOREM NeverTwice == Spec => []AtMostOnce
<1>1. IInv => AtMostOnce
  BY DEF IInv
<1>2. QED
  BY <1>1, Invariance, PTL

(* A reply that reaches a caller is the reply to a command that was executed:
   late replies to other calls are never taken for it. *)
THEOREM RepliesAreTrue == Spec => []AnsweredWasExecuted
<1>1. IInv => AnsweredWasExecuted
  BY DEF IInv
<1>2. QED
  BY <1>1, Invariance, PTL

(* A frame dropped with its queue is never executed, although the writer
   thread pops from the queues concurrently. *)
THEOREM DroppedStaysDropped == Spec => []CancelledNeverRuns
<1>1. IInv => CancelledNeverRuns
  BY DEF IInv
<1>2. QED
  BY <1>1, Invariance, PTL

-----------------------------------------------------------------------------
(* The inductive invariant of the calls, besides that of the frames.       *)

\* A command is waited for by one call, once.
OneCall ==
    /\ \A c \in Callers : IsInjective(mids[c])
    /\ \A c, d \in Callers : c # d => ToSet(mids[c]) \cap ToSet(mids[d]) = {}

\* A call waits for what is pending...
CallsPending == \A c \in Callers : \A i \in ToSet(mids[c]) : outcome[i] = "pending"

\* ...and all of it is waited for.
PendingHeld ==
    \A i \in Ids : outcome[i] = "pending" => \E c \in Callers : i \in ToSet(mids[c])

\* The queue of a call that drops it has commands of that call only.
OwnFrames == \A c \in Callers \ Resident : ToSet(queue[c]) \subseteq ToSet(mids[c])

NewIffUnissued == \A i \in Ids : outcome[i] = "new" <=> i >= nextId

\* A reply is in one place on its way to the caller...
OneReply ==
    /\ IsInjective(downlink)
    /\ answering \cap ToSet(downlink) = {}
    /\ \A i \in Ids \cap items : i \notin answering \cup ToSet(downlink)

\* ...and nowhere once the caller has it.
AnsweredGone ==
    \A i \in Ids : outcome[i] = "answered" => i \notin answering \cup ToSet(downlink) \cup items

CallInv ==
    /\ OneCall /\ CallsPending /\ PendingHeld /\ OwnFrames
    /\ NewIffUnissued /\ OneReply /\ AnsweredGone

-----------------------------------------------------------------------------
(* Every step preserves it, and is a step of AtMostOnceCall or a stutter.  *)

AbstractStep == [Abstract!Next]_(Abstract!vars)

(* No call is under way at first, and none is in the abstract specification. *)
LEMMA InitCallInv == ASSUME Init PROVE CallInv /\ Abstract!Init
<1>1. \A s : s = <<>> => ToSet(s) = {} /\ IsInjective(s)
  BY DEF ToSet, IsInjective
<1>2. OneCall /\ CallsPending /\ OwnFrames
  BY <1>1 DEF Init, OneCall, CallsPending, OwnFrames
<1>3. PendingHeld /\ NewIffUnissued /\ AnsweredGone
  BY DEF Init, PendingHeld, NewIffUnissued, AnsweredGone, Ids
<1>4. OneReply
  BY <1>1 DEF Init, OneReply
<1>5. Abstract!Init
  BY DEF Init, Abstract!Init
<1>6. QED
  BY <1>2, <1>3, <1>4, <1>5 DEF CallInv

(* A step that changes nothing a caller knows, and executes nothing. *)
LEMMA SilentStep == ASSUME UNCHANGED <<outcome, runs>> PROVE AbstractStep
  BY DEF AbstractStep, Abstract!vars

(* A call gets an identifier nobody has: it is pending there. *)
LEMMA AddCommandCall ==
    ASSUME IInv, CallInv, NEW c \in Callers, AddCommand(c) PROVE CallInv' /\ AbstractStep
<1> USE DEF AddCommand, serverVars
<1>1. /\ nextId \in Ids /\ nextId \in Nat
      /\ queue[c] \in Seq(Ids) /\ mids[c] \in Seq(Ids)
      /\ outcome[nextId] = "new"
  BY DEF IInv, TypeOK, Ids, CallInv, NewIffUnissued
<1>2. \A d \in Callers : nextId \notin ToSet(mids[d])
  BY <1>1 DEF CallInv, CallsPending
<1>3. /\ ToSet(Append(queue[c], nextId)) = ToSet(queue[c]) \cup {nextId}
      /\ ToSet(Append(mids[c], nextId)) = ToSet(mids[c]) \cup {nextId}
      /\ IsInjective(Append(mids[c], nextId))
  BY <1>1, <1>2, AppendFacts DEF CallInv, OneCall
<1>4. /\ mids'[c] = Append(mids[c], nextId) /\ queue'[c] = Append(queue[c], nextId)
      /\ \A d \in Callers \ {c} : mids'[d] = mids[d] /\ queue'[d] = queue[d]
      /\ outcome'[nextId] = "pending" /\ \A i \in Ids \ {nextId} : outcome'[i] = outcome[i]
  BY <1>1 DEF IInv, TypeOK
<1>5. \A d \in Callers : ToSet(mids[d]) \subseteq Ids
  BY DEF IInv, TypeOK, ToSet
<1>6. OneCall'
  <2>1. \A d \in Callers : IsInjective(mids'[d])
    BY <1>3, <1>4 DEF CallInv, OneCall
  <2>2. ToSet(mids'[c]) = ToSet(mids[c]) \cup {nextId}
    BY <1>3, <1>4
  <2>3. ASSUME NEW d \in Callers, NEW e \in Callers, d # e
        PROVE  ToSet(mids'[d]) \cap ToSet(mids'[e]) = {}
    <3>1. ToSet(mids[d]) \cap ToSet(mids[e]) = {}
      BY <2>3 DEF CallInv, OneCall
    <3>2. /\ d # c => ToSet(mids'[d]) = ToSet(mids[d])
          /\ e # c => ToSet(mids'[e]) = ToSet(mids[e])
      BY <1>4
    <3>3. QED
      BY <1>2, <2>2, <2>3, <3>1, <3>2
  <2>4. QED
    BY <2>1, <2>3 DEF OneCall
<1>7. CallsPending'
  <2>1. \A i \in ToSet(mids'[c]) : outcome'[i] = "pending"
    <3>1. ToSet(mids'[c]) = ToSet(mids[c]) \cup {nextId}
      BY <1>3, <1>4
    <3>2. QED
      BY <1>4, <1>5, <3>1 DEF CallInv, CallsPending
  <2>2. ASSUME NEW d \in Callers \ {c}, NEW i \in ToSet(mids'[d]) PROVE outcome'[i] = "pending"
    <3>1. i \in ToSet(mids[d]) /\ i \in Ids /\ i # nextId
      BY <1>2, <1>4, <1>5
    <3>2. QED
      BY <1>4, <3>1 DEF CallInv, CallsPending
  <2>3. QED
    BY <2>1, <2>2 DEF CallsPending
<1>8. PendingHeld' /\ OwnFrames'
  <2>1. \A d \in Callers : ToSet(mids[d]) \subseteq ToSet(mids'[d])
    BY <1>3, <1>4
  <2>2. nextId \in ToSet(mids'[c])
    BY <1>3, <1>4
  <2>3. PendingHeld'
    BY <1>4, <2>1, <2>2 DEF CallInv, PendingHeld
  <2>4. OwnFrames'
    BY <1>3, <1>4 DEF CallInv, OwnFrames
  <2>5. QED
    BY <2>3, <2>4
<1>9. NewIffUnissued'
  BY <1>1, <1>4 DEF CallInv, NewIffUnissued, Ids
<1>10. OneReply' /\ AnsweredGone'
  BY <1>4 DEF CallInv, OneReply, AnsweredGone
<1>11. Abstract!Issue(nextId)
  BY <1>1 DEF Abstract!Issue
<1>12. AbstractStep
  BY <1>1, <1>11 DEF AbstractStep, Abstract!Next
<1>13. QED
  BY <1>6, <1>7, <1>8, <1>9, <1>10, <1>12 DEF CallInv

(* A call that has sent all it has to waits, and nobody can tell. *)
LEMMA AwaitRepliesCall ==
    ASSUME IInv, CallInv, NEW c \in Callers, AwaitReplies(c) PROVE CallInv' /\ AbstractStep
<1> USE DEF AwaitReplies, serverVars
<1>1. CallInv'
  BY DEF CallInv, OneCall, CallsPending, PendingHeld, OwnFrames, NewIffUnissued, OneReply,
         AnsweredGone
<1>2. QED
  BY <1>1, SilentStep

(* What a caller takes from the items is nowhere else. *)
LEMMA TakeReplyCall ==
    ASSUME IInv, CallInv, NEW c \in Callers, TakeReply(c) PROVE CallInv' /\ AbstractStep
<1> USE DEF TakeReply, serverVars
<1> DEFINE i == Head(mids[c])
<1>1. mids[c] \in Seq(Ids) /\ mids[c] # <<>> /\ IsInjective(mids[c])
  BY DEF IInv, TypeOK, CallShape, CallInv, OneCall
<1>2. /\ i \in Ids /\ i \in ToSet(mids[c])
      /\ ToSet(Tail(mids[c])) \subseteq ToSet(mids[c])
      /\ IsInjective(Tail(mids[c])) /\ i \notin ToSet(Tail(mids[c]))
  BY <1>1, TailFacts
<1>3. \A j \in ToSet(mids[c]) : j = i \/ j \in ToSet(Tail(mids[c]))
  BY <1>1, HeadOrTail
<1>4. /\ i \in items /\ items' = items \ {i}
      /\ outcome' = [outcome EXCEPT ![i] = "answered"]
      /\ mids' = [mids EXCEPT ![c] = Tail(mids[c])]
      /\ UNCHANGED <<nextId, queue, answering, downlink, runs>>
  OBVIOUS
<1> HIDE DEF i, TakeReply
<1>5. runs[i] = 1 /\ outcome[i] = "pending"
  BY <1>2, <1>4 DEF IInv, RepliesExecuted, CallInv, CallsPending
<1>6. /\ mids'[c] = Tail(mids[c]) /\ \A d \in Callers \ {c} : mids'[d] = mids[d]
      /\ outcome'[i] = "answered" /\ \A j \in Ids \ {i} : outcome'[j] = outcome[j]
  BY <1>2, <1>4 DEF IInv, TypeOK
<1>7. \A d \in Callers : ToSet(mids'[d]) \subseteq ToSet(mids[d]) \ {i}
  BY <1>2, <1>6 DEF CallInv, OneCall
<1>8. \A d \in Callers : ToSet(mids[d]) \subseteq Ids
  BY DEF IInv, TypeOK, ToSet
<1>9. OneCall'
  BY <1>2, <1>6, <1>7 DEF CallInv, OneCall
<1>10. CallsPending'
  BY <1>6, <1>7, <1>8 DEF CallInv, CallsPending
<1>11. PendingHeld'
  BY <1>3, <1>6 DEF CallInv, PendingHeld
<1>12. OwnFrames'
  <2>1. \A d \in Callers : i \notin ToSet(queue[d])
    BY <1>2, <1>5 DEF IInv, UnderwayUnexecuted, Underway
  <2>2. QED
    BY <2>1, <1>3, <1>4, <1>6 DEF CallInv, OwnFrames
<1>13. NewIffUnissued'
  BY <1>2, <1>4, <1>5, <1>6 DEF CallInv, NewIffUnissued
<1>14. OneReply' /\ AnsweredGone'
  BY <1>2, <1>4, <1>6 DEF CallInv, OneReply, AnsweredGone
<1>15. Abstract!Finish({i}, {}, {})
  BY <1>2, <1>4, <1>5, <1>6 DEF Abstract!Finish, IInv, TypeOK
<1>16. AbstractStep
  BY <1>2, <1>15 DEF AbstractStep, Abstract!Next
<1>17. QED
  BY <1>9, <1>10, <1>11, <1>12, <1>13, <1>14, <1>16 DEF CallInv

(* A call that ends early gives up what it waits for; what it takes out of its
   queue was not executed. *)
LEMMA GiveUpCall ==
    ASSUME IInv, CallInv, NEW c \in Callers,
           NEW answered \in SUBSET ToSet(mids[c]), NEW left \in SUBSET ToSet(mids[c]),
           answered \cup left = ToSet(mids[c]),
           answered \cap left = {},
           answered \subseteq items, items' = items \ answered,
           GiveUp(c, answered, left),
           UNCHANGED <<nextId, uplink, serverVars, downlink, restarts>>
    PROVE  CallInv' /\ AbstractStep
<1> DEFINE dropped == IF c \in Resident THEN {} ELSE ToSet(queue[c])
<1>1. /\ queue' = IF c \in Resident THEN queue ELSE [queue EXCEPT ![c] = <<>>]
      /\ outcome' = [i \in Ids |-> IF i \in answered THEN "answered"
                                   ELSE IF i \in dropped THEN "cancelled"
                                   ELSE IF i \in left THEN "abandoned" ELSE outcome[i]]
      /\ mids' = [mids EXCEPT ![c] = <<>>]
      /\ UNCHANGED <<nextId, answering, downlink, runs>>
  BY DEF GiveUp, serverVars
<1>2. ToSet(<<>>) = {} /\ IsInjective(<<>>)
  BY DEF ToSet, IsInjective
<1>3. /\ \A d \in Callers : ToSet(mids[d]) \subseteq Ids
      /\ \A d \in Callers : ToSet(queue[d]) \subseteq Ids
  BY DEF IInv, TypeOK, ToSet
<1>4. /\ dropped \subseteq ToSet(mids[c])
      /\ \A i \in dropped : runs[i] = 0
  BY <1>3 DEF CallInv, OwnFrames, IInv, UnderwayUnexecuted, Underway
<1>5. \A i \in answered : runs[i] = 1
  BY <1>3 DEF IInv, RepliesExecuted
<1>6. \A i \in ToSet(mids[c]) : outcome[i] = "pending"
  BY DEF CallInv, CallsPending
<1>7. /\ mids'[c] = <<>> /\ \A d \in Callers \ {c} : mids'[d] = mids[d]
      /\ \A d \in Callers : ToSet(queue'[d]) \subseteq ToSet(queue[d])
      /\ \A d \in Callers \ {c} : queue'[d] = queue[d]
      /\ c \notin Resident => queue'[c] = <<>>
  BY <1>1, <1>2 DEF IInv, TypeOK
<1>8. Abstract!Finish(answered, left, dropped)
  BY <1>1, <1>4, <1>5, <1>6 DEF Abstract!Finish
<1> HIDE DEF dropped
<1>9. /\ \A i \in ToSet(mids[c]) : outcome'[i] \in {"answered", "cancelled", "abandoned"}
      /\ \A i \in Ids \ ToSet(mids[c]) : outcome'[i] = outcome[i]
      /\ \A i \in Ids : outcome'[i] = "answered" => i \in answered \/ outcome[i] = "answered"
  BY <1>1, <1>3, <1>4
<1>10. OneCall'
  BY <1>2, <1>7 DEF CallInv, OneCall
<1>11. CallsPending'
  <2> SUFFICES ASSUME NEW d \in Callers, NEW i \in ToSet(mids'[d])
               PROVE  outcome'[i] = "pending"
    BY DEF CallsPending
  <2>1. d # c /\ i \in ToSet(mids[d])
    BY <1>2, <1>7
  <2>2. i \notin ToSet(mids[c]) /\ i \in Ids
    BY <2>1, <1>3 DEF CallInv, OneCall
  <2>3. QED
    BY <2>1, <2>2, <1>9 DEF CallInv, CallsPending
<1>12. PendingHeld'
  BY <1>3, <1>7, <1>9 DEF CallInv, PendingHeld
<1>13. OwnFrames'
  BY <1>2, <1>7 DEF CallInv, OwnFrames
<1>14. NewIffUnissued'
  BY <1>1, <1>6, <1>9 DEF CallInv, NewIffUnissued
<1>15. OneReply'
  BY <1>1 DEF CallInv, OneReply
<1>16. AnsweredGone'
  BY <1>1, <1>3, <1>9 DEF CallInv, AnsweredGone, OneReply
<1>17. AbstractStep
  <2>1. answered \in SUBSET Ids /\ left \in SUBSET Ids /\ dropped \in SUBSET Ids
    BY <1>3, <1>4
  <2>2. QED
    BY <2>1, <1>8 DEF AbstractStep, Abstract!Next
<1>18. QED
  BY <1>10, <1>11, <1>12, <1>13, <1>14, <1>15, <1>16, <1>17 DEF CallInv

(* An error reply answers the command, and the rest is given up. *)
LEMMA TakeErrorCall ==
    ASSUME IInv, CallInv, NEW c \in Callers, TakeError(c) PROVE CallInv' /\ AbstractStep
<1>1. mids[c] \in Seq(Ids) /\ mids[c] # <<>> /\ IsInjective(mids[c])
  BY DEF TakeError, IInv, TypeOK, CallShape, CallInv, OneCall
<1>2. /\ ToSet(mids[c]) = {Head(mids[c])} \cup ToSet(Tail(mids[c]))
      /\ Head(mids[c]) \notin ToSet(Tail(mids[c]))
  BY <1>1, HeadOrTail, TailFacts
<1>3. /\ {Head(mids[c])} \subseteq items /\ items' = items \ {Head(mids[c])}
      /\ GiveUp(c, {Head(mids[c])}, ToSet(Tail(mids[c])))
      /\ UNCHANGED <<nextId, uplink, serverVars, downlink, restarts>>
  BY DEF TakeError
<1>4. /\ {Head(mids[c])} \in SUBSET ToSet(mids[c])
      /\ ToSet(Tail(mids[c])) \in SUBSET ToSet(mids[c])
      /\ {Head(mids[c])} \cap ToSet(Tail(mids[c])) = {}
  BY <1>2
<1>5. QED
  BY <1>2, <1>3, <1>4, GiveUpCall

(* All the call waits for is given up, executed or not. *)
LEMMA TimedOutCall ==
    ASSUME IInv, CallInv, NEW c \in Callers, TimedOut(c) PROVE CallInv' /\ AbstractStep
<1>1. /\ {} \subseteq items /\ items' = items \ {}
      /\ GiveUp(c, {}, ToSet(mids[c]))
      /\ UNCHANGED <<nextId, uplink, serverVars, downlink, restarts>>
      /\ {} \in SUBSET ToSet(mids[c])
      /\ {} \cup ToSet(mids[c]) = ToSet(mids[c])
      /\ {} \cap ToSet(mids[c]) = {}
  BY DEF TimedOut
<1>2. QED
  BY <1>1, GiveUpCall

(* The steps of the writer thread, which no caller sees. *)
LEMMA SendCall ==
    ASSUME IInv, CallInv, NEW c \in Callers, Send(c) \/ SendFails(c)
    PROVE  CallInv' /\ AbstractStep
<1>1. queue[c] \in Seq(Ids) /\ queue[c] # <<>>
  BY DEF Send, SendFails, Consumable, IInv, TypeOK
<1>2. ToSet(Tail(queue[c])) \subseteq ToSet(queue[c])
  BY <1>1, TailFacts
<1>3. /\ queue' = [queue EXCEPT ![c] = Tail(queue[c])]
      /\ UNCHANGED <<nextId, mids, outcome, answering, runs, downlink, items>>
  BY DEF Send, SendFails, callerVars, serverVars
<1>4. \A d \in Callers : ToSet(queue'[d]) \subseteq ToSet(queue[d])
  BY <1>2, <1>3 DEF IInv, TypeOK
<1>5. OwnFrames'
  BY <1>3, <1>4 DEF CallInv, OwnFrames
<1>6. OneCall' /\ CallsPending' /\ PendingHeld' /\ NewIffUnissued' /\ OneReply' /\ AnsweredGone'
  BY <1>3 DEF CallInv, OneCall, CallsPending, PendingHeld, NewIffUnissued, OneReply, AnsweredGone
<1>7. QED
  BY <1>3, <1>5, <1>6, SilentStep DEF CallInv

(* The steps that move or lose a reply. *)
LEMMA DownlinkCall ==
    ASSUME IInv, CallInv,
           \/ Arrive \/ Notify
           \/ \E i \in Ids : Reply(i) \/ ReplyFails(i)
           \/ \E k \in 1..Len(downlink) : LoseDown(k)
    PROVE  CallInv' /\ AbstractStep
<1> USE DEF callerVars, serverVars
<1> DEFINE Frames == Ids \cup {NotifyId}
           OnTheWay == answering \cup ToSet(downlink) \cup items
<1>1. UNCHANGED <<nextId, queue, mids, outcome, runs>>
  BY DEF Arrive, Notify, Reply, ReplyFails, LoseDown
<1>2. /\ downlink \in Seq(Frames) /\ IsInjective(downlink)
      /\ answering \subseteq Ids /\ NotifyId \in Frames /\ NotifyId \notin Ids
      /\ answering \cap ToSet(downlink) = {}
      /\ \A i \in Ids \cap items : i \notin answering \cup ToSet(downlink)
  BY ConstantsAssumption DEF IInv, TypeOK, CallInv, OneReply, NotifyId, Ids
<1>3. OneReply' /\ \A i \in Ids : i \in OnTheWay' => i \in OnTheWay
  <2>1. CASE Arrive
    <3>1. /\ Head(downlink) \in ToSet(downlink)
          /\ ToSet(Tail(downlink)) \subseteq ToSet(downlink)
          /\ IsInjective(Tail(downlink)) /\ Head(downlink) \notin ToSet(Tail(downlink))
      BY <1>2, <2>1, TailFacts DEF Arrive
    <3>2. QED
      BY <1>2, <2>1, <3>1 DEF Arrive, OneReply
  <2>2. CASE Notify
    <3>1. /\ ToSet(Append(downlink, NotifyId)) = ToSet(downlink) \cup {NotifyId}
          /\ IsInjective(Append(downlink, NotifyId))
      BY <1>2, <2>2, AppendFacts DEF Notify
    <3>2. QED
      BY <1>2, <2>2, <3>1 DEF Notify, OneReply
  <2>3. ASSUME NEW i \in Ids, Reply(i)
        PROVE  OneReply' /\ \A j \in Ids : j \in OnTheWay' => j \in OnTheWay
    <3>1. /\ ToSet(Append(downlink, i)) = ToSet(downlink) \cup {i}
          /\ IsInjective(Append(downlink, i))
      BY <1>2, <2>3, AppendFacts DEF Reply
    <3>2. QED
      BY <1>2, <2>3, <3>1 DEF Reply, OneReply
  <2>4. ASSUME NEW i \in Ids, ReplyFails(i)
        PROVE  OneReply' /\ \A j \in Ids : j \in OnTheWay' => j \in OnTheWay
    BY <1>2, <2>4 DEF ReplyFails, OneReply
  <2>5. ASSUME NEW k \in 1..Len(downlink), LoseDown(k)
        PROVE  OneReply' /\ \A j \in Ids : j \in OnTheWay' => j \in OnTheWay
    <3>1. /\ ToSet(RemoveAt(downlink, k)) \subseteq ToSet(downlink)
          /\ IsInjective(RemoveAt(downlink, k))
      BY <1>2, RemoveAtFacts
    <3>2. QED
      BY <1>2, <2>5, <3>1 DEF LoseDown, OneReply
  <2>6. QED
    BY <2>1, <2>2, <2>3, <2>4, <2>5
<1>4. AnsweredGone'
  BY <1>1, <1>3 DEF CallInv, AnsweredGone
<1>5. OneCall' /\ CallsPending' /\ PendingHeld' /\ OwnFrames' /\ NewIffUnissued'
  BY <1>1 DEF CallInv, OneCall, CallsPending, PendingHeld, OwnFrames, NewIffUnissued
<1>6. QED
  BY <1>1, <1>3, <1>4, <1>5, SilentStep DEF CallInv

(* The steps that move or lose a command, and the restart of the server. *)
LEMMA UplinkCall ==
    ASSUME IInv, CallInv,
           \/ Receive \/ Dispatch \/ Restart \/ Done \/ UNCHANGED vars
           \/ \E k \in 1..Len(uplink) : LoseUp(k)
    PROVE  CallInv' /\ AbstractStep
<1>1. /\ UNCHANGED <<nextId, queue, mids, outcome, runs, downlink, items>>
      /\ answering' \in {{}, answering}
  BY DEF Receive, Dispatch, Restart, Done, LoseUp, vars, callerVars, serverVars
<1>2. OneReply' /\ AnsweredGone'
  BY <1>1 DEF CallInv, OneReply, AnsweredGone
<1>3. OneCall' /\ CallsPending' /\ PendingHeld' /\ OwnFrames' /\ NewIffUnissued'
  BY <1>1 DEF CallInv, OneCall, CallsPending, PendingHeld, OwnFrames, NewIffUnissued
<1>4. QED
  BY <1>1, <1>2, <1>3, SilentStep DEF CallInv

(* What is executed is pending, or was given up after it was sent. *)
LEMMA ExecuteCall ==
    ASSUME IInv, CallInv, NEW i \in Ids, Execute(i) PROVE CallInv' /\ AbstractStep
<1>1. /\ runs' = [runs EXCEPT ![i] = runs[i] + 1]
      /\ i \in taken /\ answering' = answering \cup {i}
      /\ UNCHANGED <<nextId, queue, mids, outcome, downlink, items>>
  BY DEF Execute, callerVars
<1>2. i < nextId /\ runs[i] = 0 /\ outcome[i] # "cancelled"
  BY <1>1 DEF IInv, UnderwayUnexecuted, Underway
<1>3. outcome[i] # "new" /\ outcome[i] # "answered"
  <2>1. i \in Nat /\ nextId \in Nat
    BY ConstantsAssumption DEF IInv, TypeOK, Ids
  <2>2. QED
    BY <1>2, <2>1 DEF CallInv, NewIffUnissued, IInv, AnsweredWasExecuted
<1>4. i \notin answering \cup ToSet(downlink) \cup items
  BY <1>2 DEF IInv, RepliesExecuted
<1>5. OneReply' /\ AnsweredGone'
  BY <1>1, <1>3, <1>4 DEF CallInv, OneReply, AnsweredGone
<1>6. OneCall' /\ CallsPending' /\ PendingHeld' /\ OwnFrames' /\ NewIffUnissued'
  BY <1>1 DEF CallInv, OneCall, CallsPending, PendingHeld, OwnFrames, NewIffUnissued
<1>7. Abstract!Execute(i)
  BY <1>1, <1>2, <1>3 DEF Abstract!Execute, IInv, TypeOK
<1>8. QED
  BY <1>5, <1>6, <1>7 DEF CallInv, AbstractStep, Abstract!Next

(* Every step keeps the invariant of calls. *)
LEMMA StepCall == IInv /\ CallInv /\ [Next]_vars => CallInv' /\ AbstractStep
<1> SUFFICES ASSUME IInv, CallInv, [Next]_vars PROVE CallInv' /\ AbstractStep
  OBVIOUS
<1>1. ASSUME NEW c \in Callers, Calls(c) PROVE CallInv' /\ AbstractStep
  BY <1>1, AddCommandCall, AwaitRepliesCall, TakeReplyCall, TakeErrorCall,
     TimedOutCall, SendCall DEF Calls
<1>2. CASE \/ Arrive \/ Notify
           \/ \E i \in Ids : Reply(i) \/ ReplyFails(i)
           \/ \E k \in 1..Len(downlink) : LoseDown(k)
  BY <1>2, DownlinkCall
<1>3. CASE \/ Receive \/ Dispatch \/ Restart \/ Done \/ UNCHANGED vars
           \/ \E k \in 1..Len(uplink) : LoseUp(k)
  BY <1>3, UplinkCall
<1>4. ASSUME NEW i \in Ids, Execute(i) PROVE CallInv' /\ AbstractStep
  BY <1>4, ExecuteCall
<1>5. QED
  BY <1>1, <1>2, <1>3, <1>4 DEF Next

-----------------------------------------------------------------------------
(* The theorems.                                                           *)

(* Every reachable state satisfies the second part of the invariant, too: what
   a call waits for is pending, is its own, and its reply is in one place. *)
THEOREM CallInvariance == Spec => []CallInv
<1>1. Init => CallInv
  BY InitCallInv
<1>2. IInv /\ CallInv /\ [Next]_vars => CallInv'
  BY StepCall
<1>3. QED
  BY <1>1, <1>2, Invariance, PTL DEF Spec

(* m_items holds replies somebody waits for or gave up on, and no others:
   wait_for_result erases what it returns, and nothing arrives a second time. *)
THEOREM NoOrphans == Spec => []NoOrphanItems
<1>1. ASSUME IInv, CallInv PROVE NoOrphanItems
  <2> SUFFICES ASSUME NEW i \in items, i # NotifyId,
                      i \notin UNION {ToSet(mids[c]) : c \in Callers}
               PROVE  i \in Ids /\ outcome[i] = "abandoned"
    BY DEF NoOrphanItems
  <2>1. i \in Ids /\ runs[i] = 1
    BY <1>1 DEF IInv, TypeOK, RepliesExecuted
  <2>2. i \in Nat /\ nextId \in Nat
    BY <1>1, <2>1, ConstantsAssumption DEF Ids, IInv, TypeOK
  <2>3. outcome[i] # "new"
    BY <1>1, <2>1, <2>2 DEF IInv, UnissuedUnexecuted, CallInv, NewIffUnissued
  <2>4. outcome[i] # "cancelled"
    BY <1>1, <2>1 DEF IInv, CancelledNeverRuns
  <2>5. outcome[i] # "answered"
    BY <1>1, <2>1 DEF CallInv, AnsweredGone
  <2>6. outcome[i] # "pending"
    BY <1>1, <2>1 DEF CallInv, PendingHeld
  <2>7. QED
    BY <1>1, <2>1, <2>3, <2>4, <2>5, <2>6 DEF IInv, TypeOK
<1>2. QED
  BY <1>1, Invariance, CallInvariance, PTL

(* The queues, the sockets, the worker threads and the store of replies
   together are a set of at-most-once calls, whatever is lost or late. *)
THEOREM Refinement == Spec => ImplementsAtMostOnceCall
<1>1. Init => Abstract!Init
  BY InitCallInv
<1>2. IInv /\ CallInv /\ [Next]_vars => [Abstract!Next]_(Abstract!vars)
  BY StepCall DEF AbstractStep
<1>3. QED
  BY <1>1, <1>2, Invariance, CallInvariance, PTL
     DEF Spec, ImplementsAtMostOnceCall, Abstract!Spec
=============================================================================
