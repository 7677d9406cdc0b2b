-------------------------- MODULE TreeLoaderProofs --------------------------
(***************************************************************************)
(* What is proved of module TreeLoader for any number of changes, losses,  *)
(* restarts and writes: no change is ever forgotten, unless a load failed, *)
(* was overtaken, or a notification was lost.                              *)
(***************************************************************************)
EXTENDS TreeLoader, Naturals, SequencesExt, SequenceTheorems, TLAPS

-----------------------------------------------------------------------------
(* Sequences.                                                              *)

(* Appending adds one element. *)
LEMMA AppendFacts ==
    ASSUME NEW S, NEW s \in Seq(S), NEW e \in S
    PROVE  /\ Append(s, e) \in Seq(S)
           /\ Append(s, e) # <<>>
           /\ ToSet(Append(s, e)) = ToSet(s) \cup {e}
           /\ IsInjective(s) /\ e \notin ToSet(s) => IsInjective(Append(s, e))
<1>1. /\ Append(s, e) \in Seq(S)
      /\ Len(Append(s, e)) = Len(s) + 1
      /\ \A k \in 1..Len(s) : Append(s, e)[k] = s[k]
      /\ Append(s, e)[Len(s) + 1] = e
  OBVIOUS
<1>2. ToSet(Append(s, e)) = ToSet(s) \cup {e}
  BY <1>1 DEF ToSet
<1>3. ASSUME IsInjective(s), e \notin ToSet(s) PROVE IsInjective(Append(s, e))
  BY <1>1, <1>3 DEF ToSet, IsInjective
<1>4. Append(s, e) # <<>>
  BY <1>1, Len(<<>>) = 0
<1>5. QED
  BY <1>1, <1>2, <1>3, <1>4

(* Popping the first element removes it and nothing else. *)
LEMMA TailFacts ==
    ASSUME NEW S, NEW s \in Seq(S), s # <<>>
    PROVE  /\ Head(s) \in S
           /\ Head(s) \in ToSet(s)
           /\ Tail(s) \in Seq(S)
           /\ Len(s) = 1 <=> Tail(s) = <<>>
           /\ ToSet(Tail(s)) \subseteq ToSet(s)
           /\ IsInjective(s) => /\ IsInjective(Tail(s))
                                /\ Head(s) \notin ToSet(Tail(s))
<1>1. /\ Head(s) = s[1]
      /\ Len(s) \in Nat \ {0}
      /\ Tail(s) \in Seq(S)
      /\ Len(Tail(s)) = Len(s) - 1
      /\ \A k \in 1..(Len(s) - 1) : Tail(s)[k] = s[k + 1]
  OBVIOUS
<1>2. /\ Head(s) \in S
      /\ Head(s) \in ToSet(s)
      /\ ToSet(Tail(s)) \subseteq ToSet(s)
  BY <1>1 DEF ToSet
<1>3. ASSUME IsInjective(s)
      PROVE  IsInjective(Tail(s)) /\ Head(s) \notin ToSet(Tail(s))
  BY <1>1, <1>3 DEF ToSet, IsInjective
<1>4. Len(s) = 1 <=> Tail(s) = <<>>
  <2> DEFINE t == Tail(s)
  <2>1. t \in Seq(S) /\ Len(t) = Len(s) - 1 /\ Len(s) \in Nat
    BY <1>1
  <2> HIDE DEF t
  <2>2. Len(s) = 1 <=> t = <<>>
    BY <2>1, EmptySeq
  <2>3. QED
    BY <2>2 DEF t
<1>5. QED
  BY <1>1, <1>2, <1>3, <1>4

(* Popping the first element removes no other. *)
LEMMA HeadOrTail ==
    ASSUME NEW S, NEW s \in Seq(S), s # <<>>
    PROVE  ToSet(s) = {Head(s)} \cup ToSet(Tail(s))
<1> DEFINE t == Tail(s)
<1>1. /\ Head(s) = s[1] /\ Head(s) \in ToSet(s)
      /\ t \in Seq(S) /\ Len(t) = Len(s) - 1
      /\ ToSet(t) \subseteq ToSet(s)
      /\ Len(s) \in Nat \ {0}
      /\ \A k \in 1..(Len(s) - 1) : t[k] = s[k + 1]
  BY TailFacts
<1> HIDE DEF t
<1>2. DOMAIN s = 1..Len(s) /\ DOMAIN t = 1..Len(t)
  BY <1>1
<1>3. ASSUME NEW k \in 1..Len(s), k # 1 PROVE s[k] \in ToSet(t)
  <2>1. k - 1 \in DOMAIN t /\ s[k] = t[k - 1]
    BY <1>1, <1>2, <1>3
  <2>2. QED
    BY <2>1 DEF ToSet
<1>4. \A x \in ToSet(s) : \E k \in 1..Len(s) : x = s[k]
  BY <1>2 DEF ToSet
<1>5. ToSet(s) \subseteq {Head(s)} \cup ToSet(t)
  BY <1>1, <1>3, <1>4
<1>6. QED
  BY <1>1, <1>5 DEF t

-----------------------------------------------------------------------------
\* A change of the tree, or a connection, of which the loader still has to hear, or
\* has just heard.
Told ==
    \/ unreported
    \/ NotifyFrame \in ToSet(frames)
    \/ \E n \in Notifiers : notifier[n] = "raise"
    \/ flag

\* The loader has a command under way only where it waits for the answer.
OneCall == rpc["loader"] = "none" \/ loader \in {"await", "prewait"}

\* The loader gets one answer for a command, and never one of a command it gave up.
OneAnswer ==
    /\ \A i \in DOMAIN frames : frames[i] = "loader" => rpc["loader"] = "replied"
    /\ \A i, j \in DOMAIN frames :
            frames[i] = "loader" /\ frames[j] = "loader" => i = j

\* A server that stopped left the history disturbed.
StopDisturbs == ~up => disturbed

\* The flag stays raised until the load is over.
FlagStays == Loading => flag

\* The tree that was scanned for the loader is the served one...
ScanIsServed ==
    ~disturbed /\ ~quit /\ loader = "await" /\ rpc["loader"] \in {"read", "replied", "answered"}
        => scanned = served

\* ...and so is the tree the cache was populated from.
MirrorIsServed ==
    ~disturbed /\ ~quit /\ loader \in {"preload", "prewait", "clear"} => mirror = served

\* Once the heartbeat has raised the flag, the mirror is served or a load is due.
LoadIsDue ==
    ~disturbed /\ ~quit /\ (connected \/ notifier["heartbeat"] = "signal")
        => mirror = served \/ Told

LoadInv ==
    /\ OneCall
    /\ OneAnswer
    /\ StopDisturbs
    /\ FlagStays
    /\ ScanIsServed
    /\ MirrorIsServed
    /\ LoadIsDue

IInv == TypeOK /\ LoadInv

-----------------------------------------------------------------------------
(* The type.                                                               *)

(* What the sets the variables range over contain. *)
LEMMA SetFacts ==
    /\ "loader" \in Callers /\ "user" \in Callers /\ "nobody" \notin Callers
    /\ "reader" \in Notifiers /\ "heartbeat" \in Notifiers
    /\ NotifyFrame \in Frame /\ NotifyFrame \notin Callers /\ NotifyFrame # "nobody"
    /\ Callers \subseteq Frame /\ "nobody" \in Frame
  BY DEF Callers, Notifiers, Frame, NotifyFrame

(* A call that ends leaves no frame to its caller, and no other frame changes. *)
LEMMA EndCallFacts ==
    ASSUME TypeOK, NEW c \in Callers, EndCall(c)
    PROVE  /\ rpc' \in [Callers -> CallState] /\ frames' \in Seq(Frame)
           /\ rpc' = [rpc EXCEPT ![c] = "none"]
           /\ DOMAIN frames' = DOMAIN frames
           /\ \A i \in DOMAIN frames :
                 /\ frames'[i] # c
                 /\ \A f \in {NotifyFrame} \cup (Callers \ {c}) :
                       frames'[i] = f <=> frames[i] = f
           /\ NotifyFrame \in ToSet(frames) => NotifyFrame \in ToSet(frames')
<1>1. rpc' = [rpc EXCEPT ![c] = "none"] /\ rpc' \in [Callers -> CallState]
  BY DEF EndCall, TypeOK, CallState
<1>2. /\ frames' = [i \in DOMAIN frames |-> IF frames[i] = c THEN "nobody" ELSE frames[i]]
      /\ frames \in Seq(Frame)
  BY DEF EndCall, TypeOK
<1>3. DOMAIN frames = 1..Len(frames) /\ Len(frames) \in Nat
      /\ \A i \in 1..Len(frames) : frames[i] \in Frame
  BY <1>2
<1>4. frames' \in [1..Len(frames) -> Frame]
  BY <1>2, <1>3, SetFacts
<1>5. frames' \in Seq(Frame)
  BY <1>3, <1>4, SeqDef
<1>6. /\ DOMAIN frames' = DOMAIN frames
      /\ \A i \in DOMAIN frames :
            /\ frames'[i] # c
            /\ \A f \in {NotifyFrame} \cup (Callers \ {c}) : frames'[i] = f <=> frames[i] = f
  BY <1>2, SetFacts
<1>7. NotifyFrame \in ToSet(frames) => NotifyFrame \in ToSet(frames')
  BY <1>6 DEF ToSet
<1>8. QED
  BY <1>1, <1>5, <1>6, <1>7

(* The initial state has the type. *)
LEMMA InitType == Init => TypeOK
<1>1. 0 \in Versions /\ 1 \in Versions /\ 0 \in 0..MaxRestarts /\ 0 \in 0..MaxWrites
      /\ 0 \in 0..MaxLosses
  BY ConstantsAssumption DEF Versions
<1>2. <<>> \in Seq(Frame)
  OBVIOUS
<1>3. QED
  BY <1>1, <1>2 DEF Init, TypeOK, CallState, LoaderPC, Callers, Notifiers

(* The bound on losses is kept. *)
LEMMA LossyType == TypeOK /\ Lossy => losses' \in 0..MaxLosses
BY ConstantsAssumption DEF TypeOK, Lossy

(* Every step of the server keeps the type. *)
LEMMA ServerType ==
    ASSUME TypeOK,
           ServerNext \/ Change \/ ServerStops \/ ServerStarts
              \/ \E c \in Callers : Lose(c)
    PROVE  TypeOK'
<1> USE DEF serverVars, callVars, loaderVars
<1>1. CASE Notify
  <2>1. frames' \in Seq(Frame)
    BY <1>1, SetFacts, AppendFacts DEF Notify, TypeOK
  <2>2. losses' \in 0..MaxLosses
    BY <1>1, LossyType DEF Notify, TypeOK
  <2>3. QED
    BY <1>1, <2>1, <2>2 DEF Notify, TypeOK
<1>2. ASSUME NEW c \in Callers, Execute(c) PROVE TypeOK'
  BY <1>2 DEF Execute, TypeOK, CallState
<1>3. ASSUME NEW c \in Callers, Reply(c) PROVE TypeOK'
  <2>1. frames' \in Seq(Frame)
    BY <1>3, SetFacts, AppendFacts DEF Reply, TypeOK
  <2>2. QED
    BY <1>3, <2>1 DEF Reply, TypeOK, CallState
<1>4. CASE Change
  <2>1. served' \in Versions
    BY <1>4, ConstantsAssumption DEF Change, TypeOK, Versions
  <2>2. QED
    BY <1>4, <2>1 DEF Change, TypeOK, Loading
<1>5. CASE ServerStops
  <2>1. restarts' \in 0..MaxRestarts
    BY <1>5, ConstantsAssumption DEF ServerStops, TypeOK
  <2>2. rpc' \in [Callers -> CallState]
    BY <1>5 DEF ServerStops, TypeOK, CallState
  <2>3. QED
    BY <1>5, <2>1, <2>2 DEF ServerStops, TypeOK
<1>6. CASE ServerStarts
  BY <1>6 DEF ServerStarts, TypeOK
<1>7. ASSUME NEW c \in Callers, Lose(c) PROVE TypeOK'
  <2>1. losses' \in 0..MaxLosses
    BY <1>7, LossyType DEF Lose, TypeOK
  <2>2. QED
    BY <1>7, <2>1 DEF Lose, TypeOK, CallState
<1>8. QED
  BY <1>1, <1>2, <1>3, <1>4, <1>5, <1>6, <1>7 DEF ServerNext

(* Every step of the client's reader and of its heartbeat keeps the type. *)
LEMMA NotifierType ==
    ASSUME TypeOK, ReaderNext \/ HeartbeatNext
    PROVE  TypeOK'
<1> USE DEF serverVars, callVars, loaderVars
<1>1. CASE Read
  <2>1. frames' \in Seq(Frame) /\ Head(frames) \in Frame
    BY <1>1, TailFacts DEF Read, TypeOK
  <2>2. CASE Head(frames) = NotifyFrame
    BY <1>1, <2>1, <2>2 DEF Read, TypeOK
  <2>3. CASE Head(frames) # NotifyFrame
    <3>1. rpc' \in [Callers -> CallState]
      BY <1>1, <2>3 DEF Read, TypeOK, CallState
    <3>2. QED
      BY <1>1, <2>1, <2>3, <3>1 DEF Read, TypeOK
  <2>4. QED
    BY <2>2, <2>3
<1>2. ASSUME NEW n \in Notifiers, Raise(n) PROVE TypeOK'
  BY <1>2 DEF Raise, TypeOK
<1>3. ASSUME NEW n \in Notifiers, Signal(n) PROVE TypeOK'
  BY <1>3 DEF Signal, TypeOK, LoaderPC
<1>4. CASE Ping
  BY <1>4 DEF Ping, TypeOK
<1>5. CASE Pong
  BY <1>5 DEF Pong, TypeOK, Notifiers
<1>6. CASE NoPong
  <2>1. losses' \in 0..MaxLosses
    BY <1>6, LossyType DEF NoPong, TypeOK
  <2>2. QED
    BY <1>6, <2>1 DEF NoPong, TypeOK
<1>7. QED
  BY <1>1, <1>2, <1>3, <1>4, <1>5, <1>6, SetFacts DEF ReaderNext, HeartbeatNext

(* Every step of the loader, and of a write, keeps the type. *)
LEMMA LoaderType ==
    ASSUME TypeOK, LoaderNext \/ WriteGetattr \/ WriteDone \/ Stop
    PROVE  TypeOK'
<1> USE DEF serverVars, callVars, loaderVars, LoaderStep, Lock, Unlock
<1>1. CASE Begin \/ Test \/ Block \/ Wake
  BY <1>1 DEF Begin, Test, Block, Wake, TypeOK, LoaderPC, Callers
<1>2. CASE ReadTree
  BY <1>2 DEF ReadTree, TypeOK, LoaderPC, CallState
<1>3. CASE Populate
  BY <1>3, SetFacts DEF Populate, TypeOK, LoaderPC, CallState
<1>4. CASE Preload
  BY <1>4 DEF Preload, TypeOK, LoaderPC, CallState, Callers
<1>5. CASE Preloaded \/ LoadFails
  <2>1. losses' \in 0..MaxLosses
    BY <1>5, LossyType DEF Preloaded, LoadFails, TypeOK
  <2>2. rpc' \in [Callers -> CallState] /\ frames' \in Seq(Frame)
    BY <1>5, SetFacts, EndCallFacts DEF Preloaded, LoadFails
  <2>3. QED
    BY <1>5, <2>1, <2>2 DEF Preloaded, LoadFails, TypeOK, LoaderPC
<1>6. CASE Clear \/ Quit
  BY <1>6 DEF Clear, Quit, TypeOK, LoaderPC
<1>7. CASE Stop
  BY <1>7 DEF Stop, TypeOK
<1>8. CASE WriteGetattr
  <2>1. writes' \in 0..MaxWrites
    BY <1>8, ConstantsAssumption DEF WriteGetattr, TypeOK
  <2>2. QED
    BY <1>8, <2>1 DEF WriteGetattr, TypeOK, CallState, Callers
<1>9. CASE WriteDone
  <2>1. losses' \in 0..MaxLosses
    BY <1>9, LossyType DEF WriteDone, TypeOK
  <2>2. rpc' \in [Callers -> CallState] /\ frames' \in Seq(Frame)
    BY <1>9, SetFacts, EndCallFacts DEF WriteDone
  <2>3. QED
    BY <1>9, <2>1, <2>2 DEF WriteDone, TypeOK
<1>10. QED
  BY <1>1, <1>2, <1>3, <1>4, <1>5, <1>6, <1>7, <1>8, <1>9 DEF LoaderNext

(* Every step keeps the type. *)
LEMMA NextType == TypeOK /\ [Next]_vars => TypeOK'
<1> SUFFICES ASSUME TypeOK, [Next]_vars PROVE TypeOK'
  OBVIOUS
<1>1. CASE UNCHANGED vars
  BY <1>1 DEF TypeOK, vars, serverVars, callVars, loaderVars
<1>2. CASE Next
  BY <1>2, ServerType, NotifierType, LoaderType DEF Next
<1>3. QED
  BY <1>1, <1>2

(* The loader, its notifications and its calls keep their type. *)
THEOREM TypeCorrect == Spec => []TypeOK
<1>1. QED
  BY InitType, NextType, PTL DEF Spec

-----------------------------------------------------------------------------
(* The load that is due.                                                   *)

(* Nothing is forgotten at first: the client is not connected. *)
LEMMA InitLoad == Init => LoadInv
<1>1. Init => DOMAIN frames = {}
  BY DEF Init
<1>2. QED
  BY <1>1, SetFacts DEF Init, LoadInv, OneCall, OneAnswer, StopDisturbs, FlagStays,
       Loading, ScanIsServed, MirrorIsServed, LoadIsDue

(* A frame that is appended is the last; the others stay where they are. *)
LEMMA AppendAt ==
    ASSUME NEW S, NEW s \in Seq(S), NEW e \in S
    PROVE  \A i \in DOMAIN Append(s, e) :
             \/ i \in DOMAIN s /\ Append(s, e)[i] = s[i]
             \/ i = Len(s) + 1 /\ Append(s, e)[i] = e
OBVIOUS

(* A frame that is not the first moves up when the first is taken. *)
LEMMA TailAt ==
    ASSUME NEW S, NEW s \in Seq(S), s # <<>>
    PROVE  /\ 1 \in DOMAIN s /\ Head(s) = s[1]
           /\ \A i \in DOMAIN Tail(s) : /\ i \in Nat \ {0}
                                        /\ i + 1 \in DOMAIN s
                                        /\ Tail(s)[i] = s[i + 1]
OBVIOUS

(* The server's steps: a change is reported, or the history is disturbed. *)
LEMMA ServerLoad ==
    ASSUME TypeOK, LoadInv,
           ServerNext \/ Change \/ ServerStops \/ ServerStarts
              \/ \E c \in Callers : Lose(c)
    PROVE  LoadInv'
<1> USE DEF serverVars, callVars, loaderVars
<1>1. CASE Notify /\ frames' # frames
  <2>1. ToSet(frames') = ToSet(frames) \cup {NotifyFrame}
        /\ frames' = Append(frames, NotifyFrame) /\ disturbed' = disturbed
    BY <1>1, SetFacts, AppendFacts DEF Notify, TypeOK
  <2>2. OneAnswer'
    <3>1. \A i \in DOMAIN frames' :
             frames'[i] = "loader" => i \in DOMAIN frames /\ frames'[i] = frames[i]
      BY <2>1, SetFacts, AppendAt DEF TypeOK
    <3>2. QED
      BY <1>1, <3>1 DEF OneAnswer, LoadInv, Notify
  <2>3. Told'
    BY <2>1 DEF Told
  <2>4. QED
    BY <1>1, <2>1, <2>2, <2>3 DEF Notify, LoadInv, OneCall, StopDisturbs, FlagStays, Loading,
         ScanIsServed, MirrorIsServed, LoadIsDue
<1>2. ASSUME NEW c \in Callers, Execute(c) PROVE LoadInv'
  <2>1. rpc'["loader"] = (IF c = "loader" THEN "read" ELSE rpc["loader"])
        /\ (c = "loader" => rpc["loader"] = "sent")
        /\ IF c = "loader" /\ loader = "await" THEN scanned' = served /\ ~disturbed'
                                              ELSE UNCHANGED <<scanned, disturbed>>
    BY <1>2, SetFacts DEF Execute, TypeOK
  <2>2. OneAnswer'
    BY <1>2, <2>1 DEF OneAnswer, LoadInv, Execute
  <2>3. OneCall' /\ FlagStays'
    BY <1>2, <2>1 DEF OneCall, FlagStays, Loading, LoadInv, Execute
  <2>4. CASE c = "loader" /\ loader = "await"
    <3>1. ScanIsServed' /\ MirrorIsServed'
      BY <1>2, <2>1, <2>4 DEF ScanIsServed, MirrorIsServed, LoadInv, Execute
    <3>2. Told'
      BY <1>2, <2>4 DEF Told, LoadInv, FlagStays, Loading, Execute
    <3>3. StopDisturbs'
      BY <1>2 DEF StopDisturbs, Execute
    <3>4. QED
      BY <2>2, <2>3, <3>1, <3>2, <3>3 DEF LoadInv, LoadIsDue
  <2>5. CASE ~(c = "loader" /\ loader = "await")
    <3>1. disturbed' = disturbed
      BY <2>1, <2>5
    <3>2. ScanIsServed' /\ MirrorIsServed'
      BY <1>2, <2>1, <2>5, <3>1 DEF ScanIsServed, MirrorIsServed, LoadInv, Execute
    <3>3. LoadIsDue' /\ StopDisturbs'
      BY <1>2, <2>1, <3>1 DEF LoadIsDue, Told, StopDisturbs, LoadInv, Execute
    <3>4. QED
      BY <2>2, <2>3, <3>2, <3>3 DEF LoadInv
  <2>6. QED
    BY <2>4, <2>5
<1>3. ASSUME NEW c \in Callers, Reply(c) PROVE LoadInv'
  <2>1. c \in Frame
    BY SetFacts
  <2>2. /\ ToSet(frames') = ToSet(frames) \cup {c}
        /\ \A i \in DOMAIN frames' :
             \/ i \in DOMAIN frames /\ frames'[i] = frames[i]
             \/ i = Len(frames) + 1 /\ frames'[i] = c
    BY <1>3, <2>1, AppendFacts, AppendAt DEF Reply, TypeOK
  <2>3. /\ rpc'["loader"] = (IF c = "loader" THEN "replied" ELSE rpc["loader"])
        /\ c = "loader" => rpc["loader"] = "read"
    BY <1>3, SetFacts DEF Reply, TypeOK
  <2>4. OneAnswer'
    <3>1. CASE c = "loader"
      <4>1. \A i \in DOMAIN frames : frames[i] # "loader"
        BY <2>3, <3>1 DEF OneAnswer, LoadInv
      <4>2. QED
        BY <2>2, <2>3, <3>1, <4>1 DEF OneAnswer
    <3>2. CASE c # "loader"
      BY <2>1, <2>2, <2>3, <3>2 DEF OneAnswer, LoadInv
    <3>3. QED
      BY <3>1, <3>2
  <2>5. LoadIsDue'
    BY <1>3, <2>2 DEF LoadIsDue, Told, LoadInv, Reply
  <2>6. QED
    BY <1>3, <2>3, <2>4, <2>5 DEF Reply, LoadInv, OneCall, StopDisturbs, FlagStays, Loading,
         ScanIsServed, MirrorIsServed
<1>4. CASE Change
  <2>1. CASE disturbed'
    BY <1>4, <2>1 DEF Change, TypeOK, LoadInv, OneCall, OneAnswer, StopDisturbs, FlagStays,
         Loading, ScanIsServed, MirrorIsServed, LoadIsDue
  <2>2. CASE ~disturbed'
    <3>1. ~disturbed /\ ~Loading /\ up
      BY <1>4, <2>2 DEF Change, TypeOK, LoadInv, StopDisturbs
    <3>2. Told'
      BY <1>4, <3>1 DEF Change, Told
    <3>3. QED
      BY <1>4, <3>1, <3>2 DEF Change, TypeOK, LoadInv, OneCall, OneAnswer, StopDisturbs,
           FlagStays, Loading, ScanIsServed, MirrorIsServed, LoadIsDue
  <2>3. QED
    BY <2>1, <2>2
<1>5. CASE ServerStops
  <2>1. /\ disturbed'
        /\ \/ rpc'["loader"] = rpc["loader"]
           \/ rpc["loader"] \in {"sent", "read"} /\ rpc'["loader"] = "lost"
    BY <1>5, SetFacts DEF ServerStops, TypeOK
  <2>2. QED
    BY <1>5, <2>1 DEF ServerStops, LoadInv, OneCall, OneAnswer, StopDisturbs, FlagStays,
         Loading, ScanIsServed, MirrorIsServed, LoadIsDue
<1>6. CASE ServerStarts
  BY <1>6 DEF ServerStarts, LoadInv, OneCall, OneAnswer, StopDisturbs, FlagStays, Loading,
       ScanIsServed, MirrorIsServed, LoadIsDue, Told
<1>7. CASE Notify /\ frames' = frames
  <2>1. frames # Append(frames, NotifyFrame)
    <3>1. Len(Append(frames, NotifyFrame)) = Len(frames) + 1 /\ Len(frames) \in Nat
      BY SetFacts DEF TypeOK
    <3>2. QED
      BY <3>1
  <2>2. disturbed'
    BY <1>7, <2>1 DEF Notify
  <2>3. QED
    BY <1>7, <2>2 DEF Notify, LoadInv, OneCall, OneAnswer, StopDisturbs, FlagStays, Loading,
         ScanIsServed, MirrorIsServed, LoadIsDue
<1>8. ASSUME NEW c \in Callers, Lose(c) PROVE LoadInv'
  <2>1. \/ rpc'["loader"] = rpc["loader"]
        \/ rpc["loader"] \in {"sent", "read"} /\ rpc'["loader"] = "lost"
    BY <1>8, SetFacts DEF Lose, TypeOK
  <2>2. QED
    BY <1>8, <2>1 DEF Lose, LoadInv, OneCall, OneAnswer, StopDisturbs, FlagStays, Loading,
         ScanIsServed, MirrorIsServed, LoadIsDue, Told
<1>9. QED
  BY <1>1, <1>2, <1>3, <1>4, <1>5, <1>6, <1>7, <1>8 DEF ServerNext

(* The steps of the reader and of the heartbeat: what they take in they raise. *)
LEMMA NotifierLoad ==
    ASSUME TypeOK, LoadInv, ReaderNext \/ HeartbeatNext
    PROVE  LoadInv'
<1> USE DEF serverVars, callVars, loaderVars
<1>1. CASE Read
  <2> DEFINE f == Head(frames)
  <2>1. /\ f \in Frame
        /\ ToSet(frames) = {f} \cup ToSet(frames')
        /\ 1 \in DOMAIN frames /\ f = frames[1]
        /\ \A i \in DOMAIN frames' : /\ i \in Nat \ {0}
                                     /\ i + 1 \in DOMAIN frames
                                     /\ frames'[i] = frames[i + 1]
    BY <1>1, TailFacts, HeadOrTail, TailAt DEF Read, TypeOK
  <2>2. NotifyFrame # "loader" /\ "loader" \in Callers
    BY SetFacts
  <2>3. /\ f = NotifyFrame => rpc' = rpc /\ notifier'["reader"] = "raise"
        /\ f # NotifyFrame => /\ notifier' = notifier
                              /\ rpc' = [c \in Callers |->
                                          IF c = f THEN "answered" ELSE rpc[c]]
        /\ notifier'["heartbeat"] = notifier["heartbeat"]
    BY <1>1, SetFacts DEF Read, TypeOK
  <2> HIDE DEF f
  <2>4. rpc'["loader"] = IF f = "loader" THEN "answered" ELSE rpc["loader"]
    BY <2>2, <2>3
  <2>5. f = "loader" =>
            /\ rpc["loader"] = "replied"
            /\ \A i \in DOMAIN frames' : frames'[i] # "loader"
    <3>1. SUFFICES ASSUME f = "loader"
                   PROVE  /\ rpc["loader"] = "replied"
                          /\ \A i \in DOMAIN frames' : frames'[i] # "loader"
      OBVIOUS
    <3>2. rpc["loader"] = "replied"
      BY <2>1, <3>1 DEF OneAnswer, LoadInv
    <3>3. ASSUME NEW i \in DOMAIN frames', frames'[i] = "loader" PROVE FALSE
      <4>1. i + 1 = 1
        BY <2>1, <3>1, <3>3 DEF OneAnswer, LoadInv
      <4>2. QED
        BY <2>1, <4>1
    <3>4. QED
      BY <3>2, <3>3
  <2>6. OneAnswer'
    <3>1. CASE f = "loader"
      BY <2>5, <3>1 DEF OneAnswer
    <3>2. CASE f # "loader"
      <4>1. rpc'["loader"] = rpc["loader"]
        BY <2>4, <3>2
      <4>2. ASSUME NEW i \in DOMAIN frames', NEW j \in DOMAIN frames',
                   frames'[i] = "loader", frames'[j] = "loader"
            PROVE  i = j /\ rpc["loader"] = "replied"
        <5>1. i + 1 = j + 1 /\ rpc["loader"] = "replied"
          BY <2>1, <4>2 DEF OneAnswer, LoadInv
        <5>2. QED
          BY <2>1, <5>1
      <4>3. QED
        BY <4>1, <4>2 DEF OneAnswer
    <3>3. QED
      BY <3>1, <3>2
  <2>7. Told => Told'
    BY <1>1, <2>1, <2>3, SetFacts DEF Told, Read
  <2>8. LoadIsDue'
    BY <1>1, <2>3, <2>7 DEF LoadIsDue, LoadInv, Read
  <2>9. OneCall' /\ StopDisturbs' /\ FlagStays'
    BY <1>1, <2>4, <2>5 DEF OneCall, StopDisturbs, FlagStays, Loading, LoadInv, Read
  <2>10. ScanIsServed' /\ MirrorIsServed'
    BY <1>1, <2>4, <2>5 DEF ScanIsServed, MirrorIsServed, LoadInv, Read
  <2>11. QED
    BY <2>6, <2>8, <2>9, <2>10 DEF LoadInv
<1>2. ASSUME NEW n \in Notifiers, Raise(n) PROVE LoadInv'
  BY <1>2 DEF Raise, LoadInv, OneCall, OneAnswer, StopDisturbs, FlagStays, Loading,
     ScanIsServed, MirrorIsServed, LoadIsDue, Told
<1>3. ASSUME NEW n \in Notifiers, Signal(n) PROVE LoadInv'
  <2>1. /\ \A m \in Notifiers : notifier[m] = "raise" => notifier'[m] = "raise"
        /\ connected' \/ notifier'["heartbeat"] = "signal"
             => connected \/ notifier["heartbeat"] = "signal"
    BY <1>3, SetFacts DEF Signal, TypeOK
  <2>2. /\ loader' # loader => loader = "blocked" /\ loader' = "waking"
        /\ UNCHANGED <<rpc, scanned, frames, quit, disturbed, flag, mirror, served, up,
                       unreported>>
    BY <1>3 DEF Signal
  <2>3. LoadIsDue'
    BY <2>1, <2>2 DEF LoadIsDue, Told, LoadInv
  <2>4. QED
    BY <2>2, <2>3 DEF LoadInv, OneCall, OneAnswer, StopDisturbs, FlagStays, Loading,
         ScanIsServed, MirrorIsServed
<1>4. CASE Ping
  BY <1>4 DEF Ping, LoadInv, OneCall, OneAnswer, StopDisturbs, FlagStays, Loading,
     ScanIsServed, MirrorIsServed, LoadIsDue, Told
<1>5. CASE Pong
  <2>1. /\ \A m \in Notifiers : notifier[m] = "raise" => notifier'[m] = "raise"
        /\ notifier'["heartbeat"] = "signal" => notifier["heartbeat"] = "signal"
    BY <1>5, SetFacts DEF Pong, TypeOK
  <2>2. LoadIsDue'
    BY <1>5, <2>1 DEF Pong, LoadIsDue, Told, LoadInv
  <2>3. QED
    BY <1>5, <2>2 DEF Pong, LoadInv, OneCall, OneAnswer, StopDisturbs, FlagStays, Loading,
       ScanIsServed, MirrorIsServed
<1>6. CASE NoPong
  BY <1>6 DEF NoPong, LoadInv, OneCall, OneAnswer, StopDisturbs, FlagStays, Loading,
     ScanIsServed, MirrorIsServed, LoadIsDue, Told
<1>7. QED
  BY <1>1, <1>2, <1>3, <1>4, <1>5, <1>6, SetFacts DEF ReaderNext, HeartbeatNext

(* The steps of the loader: it clears the flag when it has populated the cache, or *)
(* when the history is disturbed. *)
LEMMA LoaderLoad ==
    ASSUME TypeOK, LoadInv, LoaderNext \/ WriteGetattr \/ WriteDone \/ Stop
    PROVE  LoadInv'
<1> USE DEF serverVars, callVars, loaderVars, LoaderStep
<1>1. CASE Begin \/ Test \/ Block \/ Wake
  BY <1>1 DEF Begin, Test, Block, Wake, LoadInv, OneCall, OneAnswer, StopDisturbs,
     FlagStays, Loading, ScanIsServed, MirrorIsServed, LoadIsDue, Told
<1>2. CASE ReadTree
  <2>1. rpc["loader"] = "none" /\ rpc'["loader"] = "sent"
    BY <1>2, SetFacts DEF ReadTree, TypeOK, LoadInv, OneCall
  <2>2. QED
    BY <1>2, <2>1 DEF ReadTree, LoadInv, OneCall, OneAnswer, StopDisturbs,
       FlagStays, Loading, ScanIsServed, MirrorIsServed, LoadIsDue, Told
<1>3. CASE Populate
  <2>1. rpc["loader"] = "answered" /\ rpc'["loader"] = "none"
    BY <1>3, SetFacts DEF Populate, TypeOK
  <2>2. ~disturbed /\ ~quit => mirror' = served
    BY <1>3, <2>1 DEF Populate, LoadInv, ScanIsServed
  <2>3. QED
    BY <1>3, <2>1, <2>2 DEF Populate, LoadInv, OneCall, OneAnswer, StopDisturbs,
       FlagStays, Loading, ScanIsServed, MirrorIsServed, LoadIsDue
<1>4. CASE Preload
  <2>1. rpc["loader"] = "none" /\ rpc'["loader"] = "sent"
    BY <1>4, SetFacts DEF Preload, TypeOK, LoadInv, OneCall
  <2>2. QED
    BY <1>4, <2>1 DEF Preload, LoadInv, OneCall, OneAnswer, StopDisturbs,
       FlagStays, Loading, ScanIsServed, MirrorIsServed, LoadIsDue, Told
<1>5. CASE Preloaded
  <2>1. /\ rpc'["loader"] = "none" /\ DOMAIN frames' = DOMAIN frames
        /\ \A i \in DOMAIN frames : frames'[i] # "loader"
        /\ NotifyFrame \in ToSet(frames) => NotifyFrame \in ToSet(frames')
    BY <1>5, SetFacts, EndCallFacts DEF Preloaded, TypeOK
  <2>2. QED
    BY <1>5, <2>1 DEF Preloaded, LoadInv, OneCall, OneAnswer, StopDisturbs,
       FlagStays, Loading, ScanIsServed, MirrorIsServed, LoadIsDue, Told
<1>6. CASE LoadFails
  <2>1. /\ rpc'["loader"] = "none" /\ DOMAIN frames' = DOMAIN frames
        /\ \A i \in DOMAIN frames : frames'[i] # "loader"
    BY <1>6, SetFacts, EndCallFacts DEF LoadFails, TypeOK
  <2>2. QED
    BY <1>6, <2>1 DEF LoadFails, LoadInv, OneCall, OneAnswer, StopDisturbs,
       FlagStays, Loading, ScanIsServed, MirrorIsServed, LoadIsDue
<1>7. CASE Clear
  <2>1. ~disturbed /\ ~quit => mirror = served
    BY <1>7 DEF Clear, LoadInv, MirrorIsServed
  <2>2. QED
    BY <1>7, <2>1 DEF Clear, LoadInv, OneCall, OneAnswer, StopDisturbs,
       FlagStays, Loading, ScanIsServed, MirrorIsServed, LoadIsDue
<1>8. CASE Quit
  BY <1>8 DEF Quit, LoadInv, OneCall, OneAnswer, StopDisturbs,
     FlagStays, Loading, ScanIsServed, MirrorIsServed, LoadIsDue
<1>9. CASE Stop
  BY <1>9 DEF Stop, LoadInv, OneCall, OneAnswer, StopDisturbs,
     FlagStays, Loading, ScanIsServed, MirrorIsServed, LoadIsDue
<1>10. CASE WriteGetattr
  <2>1. rpc'["loader"] = rpc["loader"]
    BY <1>10, SetFacts DEF WriteGetattr, TypeOK
  <2>2. QED
    BY <1>10, <2>1 DEF WriteGetattr, LoadInv, OneCall, OneAnswer, StopDisturbs,
       FlagStays, Loading, ScanIsServed, MirrorIsServed, LoadIsDue, Told
<1>11. CASE WriteDone
  <2>1. /\ rpc'["loader"] = rpc["loader"] /\ DOMAIN frames' = DOMAIN frames
        /\ \A i \in DOMAIN frames : frames'[i] = "loader" <=> frames[i] = "loader"
        /\ NotifyFrame \in ToSet(frames) => NotifyFrame \in ToSet(frames')
    <3>1. EndCall("user") /\ "user" # "loader"
      BY <1>11 DEF WriteDone
    <3>2. QED
      BY <3>1, SetFacts, EndCallFacts DEF TypeOK
  <2>2. OneAnswer'
    BY <1>11, <2>1 DEF WriteDone, LoadInv, OneAnswer
  <2>3. QED
    BY <1>11, <2>1, <2>2 DEF WriteDone, LoadInv, OneCall, StopDisturbs,
       FlagStays, Loading, ScanIsServed, MirrorIsServed, LoadIsDue, Told
<1>12. QED
  BY <1>1, <1>2, <1>3, <1>4, <1>5, <1>6, <1>7, <1>8, <1>9, <1>10, <1>11 DEF LoaderNext

(* In every reachable state a load is due, or has reached what it is to reach. *)
THEOREM Invariance == Spec => []IInv
<1>1. Init => IInv
  BY InitType, InitLoad DEF IInv
<1>2. IInv /\ [Next]_vars => IInv'
  <2>1. IInv /\ UNCHANGED vars => LoadInv'
    BY DEF IInv, vars, serverVars, callVars, loaderVars, LoadInv, OneCall, OneAnswer,
       StopDisturbs, FlagStays, Loading, ScanIsServed, MirrorIsServed, LoadIsDue, Told
  <2>2. IInv /\ Next => LoadInv'
    BY ServerLoad, NotifierLoad, LoaderLoad DEF IInv, Next
  <2>3. QED
    BY <2>1, <2>2, NextType DEF IInv
<1>3. QED
  BY <1>1, <1>2, PTL DEF Spec

(* A client that is connected, runs and has heard of everything the server reported *)
(* (invalidate_tree, tree_loader, Heartbeat::on_connect) holds the served tree, unless, *)
(* since the last scan, it changed while it was loaded, the load failed, a notification *)
(* was lost or the server stopped. *)
THEOREM NoChangeForgotten == Spec => []NothingForgotten
<1>1. IInv => NothingForgotten
  <2>1. SUFFICES ASSUME TypeOK, LoadInv, ~disturbed, Quiet PROVE mirror = served
    BY DEF IInv, NothingForgotten, AlwaysUpToDate
  <2>2. NotifyFrame \notin ToSet(frames)
    BY <2>1 DEF Quiet, ToSet
  <2>3. ~Told
    BY <2>1, <2>2 DEF Quiet, Told
  <2>4. QED
    BY <2>1, <2>3 DEF Quiet, LoadInv, LoadIsDue
<1>2. QED
  BY <1>1, Invariance, PTL
=============================================================================
