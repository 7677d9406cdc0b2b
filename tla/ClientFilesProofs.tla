------------------------- MODULE ClientFilesProofs -------------------------
(***************************************************************************)
(* What is proved of module ClientFiles, for any number of threads, paths, *)
(* blocks and calls: its type, that no handle of the server leaks and none *)
(* is used for another file, and that sizes and blocks in the cache are    *)
(* the served ones.                                                        *)
(***************************************************************************)
EXTENDS ClientFiles, FiniteSetTheorems, SequenceTheorems, TLAPS

-----------------------------------------------------------------------------
(* The inductive invariant.                                                *)

MovingOps == {"unlink", "rename", "rename directory", "exchange"}
OpeningOps == {"create", "open"}
HandleOps == {"fetch", "read", "write"}

\* What a call of each operation has in its fields.
Shaped(c) ==
    /\ c.op = "none" => c = NoCall
    /\ c.op \in OpeningOps \cup {"truncate"} => c.p \in Paths /\ c.q = NoPath /\ c.h = None
    /\ c.op \in MovingOps => c.p \in Paths /\ c.q \in Paths /\ c.h = None
    /\ c.op \in HandleOps \cup {"close"} => c.p = NoPath /\ c.q = NoPath /\ c.h # None
    /\ c.op \in OpeningOps \cup HandleOps <=> c.sub # None
    /\ c.op = "write" => c.b \in Blocks /\ Len(c.got) = 1
    /\ c.op = "unlink" => c.q = c.p
    /\ c.op \in MovingOps \ {"unlink"} => c.q # c.p

Shapes == \A t \in Threads : Shaped(call[t])

\* The bounds of the counters.
Pending == {t \in Threads : call[t].op \in OpeningOps}

Counted ==
    /\ issued <= calls + 1
    /\ opens + Cardinality(Pending) <= calls + 2
    /\ \A p \in Paths : dir[p] <= calls + 1
    /\ \A s \in Handles : remote[s] <= calls + 1

\* Calls under way do not conflict.
Compatible ==
    \A t, u \in Threads :
        t # u /\ call[t] # NoCall /\ call[u] # NoCall => ~Conflict(call[t], call[u])

\* A file has one path.
OnePath == \A p, q \in Paths : dir[p] = dir[q] /\ dir[p] # None => p = q

\* The table has what was opened; an open file has paths.
Tabled ==
    /\ \A h \in Handles : h > opens => opened[h] = NotOpen /\ files[h] = NoFile
    /\ \A h \in Handles :
        files[h] # NoFile => opened[h].path \in Paths /\ files[h].path \in Paths

\* A call works on an open file, and while a file is closed nothing else does.
InUse ==
    \A t \in Threads : call[t].h # None =>
        /\ files[call[t].h] # NoFile
        /\ call[t].op = "close" => \A u \in Threads : call[u].h = call[t].h => u = t

\* The handles of the server that were not issued yet are nowhere.
Issued ==
    /\ \A s \in Handles : s > issued => remote[s] = None
    /\ \A h \in Handles : opened[h].sub <= issued
    /\ \A t \in Threads : call[t].sub <= issued

\* A handle of the server belongs to one entry of the table, or to one call that opens.
OneOwner ==
    /\ \A g, h \in Handles : opened[g].sub = opened[h].sub /\ opened[g].sub # None => g = h
    /\ \A t \in Threads, h \in Handles :
        opened[h].sub = call[t].sub /\ opened[h].sub # None => call[t].h = h
    /\ \A t, u \in Threads :
        call[t].sub = call[u].sub /\ call[t].sub # None =>
            t = u \/ (call[t].h # None /\ call[t].h = call[u].h)

\* A handle in use is open on the server, one that is closed is not.
Live ==
    /\ \A t \in Threads : call[t].sub # None => remote[call[t].sub] # None
    /\ \A h \in Handles : IsOpen(h) /\ opened[h].sub # None => remote[opened[h].sub] # None
    /\ \A t \in Threads :
        call[t].op = "close" /\ opened[call[t].h].sub # None =>
            remote[opened[call[t].h].sub] = None

\* A call on a file that did not move has a handle of that file.
RightCall ==
    \A t \in Threads :
        call[t].op \in HandleOps \ {"write"} /\ call[t].h \notin moved =>
            remote[call[t].sub] = files[call[t].h].file

\* The handle a write was made with stays in the table, or was lost.
WriteKept ==
    \A t \in Threads :
        call[t].op = "write" =>
            call[t].sub \in lost \/ opened[call[t].h].sub = call[t].sub

TableInv ==
    /\ Tabled
    /\ InUse
    /\ Issued
    /\ OneOwner
    /\ Live
    /\ WriteKept
    /\ NoHandleLeak
    /\ RightCall
    /\ RightFile

CallInv == Shapes /\ Compatible /\ Counted /\ OnePath

ServedSize(p) == IF dir[p] = None THEN Absent ELSE Len(data[dir[p]])

\* A call that ends by setting, or doubting, the size of p and the block b of p.
Moving(c, p) == c.op \in MovingOps /\ p \in {c.p, c.q}
Sizing(c, p) == c.op \in {"create", "truncate"} /\ p = c.p
Writing(c, p) ==
    /\ c.op = "write"
    /\ opened[c.h].path = p /\ files[c.h].path = p
    /\ remote[c.sub] = dir[p]

\* Thread t is about to set, or doubt, the size of p, or the block b of p.
SetsSize(t, p) == Moving(call[t], p) \/ Sizing(call[t], p) \/ Writing(call[t], p)
SetsBlock(t, p, b) == Moving(call[t], p) \/ (Writing(call[t], p) /\ call[t].b = b)

SizeRight(p) ==
    \/ p \in unsized
    \/ sizes[p] = ServedSize(p)
    \/ \E t \in Threads : SetsSize(t, p)

Match(p, b) ==
    /\ dir[p] # None
    /\ b \in DOMAIN data[dir[p]]
    /\ cached[p][b] = data[dir[p]][b]

BlockRight(p, b) ==
    \/ cached[p][b] = Unknown \/ <<p, b>> \in stale
    \/ Match(p, b)
    \/ \E t \in Threads : SetsBlock(t, p, b)

\* The cached sizes that a call is about to move.
MoveRight(c) ==
    c.op \in MovingOps =>
        /\ c.op # "exchange" /\ ~c.overtaken => dir[c.p] = None
        /\ ~due /\ ~c.overtaken =>
            /\ c.op # "unlink" /\ c.p \notin unsized =>
                sizes[c.p] \in {ServedSize(c.q), Absent}
            /\ c.op = "exchange" /\ c.q \notin unsized =>
                sizes[c.q] \in {ServedSize(c.p), Absent}

\* What a call that was not overtaken has read, or written, is in the file.
GotRight(c) ==
    /\ c.op = "read" /\ ~c.overtaken => c.got = data[remote[c.sub]]
    /\ c.op = "write" /\ ~c.overtaken =>
        /\ c.b \in DOMAIN data[remote[c.sub]]
        /\ data[remote[c.sub]][c.b] = c.got[1]

\* The scanned size of a path is the one served, unless the path was changed since.
ScanRight ==
    load = "populate" => \A p \in Paths : p \notin behind => scan[p] = ServedSize(p)

CacheInv ==
    /\ ~due => \A p \in Paths : SizeRight(p) /\ \A b \in Blocks : BlockRight(p, b)
    /\ \A t \in Threads : MoveRight(call[t]) /\ GotRight(call[t])

-----------------------------------------------------------------------------
(* Contents, calls and their fields.                                       *)

(* A content is a sequence of blocks that fits a page. *)
LEMMA ContentFacts ==
    /\ \A c \in Content : /\ c \in Seq(Versions)
                          /\ Len(c) \in 0..PageSize
                          /\ DOMAIN c = 1..Len(c)
                          /\ \A k \in 1..Len(c) : c[k] \in Versions
    /\ \A n \in 0..PageSize : \A c \in [1..n -> Versions] : c \in Content /\ Len(c) = n
<1>1. PageSize \in Nat
  BY ConstantsAssumption
<1>2. ASSUME NEW n \in 0..PageSize, NEW c \in [1..n -> Versions]
      PROVE  /\ c \in Seq(Versions) /\ Len(c) = n /\ c \in Content
  <2>1. n \in Nat
    BY <1>1
  <2>2. c \in Seq(Versions) /\ Len(c) = n
    BY <2>1, IsASeq
  <2>3. c \in Content
    BY <1>2 DEF Content
  <2>4. QED
    BY <2>2, <2>3
<1>3. ASSUME NEW c \in Content
      PROVE  /\ c \in Seq(Versions) /\ Len(c) \in 0..PageSize /\ DOMAIN c = 1..Len(c)
             /\ \A k \in 1..Len(c) : c[k] \in Versions
  <2>1. PICK n \in 0..PageSize : c \in [1..n -> Versions]
    BY DEF Content
  <2>2. c \in Seq(Versions) /\ Len(c) = n
    BY <2>1, <1>2
  <2>3. QED
    BY <2>1, <2>2
<1>4. QED
  BY <1>2, <1>3

(* The empty content and the content of one block. *)
LEMMA SmallContents ==
    /\ <<>> \in Content
    /\ \A v \in Versions : <<v>> \in Content /\ Len(<<v>>) = 1 /\ <<v>>[1] = v
<1>1. PageSize \in Nat \ {0} /\ 0 \in 0..PageSize /\ 1 \in 0..PageSize
  BY ConstantsAssumption
<1>2. <<>> \in [1..0 -> Versions]
  BY SMT
<1>3. <<>> \in Content
  BY <1>1, <1>2, ContentFacts
<1>4. ASSUME NEW v \in Versions
      PROVE  <<v>> \in Content /\ Len(<<v>>) = 1 /\ <<v>>[1] = v
  <2>1. <<v>> \in [1..1 -> Versions]
    BY SMT
  <2>2. QED
    BY <1>1, <2>1, ContentFacts
<1>5. QED
  BY <1>3, <1>4

(* The sets of the model are what their names say. *)
LEMMA NumberFacts ==
    /\ PageSize \in Nat \ {0} /\ MaxCalls \in Nat /\ MaxEdits \in Nat
    /\ None = 0 /\ Zeros = 0 /\ Zeros \in Versions
    /\ Handles = 1..(MaxCalls + 2) /\ Inodes = 1..(MaxCalls + 1)
    /\ None \notin Handles /\ None \notin Inodes
    /\ Handles \subseteq Nat /\ Inodes \subseteq Nat /\ Versions \subseteq Nat
    /\ Garbage \notin Versions /\ Unknown \notin Versions /\ Garbage # Unknown
    /\ \A n \in 0..PageSize : n \in 0..Absent /\ n # Absent
    /\ Absent \in 0..Absent
    /\ NoPath \notin Paths
BY ConstantsAssumption DEF None, Zeros, Versions, Handles, Inodes, Garbage, Unknown, Absent

\* Two calls that differ in whether they were overtaken.
SameCall(c, d) ==
    /\ c.op = d.op /\ c.p = d.p /\ c.q = d.q /\ c.h = d.h
    /\ c.sub = d.sub /\ c.b = d.b /\ c.got = d.got

(* The fields of a call. *)
LEMMA CallFacts ==
    /\ \A c \in Call :
        /\ c.op \in Ops \cup {"none"} /\ c.p \in Paths \cup {NoPath}
        /\ c.q \in Paths \cup {NoPath} /\ c.h \in Handles \cup {None}
        /\ c.sub \in Handles \cup {None} /\ c.b \in Blocks \cup {0}
        /\ c.got \in Content /\ c.overtaken \in BOOLEAN
        /\ \A v \in BOOLEAN : /\ [c EXCEPT !.overtaken = v] \in Call
                              /\ SameCall([c EXCEPT !.overtaken = v], c)
                              /\ [c EXCEPT !.overtaken = v].overtaken = v
    /\ \A c, d \in Call : SameCall(c, d) /\ c.overtaken = d.overtaken => c = d
BY DEF Call, SameCall

(* A thread that calls nothing. *)
LEMMA NoCallFacts ==
    /\ NoCall \in Call
    /\ NoCall.op = "none" /\ NoCall.p = NoPath /\ NoCall.q = NoPath
    /\ NoCall.h = None /\ NoCall.sub = None /\ NoCall.b = 0
    /\ NoCall.got = <<>> /\ NoCall.overtaken = FALSE
BY SmallContents DEF NoCall, Call

\* A call goes on, as call d; it may have been overtaken.
GoesOn(c, d) ==
    /\ SameCall(d, c)
    /\ c.overtaken => d.overtaken
    /\ c = NoCall => d = NoCall

(* A call that is overtaken goes on. *)
LEMMA OvertakeCall ==
    ASSUME NEW c \in Call, c # NoCall, NEW d, d = [c EXCEPT !.overtaken = TRUE]
    PROVE  d \in Call /\ GoesOn(c, d) /\ d.overtaken
<1>1. d \in Call /\ SameCall(d, c) /\ d.overtaken = TRUE
  BY CallFacts
<1>2. QED
  BY <1>1 DEF GoesOn

(* Calls of a file that is changed are overtaken, and go on. *)
LEMMA OvertakenFacts ==
    ASSUME NEW cs \in [Threads -> Call], NEW file
    PROVE  /\ Overtaken(cs, file) \in [Threads -> Call]
           /\ \A t \in Threads :
                /\ GoesOn(cs[t], Overtaken(cs, file)[t])
                /\ cs[t].sub # None /\ remote[cs[t].sub] = file
                      => Overtaken(cs, file)[t].overtaken
                /\ {cs[t].p, cs[t].q} \cap PathsTo(file) # {}
                      => Overtaken(cs, file)[t].overtaken
<1> DEFINE os == Overtaken(cs, file)
           hit(t) == \/ cs[t].sub # None /\ remote[cs[t].sub] = file
                     \/ {cs[t].p, cs[t].q} \cap PathsTo(file) # {}
<1>1. ASSUME NEW t \in Threads
      PROVE  os[t] \in Call /\ GoesOn(cs[t], os[t]) /\ (hit(t) => os[t].overtaken)
  <2>1. os[t] = IF hit(t) THEN [cs[t] EXCEPT !.overtaken = TRUE] ELSE cs[t]
    BY DEF Overtaken
  <2>2. cs[t] \in Call /\ (hit(t) => cs[t] # NoCall)
    BY NoCallFacts, NumberFacts DEF PathsTo
  <2> HIDE DEF os, hit
  <2>3. CASE hit(t)
    BY <2>1, <2>2, <2>3, OvertakeCall
  <2>4. CASE ~hit(t)
    BY <2>1, <2>2, <2>4 DEF GoesOn, SameCall
  <2>5. QED
    BY <2>3, <2>4
<1>2. os \in [Threads -> Call]
  BY <1>1 DEF Overtaken
<1>3. QED
  BY <1>1, <1>2

(* So are the calls that will rename a path of which the size is set. *)
LEMMA RenamingFacts ==
    ASSUME call \in [Threads -> Call], NEW p
    PROVE  /\ Renaming(p) \in [Threads -> Call]
           /\ \A t \in Threads :
                /\ GoesOn(call[t], Renaming(p)[t])
                /\ call[t].op \in Namespace /\ p \in {call[t].p, call[t].q}
                      => Renaming(p)[t].overtaken
<1> DEFINE os == Renaming(p)
           hit(t) == call[t].op \in Namespace /\ p \in {call[t].p, call[t].q}
<1>1. ASSUME NEW t \in Threads
      PROVE  os[t] \in Call /\ GoesOn(call[t], os[t]) /\ (hit(t) => os[t].overtaken)
  <2>1. os[t] = IF hit(t) THEN [call[t] EXCEPT !.overtaken = TRUE] ELSE call[t]
    BY DEF Renaming
  <2>2. call[t] \in Call /\ (hit(t) => call[t] # NoCall)
    BY NoCallFacts DEF Namespace
  <2> HIDE DEF os, hit
  <2>3. CASE hit(t)
    BY <2>1, <2>2, <2>3, OvertakeCall
  <2>4. CASE ~hit(t)
    BY <2>1, <2>2, <2>4 DEF GoesOn, SameCall
  <2>5. QED
    BY <2>3, <2>4
<1>2. os \in [Threads -> Call]
  BY <1>1 DEF Renaming
<1>3. QED
  BY <1>1, <1>2

(* And those of which a path is renamed late. *)
LEMMA ReroutedFacts ==
    ASSUME call \in [Threads -> Call], NEW p, NEW q
    PROVE  /\ Rerouted(p, q) \in [Threads -> Call]
           /\ \A t \in Threads :
                /\ GoesOn(call[t], Rerouted(p, q)[t])
                /\ call[t].op \in Namespace /\ {p, q} \cap {call[t].p, call[t].q} # {}
                      => Rerouted(p, q)[t].overtaken
<1> DEFINE os == Rerouted(p, q)
           hit(t) == call[t].op \in Namespace /\ {p, q} \cap {call[t].p, call[t].q} # {}
<1>1. ASSUME NEW t \in Threads
      PROVE  os[t] \in Call /\ GoesOn(call[t], os[t]) /\ (hit(t) => os[t].overtaken)
  <2>1. os[t] = IF hit(t) THEN [call[t] EXCEPT !.overtaken = TRUE] ELSE call[t]
    BY DEF Rerouted
  <2>2. call[t] \in Call /\ (hit(t) => call[t] # NoCall)
    BY NoCallFacts DEF Namespace
  <2> HIDE DEF os, hit
  <2>3. CASE hit(t)
    BY <2>1, <2>2, <2>3, OvertakeCall
  <2>4. CASE ~hit(t)
    BY <2>1, <2>2, <2>4 DEF GoesOn, SameCall
  <2>5. QED
    BY <2>3, <2>4
<1>2. os \in [Threads -> Call]
  BY <1>1 DEF Rerouted
<1>3. QED
  BY <1>1, <1>2

-----------------------------------------------------------------------------
(* The steps, by what they do to the calls: the calls keep their shape and *)
(* never conflict.                                                         *)

\* Thread t begins the call c, and the others go on.
Starts(t, c) ==
    /\ call[t] = NoCall
    /\ calls < MaxCalls /\ calls' = calls + 1
    /\ c \in Call /\ Shaped(c) /\ c.op # "none"
    /\ \A u \in Threads : call[u] # NoCall => ~Conflict(c, call[u])
    /\ call' \in [Threads -> Call]
    /\ SameCall(call'[t], c)
    /\ \A u \in Threads \ {t} : GoesOn(call[u], call'[u])

\* The call of thread t returns, and the others go on.
Ends(t) ==
    /\ call[t] # NoCall
    /\ call' \in [Threads -> Call]
    /\ call'[t] = NoCall
    /\ \A u \in Threads \ {t} : GoesOn(call[u], call'[u])

\* All calls go on.
AllGoOn ==
    /\ call' \in [Threads -> Call]
    /\ \A u \in Threads : GoesOn(call[u], call'[u])

\* The kernel's paths of the files that calls work on stay.
PathsStay ==
    \A u \in Threads : call'[u].h # None => files'[call'[u].h].path = files[call'[u].h].path

(* A conflict is one of the operations and the paths, and symmetric. *)
LEMMA ConflictFacts ==
    ASSUME NEW c \in Call, NEW d \in Call, NEW c2 \in Call, NEW d2 \in Call,
           SameCall(c2, c), SameCall(d2, d),
           c.h # None => files'[c.h].path = files[c.h].path,
           d.h # None => files'[d.h].path = files[d.h].path
    PROVE  /\ Conflict(c, d) => Conflict(d, c)
           /\ Conflict(c2, d2)' <=> Conflict(c, d)
<1>1. PathsOf(c2)' = PathsOf(c) /\ PathsOf(d2)' = PathsOf(d)
  BY DEF PathsOf, SameCall
<1>2. c2.op = c.op /\ d2.op = d.op
  BY DEF SameCall
<1>3. Conflict(c2, d2)' <=> Conflict(c, d)
  BY <1>1, <1>2 DEF Conflict
<1>4. {c.op, d.op} = {d.op, c.op} /\ PathsOf(c) \cap PathsOf(d) = PathsOf(d) \cap PathsOf(c)
  OBVIOUS
<1>5. Conflict(c, d) => Conflict(d, c)
  BY <1>4 DEF Conflict
<1>6. QED
  BY <1>3, <1>5

(* The shape of a call is in its fields. *)
LEMMA ShapedFacts ==
    ASSUME NEW c, NEW d, Shaped(c), SameCall(d, c), c.op # "none"
    PROVE  Shaped(d)
BY DEF Shaped, SameCall

(* Only a thread that calls nothing has no operation. *)
LEMMA IdleFacts ==
    ASSUME Shapes, NEW t \in Threads
    PROVE  call[t] = NoCall <=> call[t].op = "none"
BY NoCallFacts DEF Shapes, Shaped

(* A call that is begun has its shape and conflicts with no other. *)
LEMMA StartedCalls ==
    ASSUME FilesTypeOK, Shapes, Compatible, NEW t \in Threads, NEW c, Starts(t, c), PathsStay
    PROVE  Shapes' /\ Compatible'
<1>1. /\ c \in Call /\ call'[t] \in Call /\ SameCall(call'[t], c)
      /\ \A u \in Threads : call[u] \in Call /\ call'[u] \in Call
      /\ \A u \in Threads \ {t} : SameCall(call'[u], call[u])
      /\ \A u \in Threads \ {t} : call[u] = NoCall => call'[u] = NoCall
  BY DEF Starts, FilesTypeOK, GoesOn
<1>2. Shapes'
  <2>1. ASSUME NEW u \in Threads PROVE Shaped(call'[u])
    <3>1. CASE u = t
      BY <1>1, <3>1, ShapedFacts DEF Starts
    <3>2. CASE u # t /\ call[u] = NoCall
      BY <1>1, <3>2 DEF Shapes
    <3>3. CASE u # t /\ call[u] # NoCall
      BY <1>1, <3>3, ShapedFacts, IdleFacts DEF Shapes
    <3>4. QED
      BY <3>1, <3>2, <3>3
  <2>2. QED
    BY <2>1 DEF Shapes, Shaped
<1>3. ASSUME NEW u \in Threads, u # t, call'[u] # NoCall
      PROVE  ~Conflict(call[t], call[u])' /\ ~Conflict(call[u], call[t])'
  <2>1. ~Conflict(c, call[u])
    BY <1>1, <1>3 DEF Starts
  <2>2. /\ c.h # None => files'[c.h].path = files[c.h].path
        /\ call[u].h # None => files'[call[u].h].path = files[call[u].h].path
    BY <1>1, <1>3 DEF PathsStay, SameCall
  <2>3. ~Conflict(call[u], c)
    BY <1>1, <2>1, <2>2, ConflictFacts DEF SameCall
  <2>4. QED
    BY <1>1, <1>3, <2>1, <2>2, <2>3, ConflictFacts
<1>4. ASSUME NEW u \in Threads, NEW v \in Threads, u # v, u # t, v # t,
             call'[u] # NoCall, call'[v] # NoCall
      PROVE  ~Conflict(call[u], call[v])'
  <2>1. ~Conflict(call[u], call[v])
    BY <1>1, <1>4 DEF Compatible
  <2>2. /\ call[v].h # None => files'[call[v].h].path = files[call[v].h].path
        /\ call[u].h # None => files'[call[u].h].path = files[call[u].h].path
    BY <1>1, <1>4 DEF PathsStay, SameCall
  <2>3. QED
    BY <1>1, <1>4, <2>1, <2>2, ConflictFacts
<1>5. QED
  BY <1>2, <1>3, <1>4 DEF Compatible

(* Calls that end or go on keep their shape, and do not come to conflict. *)
LEMMA GoingCalls ==
    ASSUME FilesTypeOK, Shapes, Compatible, AllGoOn \/ \E t \in Threads : Ends(t), PathsStay
    PROVE  Shapes' /\ Compatible'
<1>1. \A u \in Threads :
        /\ call[u] \in Call /\ call'[u] \in Call
        /\ call'[u] = NoCall \/ SameCall(call'[u], call[u])
        /\ call[u] = NoCall => call'[u] = NoCall
  BY DEF AllGoOn, Ends, FilesTypeOK, GoesOn
<1>2. Shapes'
  <2>1. ASSUME NEW u \in Threads PROVE Shaped(call'[u])
    <3>1. CASE call'[u] = NoCall
      BY <3>1, NoCallFacts DEF Shaped, OpeningOps, MovingOps, HandleOps
    <3>2. CASE call'[u] # NoCall
      BY <1>1, <3>2, ShapedFacts, IdleFacts DEF Shapes
    <3>3. QED
      BY <3>1, <3>2
  <2>2. QED
    BY <2>1 DEF Shapes, Shaped
<1>3. ASSUME NEW u \in Threads, NEW v \in Threads, u # v,
             call'[u] # NoCall, call'[v] # NoCall
      PROVE  ~Conflict(call[u], call[v])'
  <2>1. ~Conflict(call[u], call[v])
    BY <1>1, <1>3 DEF Compatible
  <2>2. /\ call[v].h # None => files'[call[v].h].path = files[call[v].h].path
        /\ call[u].h # None => files'[call[u].h].path = files[call[u].h].path
    BY <1>1, <1>3 DEF PathsStay, SameCall
  <2>3. QED
    BY <1>1, <1>3, <2>1, <2>2, ConflictFacts
<1>4. QED
  BY <1>2, <1>3 DEF Compatible

-----------------------------------------------------------------------------
(* The steps, by what they do to the table and the handles of the server.  *)

\* The table has what it had; the kernel may know another path of an open file.
TableStays ==
    /\ opened' = opened /\ opens' = opens
    /\ files' \in [Handles -> [path : Paths \cup {NoPath}, file : Inodes \cup {None}]]
    /\ \A h \in Handles : /\ files'[h].file = files[h].file
                          /\ files'[h] = NoFile <=> files[h] = NoFile
                          /\ files'[h] # NoFile => files'[h].path \in Paths

\* What was lost or moved stays so.
NothingFound == lost \subseteq lost' /\ moved \subseteq moved'

(* The fields of a call that goes on, and of what it works on. *)
LEMMA CallParts ==
    ASSUME FilesTypeOK, NEW t \in Threads
    PROVE  /\ call[t] \in Call
           /\ call[t].h \in Handles \cup {None}
           /\ call[t].sub \in Handles \cup {None}
           /\ call[t].h # None => /\ files[call[t].h] \in
                                     [path : Paths \cup {NoPath}, file : Inodes \cup {None}]
                                  /\ opened[call[t].h] \in
                                     [path : Paths \cup {NoPath}, sub : Handles \cup {None}]
BY CallFacts DEF FilesTypeOK

(* Calls that end or go on leave the table as it is, but for what they hold. *)
LEMMA TablesGo ==
    ASSUME FilesTypeOK, Shapes, TableInv, TableStays, NothingFound, UNCHANGED <<remote, issued>>,
           \/ AllGoOn
           \/ \E t \in Threads :
                /\ Ends(t) /\ call[t].op # "close"
                /\ \/ call[t].sub \in lost' \cup {None}
                   \/ \E h \in Handles : opened[h].sub = call[t].sub
    PROVE  TableInv'
<1>1. \A u \in Threads : \/ call'[u] = NoCall
                         \/ SameCall(call'[u], call[u])
  BY DEF AllGoOn, Ends, GoesOn
<1>2. \A u \in Threads : call[u].op = "close" => SameCall(call'[u], call[u])
  BY DEF AllGoOn, Ends, GoesOn
<1>3. \A u \in Threads :
        /\ call'[u].h # None => call'[u].h = call[u].h /\ call'[u].op = call[u].op
                                /\ call'[u].sub = call[u].sub
        /\ call'[u].sub # None => call'[u].sub = call[u].sub /\ call'[u].h = call[u].h
        /\ call'[u].op # "none" => call'[u].sub = call[u].sub /\ call'[u].h = call[u].h
                                   /\ call'[u].op = call[u].op
  BY <1>1, NoCallFacts DEF SameCall
<1>4. \A u \in Threads : call[u].h \in Handles \cup {None} /\ call[u].sub \in Handles \cup {None}
  BY CallParts
<1>5. Tabled'
  BY DEF TableInv, Tabled, TableStays
<1>6. InUse'
  BY <1>3, <1>4 DEF TableInv, InUse, TableStays
<1>7. Issued'
  <2>1. \A s \in Handles : s > issued' => remote'[s] = None
    BY DEF TableInv, Issued
  <2>2. \A h \in Handles : opened'[h].sub <= issued'
    BY DEF TableInv, Issued, TableStays
  <2>3. None <= issued /\ NoCall.sub = None
    BY NoCallFacts, NumberFacts DEF FilesTypeOK
  <2>4. \A u \in Threads : call'[u].sub <= issued'
    BY <1>1, <2>3 DEF TableInv, Issued, SameCall
  <2>5. QED
    BY <2>1, <2>2, <2>4 DEF Issued
<1>8. OneOwner'
  BY <1>1, <1>3, NoCallFacts DEF TableInv, OneOwner, TableStays
<1>9. \A h \in Handles : IsOpen(h)' <=> IsOpen(h)
  BY <1>1, <1>2, <1>3, NoCallFacts DEF IsOpen, TableStays, SameCall
<1>10. Live'
  BY <1>3, <1>9, NoCallFacts DEF TableInv, Live, TableStays
<1>11. WriteKept'
  BY <1>3, NoCallFacts DEF TableInv, WriteKept, TableStays, NothingFound
<1>12. NoHandleLeak'
  <2>1. ASSUME NEW s \in Handles, remote[s] # None, s \notin lost',
               \A h \in Handles : opened[h].sub # s
        PROVE  \E u \in Threads : call'[u].sub = s
    <3>1. PICK u \in Threads : call[u].sub = s
      BY <2>1 DEF TableInv, NoHandleLeak, NothingFound
    <3>2. SameCall(call'[u], call[u])
      BY <2>1, <3>1, NumberFacts DEF AllGoOn, Ends, GoesOn
    <3>3. QED
      BY <3>1, <3>2 DEF SameCall
  <2>2. QED
    BY <2>1 DEF NoHandleLeak, TableStays
<1>13. RightCall'
  BY <1>3, <1>4, NoCallFacts, CallFacts DEF TableInv, RightCall, TableStays, NothingFound,
     HandleOps, Shapes, Shaped
<1>14. RightFile'
  BY <1>9 DEF TableInv, RightFile, TableStays, NothingFound
<1>15. QED
  BY <1>5, <1>6, <1>7, <1>8, <1>10, <1>11, <1>12, <1>13, <1>14 DEF TableInv

(* A call on an open file, or on paths, that takes no new handle. *)
LEMMA TablesStart ==
    ASSUME FilesTypeOK, Shapes, TableInv, NEW t \in Threads, NEW c, Starts(t, c),
           UNCHANGED <<remote, issued, opened, files, opens, lost, moved>>,
           c.op \notin OpeningOps \cup {"close", "fetch"},
           c.h # None => IsOpen(c.h) /\ opened[c.h].sub # None /\ c.sub = opened[c.h].sub
    PROVE  TableInv'
<1>1. /\ c \in Call /\ c.h \in Handles \cup {None} /\ Shaped(c)
      /\ call'[t].h = c.h /\ call'[t].sub = c.sub /\ call'[t].op = c.op
      /\ c.h = None => c.sub = None
  BY CallFacts DEF Starts, SameCall, Shaped, HandleOps, OpeningOps
<1>2. \A u \in Threads \ {t} :
        call'[u].h = call[u].h /\ call'[u].sub = call[u].sub /\ call'[u].op = call[u].op
  BY DEF Starts, GoesOn, SameCall
<1>3. call[t].h = None /\ call[t].sub = None /\ call[t].op = "none"
  BY NoCallFacts DEF Starts
<1>4. \A u \in Threads : call[u].h \in Handles \cup {None} /\ call[u].sub \in Handles \cup {None}
  BY CallParts
<1>5. \A h \in Handles : IsOpen(h)' <=> IsOpen(h)
  BY <1>1, <1>2, <1>3 DEF IsOpen
<1>6. Tabled'
  BY DEF TableInv, Tabled
<1>7. InUse'
  BY <1>1, <1>2, <1>3, <1>4 DEF TableInv, InUse, IsOpen
<1>8. Issued'
  <2>1. issued \in Nat /\ None <= issued
    BY NumberFacts DEF FilesTypeOK
  <2>2. c.sub <= issued
    BY <1>1, <2>1 DEF TableInv, Issued
  <2>3. QED
    BY <1>1, <1>2, <2>2 DEF TableInv, Issued
<1>9. OneOwner'
  <2>1. ASSUME NEW u \in Threads, NEW h \in Handles,
               opened[h].sub = call'[u].sub, opened[h].sub # None
        PROVE  call'[u].h = h
    BY <1>1, <1>2, <2>1 DEF TableInv, OneOwner
  <2>2. ASSUME NEW u \in Threads, NEW v \in Threads, u # v,
               call'[u].sub = call'[v].sub, call'[u].sub # None
        PROVE  call'[u].h # None /\ call'[u].h = call'[v].h
    <3>1. CASE u # t /\ v # t
      BY <1>2, <2>2, <3>1 DEF TableInv, OneOwner
    <3>2. CASE u = t
      BY <1>1, <1>2, <2>2, <3>2 DEF TableInv, OneOwner
    <3>3. CASE v = t
      BY <1>1, <1>2, <2>2, <3>3 DEF TableInv, OneOwner
    <3>4. QED
      BY <3>1, <3>2, <3>3
  <2>3. QED
    BY <2>1, <2>2 DEF TableInv, OneOwner
<1>10. Live'
  BY <1>1, <1>2, <1>5 DEF TableInv, Live
<1>11. WriteKept'
  BY <1>1, <1>2 DEF TableInv, WriteKept, Shaped, HandleOps
<1>12. NoHandleLeak'
  <2>1. \A u \in Threads : call[u].sub # None => call'[u].sub = call[u].sub
    BY <1>2, <1>3
  <2>2. QED
    BY <2>1, NumberFacts DEF TableInv, NoHandleLeak
<1>13. RightCall'
  BY <1>1, <1>2 DEF TableInv, RightCall, RightFile, Shaped, HandleOps
<1>14. RightFile'
  BY <1>5 DEF TableInv, RightFile
<1>15. QED
  BY <1>6, <1>7, <1>8, <1>9, <1>10, <1>11, <1>12, <1>13, <1>14 DEF TableInv

(* A call that opens a file on the server. *)
LEMMA TablesOpen ==
    ASSUME FilesTypeOK, Shapes, TableInv, NEW t \in Threads, NEW c, Starts(t, c),
           NEW file \in Inodes, issued + 1 \in Handles,
           issued' = issued + 1, remote' = [remote EXCEPT ![issued + 1] = file],
           UNCHANGED <<opened, files, opens, lost>>, moved \subseteq moved',
           c.op \in OpeningOps \cup {"fetch"}, c.sub = issued + 1,
           c.h # None => /\ IsOpen(c.h) /\ opened[c.h].sub = None
                         /\ c.h \notin moved' => files[c.h].file = file
    PROVE  TableInv'
<1> DEFINE s == issued + 1
<1>1. /\ c \in Call /\ c.h \in Handles \cup {None} /\ Shaped(c)
      /\ call'[t].h = c.h /\ call'[t].sub = s /\ call'[t].op = c.op
      /\ s # None
  BY CallFacts, NumberFacts DEF Starts, SameCall
<1>2. \A u \in Threads \ {t} :
        call'[u].h = call[u].h /\ call'[u].sub = call[u].sub /\ call'[u].op = call[u].op
  BY DEF Starts, GoesOn, SameCall
<1>3. call[t].h = None /\ call[t].sub = None /\ call[t].op = "none"
  BY NoCallFacts DEF Starts
<1>4. \A u \in Threads : call[u].h \in Handles \cup {None} /\ call[u].sub \in Handles \cup {None}
  BY CallParts
<1>5. /\ \A h \in Handles : opened[h].sub # s /\ opened[h].sub \in Handles \cup {None}
      /\ \A u \in Threads : call[u].sub # s
      /\ \A r \in Handles : r # s => remote'[r] = remote[r]
      /\ remote'[s] = file /\ file # None
  BY NumberFacts DEF TableInv, Issued, FilesTypeOK
<1>6. \A h \in Handles : IsOpen(h)' <=> IsOpen(h)
  BY <1>1, <1>2, <1>3 DEF IsOpen, OpeningOps
<1>7. Tabled'
  BY DEF TableInv, Tabled
<1>8. InUse'
  BY <1>1, <1>2, <1>3, <1>4 DEF TableInv, InUse, IsOpen, OpeningOps
<1>9. Issued'
  <2>0. issued \in Nat
    BY NumberFacts DEF FilesTypeOK
  <2>1. issued \in Nat /\ \A h \in Handles : opened[h].sub <= issued + 1
    BY <1>5, <2>0, NumberFacts DEF TableInv, Issued
  <2>2. \A u \in Threads : call'[u].sub <= issued + 1
    BY <1>1, <1>2, <1>4, <2>1, NumberFacts DEF TableInv, Issued
  <2>3. \A r \in Handles : r > issued + 1 => remote'[r] = None
    BY <1>5, <2>1, NumberFacts DEF TableInv, Issued
  <2>4. QED
    BY <2>1, <2>2, <2>3 DEF Issued
<1> HIDE DEF s
<1>10. OneOwner'
  <2>1. ASSUME NEW u \in Threads, NEW h \in Handles,
               opened[h].sub = call'[u].sub, opened[h].sub # None
        PROVE  call'[u].h = h
    BY <1>1, <1>2, <1>5, <2>1 DEF TableInv, OneOwner
  <2>2. ASSUME NEW u \in Threads, NEW v \in Threads, u # v,
               call'[u].sub = call'[v].sub, call'[u].sub # None
        PROVE  call'[u].h # None /\ call'[u].h = call'[v].h
    BY <1>1, <1>2, <1>5, <2>2 DEF TableInv, OneOwner
  <2>3. QED
    BY <2>1, <2>2 DEF TableInv, OneOwner
<1>11. Live'
  <2>1. \A u \in Threads : call'[u].sub # None => remote'[call'[u].sub] # None
    BY <1>1, <1>2, <1>4, <1>5 DEF TableInv, Live
  <2>2. \A h \in Handles : IsOpen(h) /\ opened[h].sub # None => remote'[opened[h].sub] # None
    BY <1>5 DEF TableInv, Live
  <2>3. \A u \in Threads : call'[u].op = "close" /\ opened[call'[u].h].sub # None =>
                             remote'[opened[call'[u].h].sub] = None
    <3>1. SUFFICES ASSUME NEW u \in Threads, call'[u].op = "close",
                          opened[call'[u].h].sub # None
                   PROVE  remote'[opened[call'[u].h].sub] = None
      OBVIOUS
    <3>2. u # t /\ call[u].op = "close" /\ call[u].h = call'[u].h
      BY <1>1, <1>2, <3>1 DEF OpeningOps
    <3>3. call[u].h \in Handles
      BY <1>4, <3>2 DEF Shapes, Shaped
    <3>4. QED
      BY <1>5, <3>1, <3>2, <3>3 DEF TableInv, Live
  <2>4. QED
    BY <1>6, <2>1, <2>2, <2>3 DEF Live
<1>12. WriteKept'
  BY <1>1, <1>2 DEF TableInv, WriteKept, OpeningOps
<1>13. NoHandleLeak'
  <2>1. \A u \in Threads : call[u].sub # None => call'[u].sub = call[u].sub
    BY <1>2, <1>3
  <2>2. QED
    BY <1>1, <1>5, <2>1, NumberFacts DEF TableInv, NoHandleLeak
<1>14. RightCall'
  <2>1. ASSUME NEW u \in Threads, call'[u].op \in HandleOps \ {"write"}, call'[u].h \notin moved'
        PROVE  remote'[call'[u].sub] = files[call'[u].h].file
    <3>1. CASE u = t
      BY <1>1, <1>5, <2>1, <3>1 DEF Shaped, HandleOps, OpeningOps
    <3>2. CASE u # t
      <4>1. call[u].sub \in Handles /\ call[u].h \notin moved
        BY <1>2, <1>4, <2>1, <3>2 DEF Shapes, Shaped
      <4>2. QED
        BY <1>2, <1>5, <2>1, <3>2, <4>1 DEF TableInv, RightCall
    <3>3. QED
      BY <3>1, <3>2
  <2>2. QED
    BY <2>1 DEF RightCall
<1>15. RightFile'
  BY <1>5, <1>6 DEF TableInv, RightFile
<1>16. QED
  BY <1>7, <1>8, <1>9, <1>10, <1>11, <1>12, <1>13, <1>14, <1>15 DEF TableInv

(* The table gets an entry: for an open that sends nothing, or at the end of one that *)
(* opened the file on the server. *)
LEMMA TablesEnter ==
    ASSUME FilesTypeOK, Shapes, TableInv, NEW p \in Paths, NEW sub, NEW file,
           opens + 1 \in Handles, NewEntry(p, sub, file),
           UNCHANGED <<remote, issued, lost, moved>>,
           \/ sub = None /\ call' = call
           \/ \E t \in Threads : /\ Ends(t) /\ call[t].op \in OpeningOps
                                 /\ sub = call[t].sub /\ file = remote[sub]
    PROVE  TableInv'
<1> DEFINE g == opens + 1
<1>1. /\ opens' = g /\ g \in Handles /\ opens \in Nat
      /\ opened' = [opened EXCEPT ![g] = [path |-> p, sub |-> sub]]
      /\ files' = [files EXCEPT ![g] = [path |-> p, file |-> file]]
  BY NumberFacts DEF NewEntry, FilesTypeOK
<1>2. opened[g] = NotOpen /\ files[g] = NoFile
  BY <1>1 DEF TableInv, Tabled
<1> HIDE DEF g
<1>3. /\ opened'[g].path = p /\ opened'[g].sub = sub
      /\ files'[g].path = p /\ files'[g].file = file /\ files'[g] # NoFile
      /\ opened[g].sub = None
      /\ \A h \in Handles : h # g => opened'[h] = opened[h] /\ files'[h] = files[h]
  BY <1>1, <1>2, NumberFacts DEF FilesTypeOK, NotOpen, NoFile
<1>4. \A u \in Threads :
        /\ call[u].h \in Handles \cup {None} /\ call[u].sub \in Handles \cup {None}
        /\ call[u].h # g
  BY <1>1, <1>2, CallParts, NumberFacts DEF TableInv, InUse
<1>5. \A u \in Threads :
        /\ \/ call'[u] = NoCall /\ call[u].h = None /\ call[u].op # "close"
           \/ /\ call'[u].h = call[u].h /\ call'[u].sub = call[u].sub
              /\ call'[u].op = call[u].op
        /\ call'[u].h # None => /\ call'[u].h = call[u].h /\ call'[u].sub = call[u].sub
                                /\ call'[u].op = call[u].op
        /\ call'[u].sub # None => call'[u].h = call[u].h /\ call'[u].sub = call[u].sub
        /\ call'[u].op # "none" => /\ call'[u].h = call[u].h /\ call'[u].sub = call[u].sub
                                   /\ call'[u].op = call[u].op
  BY NoCallFacts DEF Ends, GoesOn, SameCall, Shapes, Shaped, OpeningOps
<1>6. \A h \in Handles : h # g => (IsOpen(h)' <=> IsOpen(h))
  BY <1>3, <1>5, NoCallFacts DEF IsOpen
<1>7. Tabled'
  <2>1. \A h \in Handles : h > opens' => h # g /\ h > opens
    BY <1>1, NumberFacts DEF g
  <2>2. QED
    BY <1>3, <2>1 DEF TableInv, Tabled
<1>8. InUse'
  BY <1>3, <1>4, <1>5 DEF TableInv, InUse
\* The handle the entry gets belonged to the call that ends.
<1>9. sub # None =>
        /\ sub \in Handles /\ sub <= issued /\ remote[sub] # None /\ remote[sub] = file
        /\ \A h \in Handles : opened[h].sub # sub
        /\ \A u \in Threads : call'[u].sub # sub
  <2>1. SUFFICES ASSUME sub # None
                 PROVE  /\ sub \in Handles /\ sub <= issued /\ remote[sub] # None
                        /\ remote[sub] = file
                        /\ \A h \in Handles : opened[h].sub # sub
                        /\ \A u \in Threads : call'[u].sub # sub
    OBVIOUS
  <2>2. PICK t \in Threads : /\ Ends(t) /\ call[t].op \in OpeningOps
                             /\ sub = call[t].sub /\ file = remote[sub]
    BY <2>1
  <2>3. call[t].h = None
    BY <2>2 DEF Shapes, Shaped, OpeningOps
  <2>4. sub \in Handles /\ sub <= issued /\ remote[sub] # None /\ remote[sub] = file
    BY <1>4, <2>1, <2>2 DEF TableInv, Issued, Live
  <2>5. \A h \in Handles : opened[h].sub # sub
    BY <2>1, <2>2, <2>3, NumberFacts DEF TableInv, OneOwner
  <2>6. \A u \in Threads : call'[u].sub # sub
    BY <1>5, <2>1, <2>2, <2>3, NoCallFacts DEF TableInv, OneOwner, Ends
  <2>7. QED
    BY <2>4, <2>5, <2>6
<1>10. Issued'
  <2>1. None <= issued
    BY NumberFacts DEF FilesTypeOK
  <2>2. QED
    BY <1>3, <1>5, <1>9, <2>1, NoCallFacts DEF TableInv, Issued
<1>11. OneOwner'
  <2>1. \A h, k \in Handles : opened'[h].sub = opened'[k].sub /\ opened'[h].sub # None => h = k
    BY <1>3, <1>9 DEF TableInv, OneOwner
  <2>2. \A u \in Threads, h \in Handles :
          opened'[h].sub = call'[u].sub /\ opened'[h].sub # None => call'[u].h = h
    BY <1>3, <1>5, <1>9 DEF TableInv, OneOwner
  <2>3. \A u, v \in Threads :
          call'[u].sub = call'[v].sub /\ call'[u].sub # None =>
              u = v \/ (call'[u].h # None /\ call'[u].h = call'[v].h)
    BY <1>5 DEF TableInv, OneOwner
  <2>4. QED
    BY <2>1, <2>2, <2>3 DEF OneOwner
<1>12. Live'
  <2>1. \A u \in Threads : call'[u].sub # None => remote[call'[u].sub] # None
    BY <1>5 DEF TableInv, Live
  <2>2. \A h \in Handles : IsOpen(h)' /\ opened'[h].sub # None => remote[opened'[h].sub] # None
    BY <1>3, <1>6, <1>9 DEF TableInv, Live
  <2>3. \A u \in Threads : call'[u].op = "close" =>
          call[u].op = "close" /\ call'[u].h = call[u].h /\ call[u].h \in Handles \ {g}
    BY <1>4, <1>5 DEF Shapes, Shaped
  <2>4. \A u \in Threads : call'[u].op = "close" /\ opened'[call'[u].h].sub # None =>
                             remote[opened'[call'[u].h].sub] = None
    BY <1>3, <2>3 DEF TableInv, Live
  <2>5. QED
    BY <2>1, <2>2, <2>4 DEF Live
<1>13. WriteKept'
  <2>1. \A u \in Threads : call'[u].op = "write" => call'[u].h \in Handles \ {g}
    BY <1>4, <1>5 DEF Shapes, Shaped, HandleOps
  <2>2. QED
    BY <1>3, <1>5, <2>1 DEF TableInv, WriteKept
<1>14. NoHandleLeak'
  <2>1. ASSUME NEW s \in Handles, remote[s] # None, s \notin lost,
               \A h \in Handles : opened'[h].sub # s
        PROVE  \E u \in Threads : call'[u].sub = s
    <3>1. s # sub /\ s # None /\ \A h \in Handles : opened[h].sub # s
      BY <1>1, <1>3, <2>1, NumberFacts
    <3>2. PICK u \in Threads : call[u].sub = s
      BY <2>1, <3>1 DEF TableInv, NoHandleLeak
    <3>3. call'[u].sub = s
      BY <3>1, <3>2, NoCallFacts DEF Ends, GoesOn, SameCall
    <3>4. QED
      BY <3>3
  <2>2. QED
    BY <2>1 DEF NoHandleLeak
<1>15. RightCall'
  <2>1. \A u \in Threads : call'[u].op \in HandleOps => call'[u].h \in Handles \ {g}
    BY <1>4, <1>5 DEF Shapes, Shaped, HandleOps
  <2>2. QED
    BY <1>3, <1>5, <2>1 DEF TableInv, RightCall, HandleOps
<1>16. RightFile'
  BY <1>3, <1>6, <1>9 DEF TableInv, RightFile
<1>17. QED
  BY <1>7, <1>8, <1>10, <1>11, <1>12, <1>13, <1>14, <1>15, <1>16 DEF TableInv

(* A file is closed on the server. *)
LEMMA TablesClose ==
    ASSUME FilesTypeOK, Shapes, TableInv, NEW t \in Threads, NEW c, Starts(t, c),
           UNCHANGED <<issued, opened, files, opens, lost, moved>>,
           c.op = "close", c.h # None, c.sub = None, IsOpen(c.h),
           \A u \in Threads : call[u].h # c.h,
           remote' = [s \in Handles |-> IF s = opened[c.h].sub THEN None ELSE remote[s]]
    PROVE  TableInv'
<1>1. /\ c.h \in Handles
      /\ call'[t].h = c.h /\ call'[t].sub = None /\ call'[t].op = "close"
  BY CallFacts DEF Starts, SameCall
<1>2. \A u \in Threads \ {t} :
        call'[u].h = call[u].h /\ call'[u].sub = call[u].sub /\ call'[u].op = call[u].op
  BY DEF Starts, GoesOn, SameCall
<1>3. call[t].h = None /\ call[t].sub = None /\ call[t].op = "none"
  BY NoCallFacts DEF Starts
<1>4. \A u \in Threads : call[u].h \in Handles \cup {None} /\ call[u].sub \in Handles \cup {None}
  BY CallParts
<1>5. \A h \in Handles : IsOpen(h)' <=> IsOpen(h) /\ h # c.h
  BY <1>1, <1>2, <1>3 DEF IsOpen
\* The handle that is closed is in nobody else's hands.
<1>6. opened[c.h].sub # None =>
        /\ \A u \in Threads : call[u].sub # opened[c.h].sub
        /\ \A h \in Handles : opened[h].sub = opened[c.h].sub => h = c.h
  BY <1>1 DEF TableInv, OneOwner
<1>7. /\ \A s \in Handles : s # opened[c.h].sub => remote'[s] = remote[s]
      /\ \A s \in Handles : remote'[s] = None \/ remote'[s] = remote[s]
      /\ \A h \in Handles : opened[h].sub \in Handles \cup {None}
  BY DEF FilesTypeOK
<1>8. Tabled'
  BY DEF TableInv, Tabled
<1>9. InUse'
  <2>1. ASSUME NEW u \in Threads, call'[u].h # None
        PROVE  /\ files[call'[u].h] # NoFile
               /\ call'[u].op = "close" =>
                    \A v \in Threads : call'[v].h = call'[u].h => v = u
    <3>1. CASE u = t
      BY <1>1, <1>2, <3>1 DEF IsOpen
    <3>2. CASE u # t
      BY <1>1, <1>2, <2>1, <3>2 DEF TableInv, InUse
    <3>3. QED
      BY <3>1, <3>2
  <2>2. QED
    BY <2>1 DEF InUse
<1>10. Issued'
  <2>1. None <= issued
    BY NumberFacts DEF FilesTypeOK
  <2>2. \A s \in Handles : s > issued => remote'[s] = None
    BY <1>7 DEF TableInv, Issued
  <2>3. \A u \in Threads : call'[u].sub <= issued
    BY <1>1, <1>2, <2>1 DEF TableInv, Issued
  <2>4. QED
    BY <2>2, <2>3 DEF TableInv, Issued
<1>11. OneOwner'
  <2>1. \A u \in Threads : call'[u].sub # None => u # t
    BY <1>1
  <2>2. QED
    BY <1>2, <2>1 DEF TableInv, OneOwner
<1>12. Live'
  <2>1. \A u \in Threads : call'[u].sub # None => remote'[call'[u].sub] # None
    BY <1>1, <1>2, <1>4, <1>6, <1>7 DEF TableInv, Live
  <2>2. \A h \in Handles : IsOpen(h)' /\ opened[h].sub # None => remote'[opened[h].sub] # None
    BY <1>5, <1>6, <1>7 DEF TableInv, Live
  <2>3. ASSUME NEW u \in Threads, call'[u].op = "close", opened[call'[u].h].sub # None
        PROVE  remote'[opened[call'[u].h].sub] = None
    <3>1. CASE u = t
      BY <1>1, <1>7, <2>3, <3>1
    <3>2. CASE u # t
      <4>1. call[u].h \in Handles /\ call[u].op = "close" /\ call'[u].h = call[u].h
        BY <1>2, <1>4, <2>3, <3>2 DEF Shapes, Shaped
      <4>2. remote[opened[call[u].h].sub] = None
        BY <2>3, <4>1 DEF TableInv, Live
      <4>3. QED
        BY <1>7, <2>3, <4>1, <4>2
    <3>3. QED
      BY <3>1, <3>2
  <2>4. QED
    BY <2>1, <2>2, <2>3 DEF Live
<1>13. WriteKept'
  BY <1>1, <1>2 DEF TableInv, WriteKept
<1>14. NoHandleLeak'
  <2>1. \A u \in Threads : call[u].sub # None => call'[u].sub = call[u].sub
    BY <1>2, <1>3
  <2>2. QED
    BY <1>7, <2>1, NumberFacts DEF TableInv, NoHandleLeak
<1>15. RightCall'
  <2>1. ASSUME NEW u \in Threads, call'[u].op \in HandleOps \ {"write"}, call'[u].h \notin moved
        PROVE  remote'[call'[u].sub] = files[call'[u].h].file
    <3>1. u # t /\ call[u].op \in HandleOps
      BY <1>1, <1>2, <2>1 DEF HandleOps
    <3>2. call[u].sub \in Handles
      BY <1>4, <3>1 DEF Shapes, Shaped
    <3>3. call[u].sub # opened[c.h].sub
      BY <1>6, <3>2, NumberFacts
    <3>4. QED
      BY <1>2, <1>7, <2>1, <3>1, <3>2, <3>3 DEF TableInv, RightCall
  <2>2. QED
    BY <2>1 DEF RightCall
<1>16. RightFile'
  BY <1>5, <1>6, <1>7 DEF TableInv, RightFile
<1>17. QED
  BY <1>8, <1>9, <1>10, <1>11, <1>12, <1>13, <1>14, <1>15, <1>16 DEF TableInv

(* The end of close: the entry goes, or stays for a file that is closed. *)
LEMMA TablesClosed ==
    ASSUME FilesTypeOK, Shapes, TableInv, NEW t \in Threads, Ends(t), call[t].op = "close",
           UNCHANGED <<remote, issued, opens, lost, moved>>,
           opened' \in {opened, [opened EXCEPT ![call[t].h] = NotOpen]},
           files' = [files EXCEPT ![call[t].h] = NoFile]
    PROVE  TableInv'
<1> DEFINE g == call[t].h
<1>1. g \in Handles /\ call[t].sub = None
  BY CallParts DEF Shapes, Shaped, OpeningOps, HandleOps
<1>2. \A u \in Threads : u # t => call[u].h # g
  BY <1>1, NumberFacts DEF TableInv, InUse
<1>3. \A u \in Threads :
        /\ call[u].h \in Handles \cup {None} /\ call[u].sub \in Handles \cup {None}
        /\ call'[u].h # g
        /\ u = t \/ (call'[u].h = call[u].h /\ call'[u].sub = call[u].sub
                     /\ call'[u].op = call[u].op)
        /\ call'[u].op # "none" => u # t
        /\ call'[u].sub # None => u # t
        /\ call'[u].h # None => u # t
  BY <1>1, <1>2, CallParts, NoCallFacts, NumberFacts DEF Ends, GoesOn, SameCall
<1>4. /\ \A h \in Handles : h # g => opened'[h] = opened[h] /\ files'[h] = files[h]
      /\ opened'[g] \in {opened[g], NotOpen}
      /\ files'[g] = NoFile
      /\ \A h \in Handles : opened'[h].sub # None => opened'[h] = opened[h]
  BY <1>1 DEF FilesTypeOK, NotOpen
<1>5. \A h \in Handles : /\ h # g => (IsOpen(h)' <=> IsOpen(h))
                         /\ h = g => ~IsOpen(h)'
  BY <1>1, <1>3, <1>4 DEF IsOpen
<1>6. \A h \in Handles : IsOpen(h)' => IsOpen(h) /\ h # g
  BY <1>5
<1> HIDE DEF g
<1>7. Tabled'
  <2>1. g <= opens
    BY <1>1, NumberFacts DEF TableInv, Tabled, InUse, FilesTypeOK, g
  <2>2. QED
    BY <1>4, <2>1 DEF TableInv, Tabled
<1>8. InUse'
  BY <1>3, <1>4 DEF TableInv, InUse
<1>9. Issued'
  <2>1. None <= issued
    BY NumberFacts DEF FilesTypeOK
  <2>2. \A h \in Handles : opened'[h].sub <= issued
    BY <1>4, <2>1 DEF TableInv, Issued, NotOpen
  <2>3. \A u \in Threads : call'[u].sub <= issued
    BY <1>3, <2>1 DEF TableInv, Issued
  <2>4. QED
    BY <2>2, <2>3 DEF TableInv, Issued
<1>10. OneOwner'
  <2>1. \A h, k \in Handles : opened'[h].sub = opened'[k].sub /\ opened'[h].sub # None => h = k
    BY <1>4 DEF TableInv, OneOwner
  <2>2. \A u \in Threads, h \in Handles :
          opened'[h].sub = call'[u].sub /\ opened'[h].sub # None => call'[u].h = h
    BY <1>3, <1>4 DEF TableInv, OneOwner
  <2>3. \A u, v \in Threads :
          call'[u].sub = call'[v].sub /\ call'[u].sub # None =>
              u = v \/ (call'[u].h # None /\ call'[u].h = call'[v].h)
    BY <1>3 DEF TableInv, OneOwner
  <2>4. QED
    BY <2>1, <2>2, <2>3 DEF OneOwner
<1>11. Live'
  <2>1. \A u \in Threads : call'[u].sub # None => remote[call'[u].sub] # None
    BY <1>3 DEF TableInv, Live
  <2>2. \A h \in Handles : IsOpen(h)' /\ opened'[h].sub # None => remote[opened'[h].sub] # None
    BY <1>4, <1>6 DEF TableInv, Live
  <2>3. \A u \in Threads : call'[u].op = "close" =>
          call[u].op = "close" /\ call'[u].h = call[u].h /\ call[u].h \in Handles \ {g}
    BY <1>2, <1>3 DEF Shapes, Shaped, g
  <2>4. \A u \in Threads : call'[u].op = "close" /\ opened'[call'[u].h].sub # None =>
                             remote[opened'[call'[u].h].sub] = None
    BY <1>4, <2>3 DEF TableInv, Live
  <2>5. QED
    BY <2>1, <2>2, <2>4 DEF Live
<1>12. WriteKept'
  <2>1. \A u \in Threads : call'[u].op = "write" =>
          call[u].op = "write" /\ call'[u].h = call[u].h /\ call'[u].sub = call[u].sub
          /\ call[u].h \in Handles \ {g}
    BY <1>2, <1>3 DEF Shapes, Shaped, HandleOps, g
  <2>2. QED
    BY <1>4, <2>1 DEF TableInv, WriteKept
<1>13. NoHandleLeak'
  <2>1. ASSUME NEW s \in Handles, remote[s] # None, s \notin lost,
               \A h \in Handles : opened'[h].sub # s
        PROVE  \E u \in Threads : call'[u].sub = s
    <3>1. \A h \in Handles : opened[h].sub # s
      <4>1. opened[g].sub # s
        BY <1>1, <2>1, NumberFacts DEF TableInv, Live, g
      <4>2. QED
        BY <1>4, <2>1, <4>1
    <3>2. PICK u \in Threads : call[u].sub = s
      BY <2>1, <3>1 DEF TableInv, NoHandleLeak
    <3>3. call'[u].sub = s
      BY <1>1, <1>3, <3>2, NumberFacts
    <3>4. QED
      BY <3>3
  <2>2. QED
    BY <2>1 DEF NoHandleLeak
<1>14. RightCall'
  <2>1. \A u \in Threads : call'[u].op \in HandleOps =>
          call[u].op = call'[u].op /\ call'[u].h = call[u].h /\ call'[u].sub = call[u].sub
          /\ call[u].h \in Handles \ {g}
    BY <1>2, <1>3 DEF Shapes, Shaped, HandleOps, g
  <2>2. QED
    BY <1>4, <2>1 DEF TableInv, RightCall
<1>15. RightFile'
  BY <1>4, <1>6 DEF TableInv, RightFile
<1>16. QED
  BY <1>7, <1>8, <1>9, <1>10, <1>11, <1>12, <1>13, <1>14, <1>15 DEF TableInv

(* The end of a read: its handle is kept, and the one it replaces is lost. *)
LEMMA TablesRead ==
    ASSUME FilesTypeOK, Shapes, TableInv, NEW t \in Threads, Ends(t), call[t].op = "read",
           UNCHANGED <<remote, issued, files, opens, moved>>,
           opened' = [opened EXCEPT ![call[t].h].sub = call[t].sub],
           lost' = lost \cup ({opened[call[t].h].sub} \ {None, call[t].sub})
    PROVE  TableInv'
<1> DEFINE g == call[t].h
           s == call[t].sub
<1>1. g \in Handles /\ s \in Handles /\ s # None
  BY CallParts, NumberFacts DEF Shapes, Shaped, OpeningOps, HandleOps
<1>2. \A u \in Threads : call[u].op = "close" => call[u].h # g
  BY <1>1, NumberFacts DEF TableInv, InUse
<1>3. \A u \in Threads :
        /\ call[u].h \in Handles \cup {None} /\ call[u].sub \in Handles \cup {None}
        /\ u = t \/ (call'[u].h = call[u].h /\ call'[u].sub = call[u].sub
                     /\ call'[u].op = call[u].op)
        /\ call'[u].op # "none" => u # t
        /\ call'[u].sub # None => u # t
        /\ call'[u].h # None => u # t
        /\ call'[u].op = "close" <=> u # t /\ call[u].op = "close"
  BY CallParts, NoCallFacts, NumberFacts DEF Ends, GoesOn, SameCall
<1>4. /\ \A h \in Handles : h # g => opened'[h] = opened[h]
      /\ opened'[g].path = opened[g].path /\ opened'[g].sub = s
      /\ opened[g].sub \in Handles \cup {None}
  BY <1>1 DEF FilesTypeOK
<1>5. \A h \in Handles : IsOpen(h)' <=> IsOpen(h)
  BY <1>3 DEF IsOpen
\* Nobody else has the handle.
<1>6. /\ \A h \in Handles : opened[h].sub = s => h = g
      /\ \A u \in Threads : call[u].sub = s => call[u].h = g
      /\ remote[s] # None /\ s <= issued
  <2>1. \A u \in Threads : call[u].sub = s => call[u].h = g
    BY <1>1 DEF TableInv, OneOwner
  <2>2. QED
    BY <1>1, <2>1 DEF TableInv, OneOwner, Live, Issued
<1>7. files[g] # NoFile /\ g <= opens
  <2>1. g # None
    BY <1>1, NumberFacts
  <2>2. files[g] # NoFile
    BY <2>1 DEF TableInv, InUse
  <2>3. g \in Nat /\ opens \in Nat
    BY <1>1, NumberFacts DEF FilesTypeOK
  <2>4. ~(g > opens)
    BY <1>1, <2>2 DEF TableInv, Tabled
  <2>5. QED
    BY <2>2, <2>3, <2>4
<1>8. g \notin moved => remote[s] = files[g].file
  BY DEF TableInv, RightCall, HandleOps
<1>9. /\ \A r \in lost : r \in lost'
      /\ opened[g].sub # None => opened[g].sub = s \/ opened[g].sub \in lost'
  OBVIOUS
<1> HIDE DEF g, s
<1>10. Tabled'
  <2>1. \A h \in Handles \ {g} : opened'[h] = opened[h]
    BY <1>4
  <2>2. ASSUME NEW h \in Handles, h > opens PROVE h # g
    BY <1>1, <1>7, <2>2, NumberFacts DEF FilesTypeOK
  <2>3. \A h \in Handles : h > opens' => opened'[h] = NotOpen /\ files'[h] = NoFile
    BY <2>1, <2>2 DEF TableInv, Tabled
  <2>4. \A h \in Handles :
          files'[h] # NoFile => opened'[h].path \in Paths /\ files'[h].path \in Paths
    BY <1>4, <2>1 DEF TableInv, Tabled
  <2>5. QED
    BY <2>3, <2>4 DEF Tabled
<1>11. InUse'
  BY <1>3 DEF TableInv, InUse
<1>12. Issued'
  <2>1. None <= issued
    BY NumberFacts DEF FilesTypeOK
  <2>2. \A h \in Handles : opened'[h].sub <= issued
    BY <1>4, <1>6 DEF TableInv, Issued
  <2>3. \A u \in Threads : call'[u].sub <= issued
    BY <1>3, <2>1 DEF TableInv, Issued
  <2>4. QED
    BY <2>2, <2>3 DEF TableInv, Issued
<1>13. OneOwner'
  <2>1. \A h, k \in Handles : opened'[h].sub = opened'[k].sub /\ opened'[h].sub # None => h = k
    BY <1>4, <1>6 DEF TableInv, OneOwner
  <2>2. \A u \in Threads, h \in Handles :
          opened'[h].sub = call'[u].sub /\ opened'[h].sub # None => call'[u].h = h
    BY <1>3, <1>4, <1>6 DEF TableInv, OneOwner
  <2>3. \A u, v \in Threads :
          call'[u].sub = call'[v].sub /\ call'[u].sub # None =>
              u = v \/ (call'[u].h # None /\ call'[u].h = call'[v].h)
    BY <1>3 DEF TableInv, OneOwner
  <2>4. QED
    BY <2>1, <2>2, <2>3 DEF OneOwner
<1>14. Live'
  <2>1. \A u \in Threads : call'[u].sub # None => remote[call'[u].sub] # None
    BY <1>3 DEF TableInv, Live
  <2>2. \A h \in Handles : IsOpen(h)' /\ opened'[h].sub # None => remote[opened'[h].sub] # None
    BY <1>4, <1>5, <1>6 DEF TableInv, Live
  <2>3. \A u \in Threads : call'[u].op = "close" =>
          call[u].op = "close" /\ call'[u].h = call[u].h /\ call[u].h \in Handles \ {g}
    BY <1>2, <1>3 DEF Shapes, Shaped, g
  <2>4. ASSUME NEW u \in Threads, call'[u].op = "close", opened'[call'[u].h].sub # None
        PROVE  remote[opened'[call'[u].h].sub] = None
    <3>1. call[u].op = "close" /\ opened'[call'[u].h].sub = opened[call[u].h].sub
      BY <1>4, <2>3, <2>4
    <3>2. QED
      BY <2>4, <3>1 DEF TableInv, Live
  <2>5. QED
    BY <2>1, <2>2, <2>4 DEF Live
<1>15. WriteKept'
  <2>1. ASSUME NEW u \in Threads, call'[u].op = "write"
        PROVE  call'[u].sub \in lost' \/ opened'[call'[u].h].sub = call'[u].sub
    <3>1. /\ call[u].op = "write" /\ call'[u].h = call[u].h /\ call'[u].sub = call[u].sub
          /\ call[u].h \in Handles /\ call[u].sub # None
      BY <1>3, <2>1 DEF Shapes, Shaped, HandleOps
    <3>2. call[u].sub \in lost \/ opened[call[u].h].sub = call[u].sub
      BY <3>1 DEF TableInv, WriteKept
    <3>3. QED
      BY <1>4, <1>9, <3>1, <3>2
  <2>2. QED
    BY <2>1 DEF WriteKept
<1>16. NoHandleLeak'
  <2>1. ASSUME NEW r \in Handles, remote[r] # None, r \notin lost',
               \A h \in Handles : opened'[h].sub # r
        PROVE  \E u \in Threads : call'[u].sub = r
    <3>1. r # s /\ r # None /\ r \notin lost
      BY <1>1, <1>4, <1>9, <2>1, NumberFacts
    <3>2. \A h \in Handles : opened[h].sub # r
      BY <1>4, <1>9, <2>1, <3>1
    <3>3. PICK u \in Threads : call[u].sub = r
      BY <2>1, <3>1, <3>2 DEF TableInv, NoHandleLeak
    <3>4. call'[u].sub = r
      BY <1>3, <3>1, <3>3 DEF s
    <3>5. QED
      BY <3>4
  <2>2. QED
    BY <2>1 DEF NoHandleLeak
<1>17. RightCall'
  <2>1. \A u \in Threads : call'[u].op \in HandleOps =>
          call[u].op = call'[u].op /\ call'[u].h = call[u].h /\ call'[u].sub = call[u].sub
    BY <1>3 DEF HandleOps
  <2>2. QED
    BY <2>1 DEF TableInv, RightCall
<1>18. RightFile'
  BY <1>4, <1>5, <1>8 DEF TableInv, RightFile
<1>19. QED
  BY <1>10, <1>11, <1>12, <1>13, <1>14, <1>15, <1>16, <1>17, <1>18 DEF TableInv

\* The read of thread t, which has opened its file, reads it; the others wait.
Fetches(t) ==
    /\ call[t].op = "fetch"
    /\ call' \in [Threads -> Call]
    /\ call'[t].op = "read" /\ call'[t].p = call[t].p /\ call'[t].q = call[t].q
    /\ call'[t].h = call[t].h /\ call'[t].sub = call[t].sub
    /\ \A u \in Threads \ {t} : call'[u] = call[u]

(* It conflicts with the same calls as before, and holds the same handles. *)
LEMMA TablesFetch ==
    ASSUME FilesTypeOK, Shapes, Compatible, TableInv, NEW t \in Threads, Fetches(t),
           UNCHANGED <<remote, issued, opened, files, opens, lost, moved>>
    PROVE  Shapes' /\ Compatible' /\ TableInv'
<1>1. \A u \in Threads :
        /\ call'[u].h = call[u].h /\ call'[u].sub = call[u].sub
        /\ call'[u].p = call[u].p /\ call'[u].q = call[u].q
        /\ call'[u].op = call[u].op \/ (u = t /\ call[u].op = "fetch" /\ call'[u].op = "read")
        /\ u # t => call'[u] = call[u]
  BY DEF Fetches
<1>2. Shapes'
  <2>1. Shaped(call'[t])
    BY <1>1 DEF Fetches, Shapes, Shaped, HandleOps, OpeningOps, MovingOps
  <2>2. QED
    BY <1>1, <2>1 DEF Shapes, Shaped
<1>3. Compatible'
  <2>1. ASSUME NEW u \in Threads, NEW v \in Threads, u # v, call'[u] # NoCall, call'[v] # NoCall
        PROVE  ~Conflict(call[u], call[v])'
    <3>1. call[u] # NoCall /\ call[v] # NoCall
      BY <1>1, <2>1, NoCallFacts DEF Fetches
    <3>2. ~Conflict(call[u], call[v])
      BY <2>1, <3>1 DEF Compatible
    <3>3. PathsOf(call[u])' = PathsOf(call[u]) /\ PathsOf(call[v])' = PathsOf(call[v])
      BY <1>1 DEF PathsOf
    <3>4. CASE u # t /\ v # t
      BY <1>1, <3>2, <3>3, <3>4 DEF Conflict
    <3>5. CASE u = t
      <4>1. call[u].op = "fetch" /\ call'[u].op = "read" /\ call'[v].op = call[v].op
        BY <1>1, <2>1, <3>5 DEF Fetches
      <4>2. QED
        BY <3>2, <3>3, <4>1 DEF Conflict, Namespace
    <3>6. CASE v = t
      <4>1. call[v].op = "fetch" /\ call'[v].op = "read" /\ call'[u].op = call[u].op
        BY <1>1, <2>1, <3>6 DEF Fetches
      <4>2. QED
        BY <3>2, <3>3, <4>1 DEF Conflict, Namespace
    <3>7. QED
      BY <3>4, <3>5, <3>6
  <2>2. QED
    BY <2>1 DEF Compatible
<1>4. \A u \in Threads : call'[u].op = "close" <=> call[u].op = "close"
  BY <1>1
<1>5. \A h \in Handles : IsOpen(h)' <=> IsOpen(h)
  BY <1>1, <1>4 DEF IsOpen
<1>6. Tabled' /\ InUse' /\ Issued' /\ OneOwner'
  BY <1>1, <1>4 DEF TableInv, Tabled, InUse, Issued, OneOwner
<1>7. Live'
  BY <1>1, <1>4, <1>5 DEF TableInv, Live
<1>8. WriteKept' /\ NoHandleLeak'
  BY <1>1 DEF TableInv, WriteKept, NoHandleLeak
<1>9. RightCall'
  BY <1>1 DEF TableInv, RightCall, HandleOps
<1>10. RightFile'
  BY <1>5 DEF TableInv, RightFile
<1>11. QED
  BY <1>2, <1>3, <1>6, <1>7, <1>8, <1>9, <1>10 DEF TableInv

-----------------------------------------------------------------------------
(* The steps, by what they count: a handle is left for every call.         *)

(* The calls that open something are finitely many. *)
LEMMA PendingFacts ==
    ASSUME FilesTypeOK, Shapes
    PROVE  /\ Cardinality(Pending) \in Nat
           /\ AllGoOn \/ (\E t \in Threads : Ends(t)) =>
                Cardinality(Pending)' \in Nat /\ Cardinality(Pending)' <= Cardinality(Pending)
           /\ \A t \in Threads : Ends(t) /\ call[t].op \in OpeningOps =>
                Cardinality(Pending)' \in Nat /\ Cardinality(Pending)' + 1 = Cardinality(Pending)
           /\ \A t \in Threads : \A c : Starts(t, c) =>
                /\ Cardinality(Pending)' \in Nat
                /\ Cardinality(Pending)' <= Cardinality(Pending) + 1
<1>1. IsFiniteSet(Pending) /\ Cardinality(Pending) \in Nat
  BY ConstantsAssumption, FS_Subset, FS_CardinalityType DEF Pending
<1>2. ASSUME AllGoOn \/ \E t \in Threads : Ends(t)
      PROVE  Cardinality(Pending)' \in Nat /\ Cardinality(Pending)' <= Cardinality(Pending)
  <2>1. Pending' \subseteq Pending
    BY <1>2, NoCallFacts DEF Pending, AllGoOn, Ends, GoesOn, SameCall, OpeningOps
  <2>2. QED
    BY <1>1, <2>1, FS_Subset, FS_CardinalityType
<1>3. ASSUME NEW t \in Threads, Ends(t), call[t].op \in OpeningOps
      PROVE  Cardinality(Pending)' \in Nat /\ Cardinality(Pending)' + 1 = Cardinality(Pending)
  <2>1. Pending' = Pending \ {t} /\ t \in Pending
    BY <1>3, NoCallFacts DEF Pending, Ends, GoesOn, SameCall, OpeningOps
  <2>2. Cardinality(Pending)' = Cardinality(Pending) - 1 /\ IsFiniteSet(Pending')
    BY <1>1, <2>1, FS_RemoveElement
  <2>3. Cardinality(Pending)' \in Nat
    BY <2>2, FS_CardinalityType
  <2>4. QED
    BY <1>1, <2>2, <2>3
<1>4. ASSUME NEW t \in Threads, NEW c, Starts(t, c)
      PROVE  /\ Cardinality(Pending)' \in Nat
             /\ Cardinality(Pending)' <= Cardinality(Pending) + 1
  <2>1. Pending' \subseteq Pending \cup {t}
    BY <1>4 DEF Pending, Starts, GoesOn, SameCall
  <2>2. IsFiniteSet(Pending \cup {t}) /\ Cardinality(Pending \cup {t}) <= Cardinality(Pending) + 1
    <3>1. /\ IsFiniteSet(Pending \cup {t})
          /\ Cardinality(Pending \cup {t})
               = IF t \in Pending THEN Cardinality(Pending) ELSE Cardinality(Pending) + 1
      BY <1>1, FS_AddElement, Zenon
    <3>2. QED
      BY <1>1, <3>1
  <2>3. IsFiniteSet(Pending') /\ Cardinality(Pending)' <= Cardinality(Pending \cup {t})
    BY <2>1, <2>2, FS_Subset
  <2>4. Cardinality(Pending)' \in Nat /\ Cardinality(Pending \cup {t}) \in Nat
    BY <2>2, <2>3, FS_CardinalityType
  <2>5. QED
    BY <1>1, <2>2, <2>3, <2>4
<1>5. QED
  BY <1>1, <1>2, <1>3, <1>4

(* The counters are numbers. *)
LEMMA CounterFacts ==
    ASSUME FilesTypeOK
    PROVE  /\ calls \in Nat /\ calls <= MaxCalls /\ edits \in Nat /\ edits <= MaxEdits
           /\ issued \in Nat /\ opens \in Nat
           /\ \A p \in Paths : dir[p] \in Nat
           /\ \A s \in Handles : remote[s] \in Nat
<1>1. calls \in Nat /\ calls <= MaxCalls /\ edits \in Nat /\ edits <= MaxEdits
  BY NumberFacts DEF FilesTypeOK
<1>2. Handles \cup {None} \subseteq Nat /\ Inodes \cup {None} \subseteq Nat
  BY NumberFacts
<1>3. issued \in Nat /\ opens \in Nat
  BY <1>2 DEF FilesTypeOK
<1>4. (\A p \in Paths : dir[p] \in Nat) /\ (\A s \in Handles : remote[s] \in Nat)
  BY <1>2 DEF FilesTypeOK
<1>5. QED
  BY <1>1, <1>3, <1>4

(* Calls that end or go on take no handle. *)
LEMMA CountedGo ==
    ASSUME FilesTypeOK, Shapes, Counted, UNCHANGED <<dir, remote, issued, opens, calls>>,
           AllGoOn \/ \E t \in Threads : Ends(t)
    PROVE  Counted'
BY PendingFacts, CounterFacts DEF Counted

(* A call that begins takes one handle of the server, and will take one of the client. *)
LEMMA CountedStart ==
    ASSUME FilesTypeOK, Shapes, Counted, opens' = opens, issued' \in {issued, issued + 1},
           NEW t \in Threads, NEW c, Starts(t, c),
           \A p \in Paths : dir'[p] = dir[p] \/ (dir'[p] \in Nat /\ dir'[p] <= calls + 2),
           \A s \in Handles : remote'[s] = remote[s]
                                \/ (remote'[s] \in Nat /\ remote'[s] <= calls + 2)
    PROVE  Counted' /\ issued + 1 \in Handles /\ calls + 2 \in Inodes
<1>1. calls' = calls + 1 /\ calls < MaxCalls
  BY DEF Starts
<1>2. Cardinality(Pending) \in Nat /\ Cardinality(Pending)' \in Nat
      /\ Cardinality(Pending)' <= Cardinality(Pending) + 1
  BY PendingFacts
<1>3. issued' <= calls' + 1 /\ opens' + Cardinality(Pending)' <= calls' + 2
  BY <1>1, <1>2, CounterFacts DEF Counted
<1>4. (\A p \in Paths : dir'[p] <= calls' + 1) /\ (\A s \in Handles : remote'[s] <= calls' + 1)
  BY <1>1, CounterFacts DEF Counted
<1>5. issued + 1 \in Handles /\ calls + 2 \in Inodes
  BY <1>1, CounterFacts, NumberFacts DEF Counted
<1>6. QED
  BY <1>3, <1>4, <1>5 DEF Counted

(* There is a handle of the client for an open that ends, or that sends nothing. *)
LEMMA CountedEnter ==
    ASSUME FilesTypeOK, Shapes, Counted, opens' = opens + 1, UNCHANGED <<dir, remote, issued>>,
           \/ call' = call /\ calls < MaxCalls /\ calls' = calls + 1
           \/ \E t \in Threads : Ends(t) /\ call[t].op \in OpeningOps /\ calls' = calls
    PROVE  Counted' /\ opens + 1 \in Handles
<1>1. Cardinality(Pending) \in Nat
  BY PendingFacts
<1>2. CASE call' = call /\ calls < MaxCalls /\ calls' = calls + 1
  <2>1. Pending' = Pending
    BY <1>2 DEF Pending
  <2>2. PICK n \in Nat : n = Cardinality(Pending)
    BY <1>1
  <2>3. /\ opens + n <= calls + 2
        /\ calls \in Nat /\ calls < MaxCalls /\ opens \in Nat /\ MaxCalls \in Nat
    BY <1>2, <2>2, CounterFacts, NumberFacts DEF Counted
  <2>4. opens + 1 + n <= calls + 1 + 2 /\ opens + 1 \in 1..(MaxCalls + 2)
    BY <2>3
  <2>5. opens' + Cardinality(Pending)' <= calls' + 2 /\ opens + 1 \in Handles
    BY <1>2, <2>1, <2>2, <2>4, NumberFacts
  <2>6. QED
    BY <1>2, <2>5, CounterFacts DEF Counted
<1>3. CASE \E t \in Threads : Ends(t) /\ call[t].op \in OpeningOps /\ calls' = calls
  <2>1. /\ Cardinality(Pending)' \in Nat
        /\ Cardinality(Pending)' + 1 = Cardinality(Pending)
        /\ calls' = calls
    BY <1>3, PendingFacts
  <2>2. PICK m \in Nat, n \in Nat : m = Cardinality(Pending)' /\ n = Cardinality(Pending)
    BY <1>1, <2>1
  <2>3. /\ m + 1 = n /\ opens + n <= calls + 2
        /\ calls \in Nat /\ calls <= MaxCalls /\ opens \in Nat /\ MaxCalls \in Nat
    BY <2>1, <2>2, CounterFacts, NumberFacts DEF Counted
  <2>4. opens + 1 + m <= calls + 2 /\ opens + 1 \in 1..(MaxCalls + 2)
    BY <2>2, <2>3
  <2>5. opens' + Cardinality(Pending)' <= calls' + 2 /\ opens + 1 \in Handles
    BY <2>1, <2>2, <2>4, NumberFacts
  <2>6. QED
    BY <2>1, <2>5, CounterFacts DEF Counted
<1>4. QED
  BY <1>2, <1>3

-----------------------------------------------------------------------------
(* Beginning and returning.                                                *)

(* A call begins, whoever it overtakes. *)
LEMMA BeginStarts ==
    ASSUME FilesTypeOK, NEW t \in Threads, NEW c \in Call, Shaped(c), c.op # "none", Begin(t, c),
           \/ call' = [call EXCEPT ![t] = c]
           \/ \E file : \/ call' = Overtaken([call EXCEPT ![t] = c], file)
                        \/ call' = [Overtaken(call, file) EXCEPT ![t] = c]
    PROVE  Starts(t, c)
<1>1. /\ call \in [Threads -> Call] /\ [call EXCEPT ![t] = c] \in [Threads -> Call]
      /\ \A u \in Threads : GoesOn(call[u], call[u])
      /\ SameCall(c, c)
  BY DEF FilesTypeOK, GoesOn, SameCall
<1>2. CASE call' = [call EXCEPT ![t] = c]
  BY <1>1, <1>2 DEF Starts, Begin
<1>3. ASSUME NEW file, call' = Overtaken([call EXCEPT ![t] = c], file) PROVE Starts(t, c)
  <2> DEFINE cs == [call EXCEPT ![t] = c]
  <2>1. /\ call' \in [Threads -> Call]
        /\ \A u \in Threads : GoesOn(cs[u], call'[u])
    BY <1>1, <1>3, OvertakenFacts
  <2>2. cs[t] = c /\ \A u \in Threads \ {t} : cs[u] = call[u]
    BY <1>1
  <2> HIDE DEF cs
  <2>3. QED
    BY <2>1, <2>2 DEF Starts, Begin, GoesOn
<1>4. ASSUME NEW file, call' = [Overtaken(call, file) EXCEPT ![t] = c] PROVE Starts(t, c)
  <2> DEFINE cs == Overtaken(call, file)
  <2>1. /\ cs \in [Threads -> Call]
        /\ \A u \in Threads : GoesOn(call[u], cs[u])
    BY <1>1, OvertakenFacts
  <2> HIDE DEF cs
  <2>2. call' = [cs EXCEPT ![t] = c]
    BY <1>4 DEF cs
  <2>3. QED
    BY <1>1, <2>1, <2>2 DEF Starts, Begin
<1>5. QED
  BY <1>2, <1>3, <1>4

(* A call returns. *)
LEMMA ReturnEnds ==
    ASSUME FilesTypeOK, NEW t \in Threads, call[t].op # "none",
           \/ Return(t)
           \/ \E p : call' = [Renaming(p) EXCEPT ![t] = NoCall]
    PROVE  Ends(t)
<1>1. /\ call \in [Threads -> Call] /\ call[t] # NoCall
      /\ \A u \in Threads : GoesOn(call[u], call[u])
  BY NoCallFacts DEF FilesTypeOK, GoesOn, SameCall
<1>2. CASE Return(t)
  BY <1>1, <1>2, NoCallFacts DEF Return, Ends
<1>3. ASSUME NEW p, call' = [Renaming(p) EXCEPT ![t] = NoCall] PROVE Ends(t)
  <2>1. /\ Renaming(p) \in [Threads -> Call]
        /\ \A u \in Threads : GoesOn(call[u], Renaming(p)[u])
    BY <1>1, RenamingFacts
  <2>2. QED
    BY <1>1, <1>3, <2>1, NoCallFacts DEF Ends
<1>4. QED
  BY <1>2, <1>3

-----------------------------------------------------------------------------
(* The actions: type, calls and table.                                     *)

HandleInv == FilesTypeOK /\ CallInv /\ TableInv

(* The initial state. *)
LEMMA InitHandles == Init => HandleInv
<1> SUFFICES ASSUME Init PROVE HandleInv
  OBVIOUS
<1>1. PICK p \in Paths, n \in Blocks, subs \in {<<>>, <<1>>, <<None>>, <<1, None>>} :
        /\ dir = [q \in Paths |-> IF q = p THEN 1 ELSE None]
        /\ data = [i \in Inodes |-> IF i = 1 THEN [b \in 1..n |-> 1] ELSE <<>>]
        /\ sizes = [q \in Paths |-> IF q = p THEN n ELSE Absent]
        /\ issued = IF 1 \in {subs[h] : h \in DOMAIN subs} THEN 1 ELSE 0
        /\ remote = [h \in Handles |-> IF h = issued THEN 1 ELSE None]
        /\ opens = Len(subs)
        /\ opened = [h \in Handles |-> IF h \in DOMAIN subs THEN [path |-> p, sub |-> subs[h]]
                                        ELSE NotOpen]
        /\ files = [h \in Handles |-> IF h \in DOMAIN subs THEN [path |-> p, file |-> 1]
                                       ELSE NoFile]
  BY DEF Init
<1>2. /\ call = [t \in Threads |-> NoCall] /\ calls = 0 /\ edits = 0 /\ unsized = {}
      /\ cached = [q \in Paths |-> Nothing] /\ stale = {}
      /\ lost = {} /\ moved = {} /\ due = FALSE
  BY DEF Init
<1>3. /\ 1 \in Handles /\ 2 \in Handles /\ 1 \in Inodes /\ 1 \in Versions
      /\ n \in 0..PageSize /\ 1 \in 0..PageSize
  BY NumberFacts, ConstantsAssumption DEF Versions, Blocks
\* What is open: one file at most on the server, and two entries at most.
<1>4. /\ opens \in {0, 1, 2} /\ issued \in {0, 1} /\ (issued = 1 => opens # 0)
      /\ \A s \in Handles : remote[s] = IF s = issued THEN 1 ELSE None
      /\ \A h \in Handles :
            IF h <= opens
            THEN /\ opened[h] = [path |-> p, sub |-> IF h = 1 THEN issued ELSE None]
                 /\ files[h] = [path |-> p, file |-> 1]
            ELSE opened[h] = NotOpen /\ files[h] = NoFile
  <2>1. \A h \in Handles : h \in Nat \ {0}
    BY NumberFacts
  <2>2. /\ DOMAIN subs = 1..opens /\ opens \in {0, 1, 2} /\ issued \in {0, 1}
        /\ issued = 1 => opens # 0
        /\ \A h \in 1..opens : subs[h] = IF h = 1 THEN issued ELSE None
    <3>1. CASE subs = <<>>
      BY <1>1, <3>1
    <3>2. CASE subs = <<1>>
      BY <1>1, <3>2
    <3>3. CASE subs = <<None>>
      <4>1. DOMAIN subs = 1..1 /\ subs[1] = None /\ Len(subs) = 1
        BY <3>3
      <4>2. 1 \notin {subs[h] : h \in DOMAIN subs}
        BY <4>1, NumberFacts
      <4>3. QED
        BY <1>1, <4>1, <4>2, NumberFacts
    <3>4. CASE subs = <<1, None>>
      <4>1. DOMAIN subs = 1..2 /\ subs[1] = 1 /\ subs[2] = None /\ Len(subs) = 2
        BY <3>4
      <4>2. 1 \in {subs[h] : h \in DOMAIN subs}
        BY <4>1
      <4>3. QED
        BY <1>1, <4>1, <4>2
    <3>5. QED
      BY <1>1, <3>1, <3>2, <3>3, <3>4
  <2>3. \A h \in Handles : h \in DOMAIN subs <=> h <= opens
    BY <2>1, <2>2
  <2>4. QED
    BY <1>1, <2>2, <2>3
<1>5. [b \in 1..n |-> 1] \in Content
  BY <1>3, ContentFacts
<1>6. FilesTypeOK
  <2>1. dir \in [Paths -> Inodes \cup {None}] /\ data \in [Inodes -> Content]
        /\ remote \in [Handles -> Inodes \cup {None}]
    BY <1>1, <1>3, <1>5, SmallContents
  <2>2. {issued, opens} \subseteq Handles \cup {None}
    BY <1>3, <1>4, NumberFacts
  <2>3. ASSUME NEW h \in Handles
        PROVE  /\ opened[h] \in [path : Paths \cup {NoPath}, sub : Handles \cup {None}]
               /\ files[h] \in [path : Paths \cup {NoPath}, file : Inodes \cup {None}]
    <3>1. CASE h <= opens
      <4> DEFINE sub == IF h = 1 THEN issued ELSE None
      <4>1. sub \in Handles \cup {None}
        BY <2>2
      <4>2. opened[h] = [path |-> p, sub |-> sub] /\ files[h] = [path |-> p, file |-> 1]
        BY <1>4, <3>1
      <4> HIDE DEF sub
      <4>3. QED
        BY <1>3, <4>1, <4>2
    <3>2. CASE ~(h <= opens)
      <4>1. opened[h] = NotOpen /\ files[h] = NoFile
        BY <1>4, <3>2
      <4>2. /\ NotOpen \in [path : Paths \cup {NoPath}, sub : Handles \cup {None}]
            /\ NoFile \in [path : Paths \cup {NoPath}, file : Inodes \cup {None}]
        BY DEF NotOpen, NoFile
      <4>3. QED
        BY <4>1, <4>2
    <3>3. QED
      BY <3>1, <3>2
  <2>4. /\ opened \in [Handles -> [path : Paths \cup {NoPath}, sub : Handles \cup {None}]]
        /\ files \in [Handles -> [path : Paths \cup {NoPath}, file : Inodes \cup {None}]]
    BY <1>1, <2>3
  <2>5. cached \in [Paths -> [Blocks -> Versions \cup {Garbage, Unknown}]]
        /\ sizes \in [Paths -> 0..Absent] /\ stale \subseteq Paths \X Blocks
    BY <1>1, <1>2, <1>3, NumberFacts DEF Nothing
  <2>6. call \in [Threads -> Call] /\ calls \in 0..MaxCalls /\ edits \in 0..MaxEdits
    BY <1>2, NoCallFacts, NumberFacts
  <2>7. QED
    BY <1>2, <2>1, <2>2, <2>4, <2>5, <2>6 DEF FilesTypeOK
<1>7. \A t \in Threads : call[t] = NoCall
  BY <1>2
<1>8. CallInv
  <2>1. Pending = {}
    BY <1>7, NoCallFacts DEF Pending, OpeningOps
  <2>2. Cardinality(Pending) = 0
    BY <2>1, FS_EmptySet
  <2>3. Counted
    <3>1. issued <= calls + 1 /\ opens + Cardinality(Pending) <= calls + 2
      BY <1>2, <1>4, <2>2
    <3>2. \A q \in Paths : dir[q] <= calls + 1
      BY <1>1, <1>2, NumberFacts
    <3>3. \A s \in Handles : remote[s] <= calls + 1
      BY <1>2, <1>4, NumberFacts
    <3>4. QED
      BY <3>1, <3>2, <3>3 DEF Counted
  <2>4. Shapes
    BY <1>7, NoCallFacts DEF Shapes, Shaped, OpeningOps, MovingOps, HandleOps
  <2>5. QED
    BY <1>1, <1>7, <2>3, <2>4 DEF CallInv, Compatible, OnePath
<1>9. TableInv
  <2>1. \A h \in Handles : IF h <= opens
                             THEN /\ opened[h].path = p /\ files[h].path = p /\ files[h].file = 1
                                  /\ opened[h].sub = IF h = 1 THEN issued ELSE None
                             ELSE opened[h] = NotOpen /\ files[h] = NoFile
    <3>1. ASSUME NEW h \in Handles, h <= opens
          PROVE  /\ opened[h].path = p /\ files[h].path = p /\ files[h].file = 1
                 /\ opened[h].sub = IF h = 1 THEN issued ELSE None
      <4> DEFINE sub == IF h = 1 THEN issued ELSE None
      <4>1. opened[h] = [path |-> p, sub |-> sub] /\ files[h] = [path |-> p, file |-> 1]
        BY <1>4, <3>1
      <4> HIDE DEF sub
      <4>2. opened[h].path = p /\ files[h].path = p /\ files[h].file = 1 /\ opened[h].sub = sub
        BY <4>1
      <4>3. QED
        BY <4>2 DEF sub
    <3>2. QED
      BY <1>4, <3>1
  <2>2. /\ opens \in {0, 1, 2} /\ issued \in {0, 1} /\ (issued = 1 => opens # 0)
        /\ \A s \in Handles : remote[s] = IF s = issued THEN 1 ELSE None
        /\ \A h \in Handles : opened[h].sub = None \/ (h = 1 /\ opened[h].sub = issued)
    BY <1>4, <2>1 DEF NotOpen
  <2>3. Tabled
    BY <2>1, <2>2, NumberFacts DEF Tabled
  <2>4. Issued
    BY <1>7, <2>1, <2>2, NoCallFacts, NumberFacts DEF Issued, NotOpen
  <2>5. OneOwner
    BY <1>7, <2>1, <2>2, NoCallFacts DEF OneOwner, NotOpen
  <2>6. Live
    BY <1>3, <1>7, <2>1, <2>2, NoCallFacts, NumberFacts DEF Live, NotOpen
  <2>7. NoHandleLeak
    BY <1>3, <2>1, <2>2, NumberFacts DEF NoHandleLeak
  <2>8. RightFile
    BY <1>3, <2>1, <2>2, NumberFacts DEF RightFile, NotOpen, IsOpen
  <2>9. InUse /\ WriteKept /\ RightCall
    BY <1>7, NoCallFacts DEF InUse, WriteKept, RightCall, HandleOps
  <2>10. QED
    BY <2>3, <2>4, <2>5, <2>6, <2>7, <2>8, <2>9 DEF TableInv
<1>10. QED
  BY <1>6, <1>8, <1>9 DEF HandleInv

(* The calls that open a file on the server: create, open for writing, and a read *)
(* through a handle that is not open yet. *)
LEMMA OpeningHandles ==
    ASSUME HandleInv, NEW t \in Threads,
           \/ \E p \in Paths : Create(t, p) \/ \E trunc \in BOOLEAN : OpenNow(t, p, trunc)
           \/ \E h \in Handles : ReadOpen(t, h)
    PROVE  HandleInv'
<1>0. FilesTypeOK /\ CallInv /\ TableInv /\ Shapes /\ Compatible /\ Counted /\ OnePath
  BY DEF HandleInv, CallInv
<1>1. issued + 1 \in Nat \ {0}
  BY <1>0, CounterFacts
<1>2. ASSUME NEW p \in Paths, Create(t, p) PROVE HandleInv'
  <2> DEFINE c == [NoCall EXCEPT !.op = "create", !.p = p, !.sub = issued + 1]
             file == IF dir[p] = None THEN NextFile ELSE dir[p]
  <2>1. /\ c.op = "create" /\ c.p = p /\ c.q = NoPath /\ c.h = None /\ c.sub = issued + 1
        /\ c \in [op : {"create"}, p : Paths, q : {NoPath}, h : {None}, sub : {issued + 1},
                  b : {0}, got : {<<>>}, overtaken : {FALSE}]
    BY DEF NoCall
  <2>2. /\ Begin(t, c) /\ dir' = [dir EXCEPT ![p] = file]
        /\ issued' = issued + 1 /\ remote' = [remote EXCEPT ![issued + 1] = file]
        /\ call' = [call EXCEPT ![t] = c]
        /\ UNCHANGED <<data, opened, files, opens, stale, unsized, lost, moved>>
    BY <1>2 DEF Create, Opening, tableVars
  <2>3. calls < MaxCalls /\ UNCHANGED <<cached, sizes, edits, due>>
    BY <2>2 DEF Begin, cacheVars
  <2>4. issued + 1 \in Handles /\ calls + 2 \in Inodes
    BY <1>0, <2>3, CounterFacts, NumberFacts DEF Counted
  <2>5. c \in Call /\ Shaped(c)
    BY <2>1, <2>4, <1>1, SmallContents, NumberFacts
       DEF Call, Ops, Shaped, OpeningOps, MovingOps, HandleOps
  <2> HIDE DEF c
  <2>6. Starts(t, c)
    BY <1>0, <2>1, <2>2, <2>5, BeginStarts
  <2>7. file \in Inodes /\ file \in Nat /\ (file = dir[p] \/ file = calls + 2)
    BY <1>0, <2>4, NumberFacts DEF FilesTypeOK, NextFile
  <2>8. PathsStay
    BY <2>2 DEF PathsStay
  <2>9. Shapes' /\ Compatible'
    BY <1>0, <2>6, <2>8, StartedCalls
  <2>10. Counted'
    <3>1. dir[p] \in Nat /\ dir[p] <= calls + 1 /\ calls \in Nat
      BY <1>0, CounterFacts DEF Counted
    <3>2. file <= calls + 2
      BY <2>7, <3>1
    <3> HIDE DEF file
    <3>3. QED
      BY <1>0, <2>2, <2>6, <2>7, <3>2, CountedStart DEF FilesTypeOK
  <2>11. OnePath'
    <3>0. NextFile = calls + 2 /\ calls \in Nat
      BY <1>0, CounterFacts DEF NextFile
    <3>1. \A q \in Paths : dir[q] # calls + 2
      <4>1. \A q \in Paths : dir[q] \in Nat /\ dir[q] <= calls + 1
        BY <1>0, CounterFacts DEF Counted
      <4>2. QED
        BY <3>0, <4>1
    <3>2. QED
      BY <1>0, <2>2, <2>7, <3>0, <3>1 DEF OnePath, FilesTypeOK
  <2>12. FilesTypeOK'
    <3> HIDE DEF file
    <3>1. dir' \in [Paths -> Inodes \cup {None}] /\ remote' \in [Handles -> Inodes \cup {None}]
          /\ issued' \in Handles
      BY <1>0, <2>2, <2>4, <2>7 DEF FilesTypeOK
    <3>2. calls' \in 0..MaxCalls /\ call' \in [Threads -> Call]
      BY <1>0, <2>6, CounterFacts, NumberFacts DEF Starts
    <3>3. QED
      BY <1>0, <2>2, <2>3, <3>1, <3>2 DEF FilesTypeOK
  <2>13. TableInv'
    <3> HIDE DEF file
    <3>1. QED
      BY <1>0, <2>1, <2>2, <2>4, <2>6, <2>7, TablesOpen DEF OpeningOps
  <2>14. QED
    BY <2>9, <2>10, <2>11, <2>12, <2>13 DEF HandleInv, CallInv
<1>3. ASSUME NEW p \in Paths, NEW trunc \in BOOLEAN, OpenNow(t, p, trunc) PROVE HandleInv'
  <2> DEFINE c == [NoCall EXCEPT !.op = "open", !.p = p, !.sub = issued + 1]
  <2>1. /\ c.op = "open" /\ c.p = p /\ c.q = NoPath /\ c.h = None /\ c.sub = issued + 1
        /\ c \in [op : {"open"}, p : Paths, q : {NoPath}, h : {None}, sub : {issued + 1},
                  b : {0}, got : {<<>>}, overtaken : {FALSE}]
    BY DEF NoCall
  <2>2. /\ Begin(t, c) /\ dir[p] # None
        /\ issued' = issued + 1 /\ remote' = [remote EXCEPT ![issued + 1] = dir[p]]
        /\ data' \in {data, [data EXCEPT ![dir[p]] = <<>>]}
        /\ \/ call' = [call EXCEPT ![t] = c]
           \/ call' = Overtaken([call EXCEPT ![t] = c], dir[p])
        /\ stale' \in {stale, stale \cup ({p} \X Blocks)}
        /\ unsized' \in {unsized, unsized \cup {p}}
        /\ UNCHANGED <<dir, opened, files, opens, lost, moved>>
    BY <1>3 DEF OpenNow, Opening, tableVars
  <2>3. calls < MaxCalls /\ UNCHANGED <<cached, sizes, edits, due>>
    BY <2>2 DEF Begin, cacheVars
  <2>4. issued + 1 \in Handles /\ dir[p] \in Inodes /\ dir[p] \in Nat
    <3>1. issued + 1 \in Handles
      BY <1>0, <2>3, CounterFacts, NumberFacts DEF Counted
    <3>2. dir[p] \in Inodes
      BY <1>0, <2>2 DEF FilesTypeOK
    <3>3. QED
      BY <3>1, <3>2, NumberFacts
  <2>5. c \in Call /\ Shaped(c)
    BY <2>1, <2>4, <1>1, SmallContents, NumberFacts
       DEF Call, Ops, Shaped, OpeningOps, MovingOps, HandleOps
  <2> HIDE DEF c
  <2>6. Starts(t, c)
    BY <1>0, <2>1, <2>2, <2>5, BeginStarts
  <2>7. Shapes' /\ Compatible'
    BY <1>0, <2>2, <2>6, StartedCalls DEF PathsStay
  <2>8. Counted'
    <3>1. dir[p] <= calls + 2
      BY <1>0, <2>4, CounterFacts DEF Counted
    <3>2. QED
      BY <1>0, <2>2, <2>4, <2>6, <3>1, CountedStart DEF FilesTypeOK
  <2>9. OnePath'
    BY <1>0, <2>2 DEF OnePath
  <2>10. FilesTypeOK'
    <3>1. data' \in [Inodes -> Content]
      BY <1>0, <2>2, SmallContents DEF FilesTypeOK
    <3>2. remote' \in [Handles -> Inodes \cup {None}] /\ issued' \in Handles
      BY <1>0, <2>2, <2>4 DEF FilesTypeOK
    <3>3. calls' \in 0..MaxCalls /\ call' \in [Threads -> Call]
      BY <1>0, <2>6, CounterFacts, NumberFacts DEF Starts
    <3>4. stale' \subseteq Paths \X Blocks /\ unsized' \subseteq Paths
      BY <1>0, <2>2 DEF FilesTypeOK
    <3>5. QED
      BY <1>0, <2>2, <2>3, <3>1, <3>2, <3>3, <3>4 DEF FilesTypeOK
  <2>11. TableInv'
    BY <1>0, <2>1, <2>2, <2>4, <2>6, TablesOpen DEF OpeningOps
  <2>12. QED
    BY <2>7, <2>8, <2>9, <2>10, <2>11 DEF HandleInv, CallInv
<1>4. ASSUME NEW h \in Handles, ReadOpen(t, h) PROVE HandleInv'
  <2> DEFINE p == opened[h].path
             c == [NoCall EXCEPT !.op = "fetch", !.h = h, !.sub = issued + 1]
  <2>1. /\ c.op = "fetch" /\ c.p = NoPath /\ c.q = NoPath /\ c.h = h /\ c.sub = issued + 1
        /\ c \in [op : {"fetch"}, p : {NoPath}, q : {NoPath}, h : Handles, sub : {issued + 1},
                  b : {0}, got : {<<>>}, overtaken : {FALSE}]
    BY DEF NoCall
  <2>2. /\ Begin(t, c) /\ IsOpen(h) /\ opened[h].sub = None /\ dir[p] # None
        /\ issued' = issued + 1 /\ remote' = [remote EXCEPT ![issued + 1] = dir[p]]
        /\ call' = [call EXCEPT ![t] = c]
        /\ moved' = IF dir[p] = files[h].file THEN moved ELSE moved \cup {h}
        /\ UNCHANGED <<dir, data, opened, files, opens, stale, unsized, lost>>
    BY <1>4 DEF ReadOpen, Opening, tableVars
  <2>3. calls < MaxCalls /\ UNCHANGED <<cached, sizes, edits, due>>
    BY <2>2 DEF Begin, cacheVars
  <2>4. p \in Paths
    BY <1>0, <2>2 DEF TableInv, Tabled, IsOpen
  <2>5. issued + 1 \in Handles /\ dir[p] \in Inodes /\ dir[p] \in Nat
    <3>1. issued + 1 \in Handles
      BY <1>0, <2>3, CounterFacts, NumberFacts DEF Counted
    <3>2. dir[p] \in Inodes
      BY <1>0, <2>2, <2>4 DEF FilesTypeOK
    <3>3. QED
      BY <3>1, <3>2, NumberFacts
  <2>6. c \in Call /\ Shaped(c)
    BY <2>1, <2>5, <1>1, SmallContents, NumberFacts
       DEF Call, Ops, Shaped, OpeningOps, MovingOps, HandleOps
  <2> HIDE DEF c, p
  <2>7. Starts(t, c)
    BY <1>0, <2>1, <2>2, <2>6, BeginStarts
  <2>8. Shapes' /\ Compatible'
    BY <1>0, <2>2, <2>7, StartedCalls DEF PathsStay
  <2>9. Counted'
    <3>1. dir[p] <= calls + 2
      BY <1>0, <2>4, <2>5, CounterFacts DEF Counted
    <3>2. QED
      BY <1>0, <2>2, <2>5, <2>7, <3>1, CountedStart DEF FilesTypeOK
  <2>10. OnePath'
    BY <1>0, <2>2 DEF OnePath
  <2>11. FilesTypeOK'
    <3>1. remote' \in [Handles -> Inodes \cup {None}] /\ issued' \in Handles
      BY <1>0, <2>2, <2>5 DEF FilesTypeOK
    <3>2. calls' \in 0..MaxCalls /\ call' \in [Threads -> Call]
      BY <1>0, <2>7, CounterFacts, NumberFacts DEF Starts
    <3>3. moved' \subseteq Handles
      BY <1>0, <2>2 DEF FilesTypeOK
    <3>4. QED
      BY <1>0, <2>2, <2>3, <3>1, <3>2, <3>3 DEF FilesTypeOK
  <2>12. TableInv'
    <3>1. moved \subseteq moved' /\ (h \notin moved' => files[h].file = dir[p])
      BY <2>2
    <3>2. QED
      BY <1>0, <2>1, <2>2, <2>5, <2>7, <3>1, TablesOpen
  <2>13. QED
    BY <2>8, <2>9, <2>10, <2>11, <2>12 DEF HandleInv, CallInv
<1>5. QED
  BY <1>2, <1>3, <1>4

(* The entries of the table: an open that sends nothing, and the ends of open and create. *)
LEMMA EnteringHandles ==
    ASSUME HandleInv, NEW t \in Threads,
           (\E p \in Paths : OpenLater(t, p)) \/ OpenDone(t) \/ CreateDone(t)
    PROVE  HandleInv'
<1>0. FilesTypeOK /\ CallInv /\ TableInv /\ Shapes /\ Compatible /\ Counted /\ OnePath
  BY DEF HandleInv, CallInv
<1>1. ASSUME NEW p \in Paths, NEW sub \in Handles \cup {None}, NEW file \in Inodes \cup {None},
             NewEntry(p, sub, file),
             UNCHANGED <<dir, data, remote, issued, cached, edits, stale, unsized, lost, moved,
                         due>>,
             sizes' \in [Paths -> 0..Absent],
             \/ sub = None /\ call' = call /\ calls < MaxCalls /\ calls' = calls + 1
             \/ /\ Ends(t) /\ call[t].op \in OpeningOps /\ calls' = calls
                /\ sub = call[t].sub /\ file = remote[sub]
      PROVE  HandleInv'
  <2>1. opens' = opens + 1
    BY <1>1 DEF NewEntry
  <2>2. Counted' /\ opens + 1 \in Handles
    BY <1>0, <1>1, <2>1, CountedEnter
  <2>3. TableInv'
    BY <1>0, <1>1, <2>2, TablesEnter
  <2>4. /\ opened' \in [Handles -> [path : Paths \cup {NoPath}, sub : Handles \cup {None}]]
        /\ files' \in [Handles -> [path : Paths \cup {NoPath}, file : Inodes \cup {None}]]
    BY <1>0, <1>1, <2>2 DEF FilesTypeOK, NewEntry
  <2>5. calls' \in 0..MaxCalls /\ call' \in [Threads -> Call]
    BY <1>0, <1>1, CounterFacts, NumberFacts DEF FilesTypeOK, Ends
  <2>6. FilesTypeOK'
    BY <1>0, <1>1, <2>1, <2>2, <2>4, <2>5 DEF FilesTypeOK
  <2>7. PathsStay
    <3>1. ASSUME NEW u \in Threads, call'[u].h # None
          PROVE  files'[call'[u].h].path = files[call'[u].h].path
      <4>1. call'[u].h = call[u].h /\ call[u].h \in Handles
        BY <1>0, <1>1, <3>1, CallParts, NoCallFacts DEF Ends, GoesOn, SameCall
      <4>2. files[call[u].h] # NoFile
        BY <1>0, <3>1, <4>1 DEF TableInv, InUse
      <4>3. files[opens + 1] = NoFile
        BY <1>0, <2>2, CounterFacts DEF TableInv, Tabled
      <4>4. call[u].h # opens + 1
        BY <4>2, <4>3
      <4>5. QED
        BY <1>0, <1>1, <2>1, <4>1, <4>4 DEF NewEntry, FilesTypeOK
    <3>2. QED
      BY <3>1 DEF PathsStay
  <2>8. AllGoOn \/ Ends(t)
    BY <1>0, <1>1 DEF AllGoOn, FilesTypeOK, GoesOn, SameCall
  <2>9. Shapes' /\ Compatible'
    BY <1>0, <2>7, <2>8, GoingCalls
  <2>10. OnePath'
    BY <1>0, <1>1 DEF OnePath
  <2>11. QED
    BY <2>2, <2>3, <2>6, <2>9, <2>10 DEF HandleInv, CallInv
<1>2. ASSUME NEW p \in Paths, OpenLater(t, p) PROVE HandleInv'
  <2>1. /\ NewEntry(p, None, dir[p]) /\ dir[p] \in Inodes \cup {None}
        /\ call' = call /\ calls < MaxCalls /\ calls' = calls + 1
        /\ UNCHANGED <<dir, data, remote, issued, cached, sizes, edits, stale, unsized, lost,
                       moved, due>>
    BY <1>0, <1>2 DEF OpenLater, Begin, serverVars, cacheVars, FilesTypeOK
  <2>2. sizes' \in [Paths -> 0..Absent]
    BY <1>0, <2>1 DEF FilesTypeOK
  <2>3. QED
    BY <1>1, <2>1, <2>2
<1>3. CASE OpenDone(t)
  <2>1. /\ call[t].op = "open"
        /\ NewEntry(call[t].p, call[t].sub, remote[call[t].sub]) /\ Return(t)
        /\ UNCHANGED <<dir, data, remote, issued, cached, sizes, calls, edits, stale, unsized,
                       lost, moved, due>>
    BY <1>3 DEF OpenDone, serverVars, cacheVars, historyVars
  <2>2. call[t].p \in Paths /\ call[t].sub \in Handles
    BY <1>0, <2>1, CallParts DEF Shapes, Shaped, OpeningOps
  <2>3. remote[call[t].sub] \in Inodes \cup {None} /\ sizes' \in [Paths -> 0..Absent]
    BY <1>0, <2>1, <2>2 DEF FilesTypeOK
  <2>4. Ends(t)
    BY <1>0, <2>1, ReturnEnds
  <2>5. QED
    BY <1>1, <2>1, <2>2, <2>3, <2>4 DEF OpeningOps
<1>4. CASE CreateDone(t)
  <2> DEFINE c == call[t]
  <2>1. /\ c.op = "create" /\ dir[c.p] # None
        /\ sizes' = [sizes EXCEPT ![c.p] = Len(data[dir[c.p]])]
        /\ NewEntry(c.p, c.sub, remote[c.sub]) /\ Return(t)
        /\ UNCHANGED <<dir, data, remote, issued, cached, calls, edits, stale, unsized, lost,
                       moved, due>>
    BY <1>4 DEF CreateDone, serverVars, historyVars
  <2>2. c.p \in Paths /\ c.sub \in Handles
    BY <1>0, <2>1, CallParts DEF Shapes, Shaped, OpeningOps
  <2>3. remote[c.sub] \in Inodes \cup {None}
    BY <1>0, <2>1, <2>2 DEF FilesTypeOK
  <2>4. sizes' \in [Paths -> 0..Absent]
    <3>1. data[dir[c.p]] \in Content
      BY <1>0, <2>1, <2>2 DEF FilesTypeOK
    <3>2. Len(data[dir[c.p]]) \in 0..Absent
      BY <3>1, ContentFacts, NumberFacts
    <3>3. QED
      BY <1>0, <2>1, <3>2 DEF FilesTypeOK
  <2>5. Ends(t)
    BY <1>0, <2>1, ReturnEnds
  <2>6. QED
    BY <1>1, <2>1, <2>2, <2>3, <2>4, <2>5 DEF OpeningOps
<1>5. QED
  BY <1>2, <1>3, <1>4

(* The calls that close a file. *)
LEMMA ClosingHandles ==
    ASSUME HandleInv, NEW t \in Threads,
           (\E h \in Handles : Close(t, h) \/ CloseTimesOut(t, h)) \/ CloseDone(t)
    PROVE  HandleInv'
<1>0. FilesTypeOK /\ CallInv /\ TableInv /\ Shapes /\ Compatible /\ Counted /\ OnePath
  BY DEF HandleInv, CallInv
<1>1. ASSUME NEW h \in Handles, Close(t, h) PROVE HandleInv'
  <2> DEFINE c == [NoCall EXCEPT !.op = "close", !.h = h]
  <2>1. /\ c.op = "close" /\ c.p = NoPath /\ c.q = NoPath /\ c.h = h /\ c.sub = None
        /\ c \in [op : {"close"}, p : {NoPath}, q : {NoPath}, h : Handles, sub : {None},
                  b : {0}, got : {<<>>}, overtaken : {FALSE}]
    BY DEF NoCall
  <2>2. /\ Begin(t, c) /\ IsOpen(h) /\ \A u \in Threads : call[u].h # h
        /\ call' = [call EXCEPT ![t] = c]
        /\ remote' = [s \in Handles |-> IF s = opened[h].sub THEN None ELSE remote[s]]
        /\ UNCHANGED <<dir, data, issued, opened, files, opens, stale, unsized, lost, moved>>
    BY <1>1 DEF Close, tableVars
  <2>3. calls < MaxCalls /\ UNCHANGED <<cached, sizes, edits, due>>
    BY <2>2 DEF Begin, cacheVars
  <2>4. c \in Call /\ Shaped(c)
    BY <2>1, SmallContents, NumberFacts DEF Call, Ops, Shaped, OpeningOps, MovingOps, HandleOps
  <2> HIDE DEF c
  <2>5. Starts(t, c)
    BY <1>0, <2>1, <2>2, <2>4, BeginStarts
  <2>6. Shapes' /\ Compatible'
    BY <1>0, <2>2, <2>5, StartedCalls DEF PathsStay
  <2>7. \A s \in Handles : remote'[s] = remote[s] \/ remote'[s] = 0
    BY <2>2, NumberFacts
  <2>8. Counted'
    <3>1. calls \in Nat /\ 0 <= calls + 2
      BY <1>0, CounterFacts
    <3>2. \A s \in Handles : remote'[s] = remote[s] \/ (remote'[s] \in Nat /\ remote'[s] <= calls + 2)
      BY <2>7, <3>1
    <3>3. QED
      BY <1>0, <2>2, <2>5, <3>2, CountedStart
  <2>9. OnePath'
    BY <1>0, <2>2 DEF OnePath
  <2>10. FilesTypeOK'
    <3>1. remote' \in [Handles -> Inodes \cup {None}]
      BY <1>0, <2>2 DEF FilesTypeOK
    <3>2. calls' \in 0..MaxCalls /\ call' \in [Threads -> Call]
      BY <1>0, <2>5, CounterFacts, NumberFacts DEF Starts
    <3>3. QED
      BY <1>0, <2>2, <2>3, <3>1, <3>2 DEF FilesTypeOK
  <2>11. TableInv'
    BY <1>0, <2>1, <2>2, <2>5, NumberFacts, TablesClose
  <2>12. QED
    BY <2>6, <2>8, <2>9, <2>10, <2>11 DEF HandleInv, CallInv
<1>2. CASE CloseDone(t)
  <2> DEFINE h == call[t].h
  <2>1. /\ call[t].op = "close" /\ Return(t)
        /\ opened' \in {opened, [opened EXCEPT ![h] = NotOpen]}
        /\ files' = [files EXCEPT ![h] = NoFile]
        /\ UNCHANGED <<dir, data, remote, issued, opens, cached, sizes, calls, edits, stale,
                       unsized, lost, moved, due>>
    BY <1>2 DEF CloseDone, serverVars, cacheVars, historyVars
  <2>2. Ends(t) /\ h \in Handles
    BY <1>0, <2>1, ReturnEnds, CallParts DEF Shapes, Shaped
  <2>3. Counted'
    BY <1>0, <2>1, <2>2, CountedGo
  <2>4. TableInv'
    BY <1>0, <2>1, <2>2, TablesClosed
  <2>5. FilesTypeOK'
    <3>1. NotOpen \in [path : Paths \cup {NoPath}, sub : Handles \cup {None}]
          /\ NoFile \in [path : Paths \cup {NoPath}, file : Inodes \cup {None}]
      BY DEF NotOpen, NoFile
    <3> HIDE DEF h
    <3>2. opened' \in [Handles -> [path : Paths \cup {NoPath}, sub : Handles \cup {None}]]
      <4>1. CASE opened' = opened
        BY <1>0, <4>1 DEF FilesTypeOK
      <4>2. CASE opened' = [opened EXCEPT ![h] = NotOpen]
        BY <1>0, <3>1, <4>2 DEF FilesTypeOK
      <4>3. QED
        BY <2>1, <4>1, <4>2
    <3>3. files' \in [Handles -> [path : Paths \cup {NoPath}, file : Inodes \cup {None}]]
      BY <1>0, <2>1, <3>1 DEF FilesTypeOK
    <3>4. call' \in [Threads -> Call]
      BY <2>2 DEF Ends
    <3>5. QED
      BY <1>0, <2>1, <3>2, <3>3, <3>4 DEF FilesTypeOK
  <2>6. PathsStay
    <3>1. ASSUME NEW u \in Threads, call'[u].h # None
          PROVE  files'[call'[u].h].path = files[call'[u].h].path
      <4>1. u # t
        BY <2>2, <3>1, NoCallFacts DEF Ends
      <4>2. call'[u].h = call[u].h
        BY <2>2, <4>1 DEF Ends, GoesOn, SameCall
      <4>3. call[u].h \in Handles /\ call[u].h # h
        BY <1>0, <2>1, <2>2, <3>1, <4>1, <4>2, CallParts, NumberFacts DEF TableInv, InUse
      <4>4. QED
        BY <1>0, <2>1, <4>2, <4>3 DEF FilesTypeOK
    <3>2. QED
      BY <3>1 DEF PathsStay
  <2>7. Shapes' /\ Compatible'
    BY <1>0, <2>2, <2>6, GoingCalls
  <2>8. OnePath'
    BY <1>0, <2>1 DEF OnePath
  <2>9. QED
    BY <2>3, <2>4, <2>5, <2>7, <2>8 DEF HandleInv, CallInv
<1>3. ASSUME NEW h \in Handles, CloseTimesOut(t, h) PROVE HandleInv'
  <2>1. /\ calls < MaxCalls /\ calls' = calls + 1
        /\ IsOpen(h) /\ \A u \in Threads : call[u].h # h
        /\ files' = [files EXCEPT ![h] = NoFile]
        /\ UNCHANGED <<dir, data, remote, issued, opened, opens, cached, sizes, call, edits,
                       stale, unsized, lost, moved, due>>
    BY <1>3 DEF CloseTimesOut, Begin, serverVars, cacheVars
  <2>2. FilesTypeOK'
    <3>1. NoFile \in [path : Paths \cup {NoPath}, file : Inodes \cup {None}]
      BY DEF NoFile
    <3>2. files' \in [Handles -> [path : Paths \cup {NoPath}, file : Inodes \cup {None}]]
      BY <1>0, <2>1, <3>1 DEF FilesTypeOK
    <3>3. calls' \in 0..MaxCalls
      BY <1>0, <2>1, CounterFacts, NumberFacts
    <3>4. QED
      BY <1>0, <2>1, <3>2, <3>3 DEF FilesTypeOK
  <2>3. \A g \in Handles : g # h => files'[g] = files[g]
    BY <1>0, <2>1 DEF FilesTypeOK
  <2>4. files'[h] = NoFile
    BY <1>0, <2>1 DEF FilesTypeOK
  <2>5. \A u \in Threads : call[u].h \in Handles \cup {None} /\ call[u].h # h
    BY <1>0, <2>1, CallParts
  <2>6. PathsStay
    BY <2>1, <2>3, <2>5 DEF PathsStay
  <2>7. AllGoOn
    BY <1>0, <2>1 DEF AllGoOn, FilesTypeOK, GoesOn, SameCall
  <2>8. Shapes' /\ Compatible'
    BY <1>0, <2>6, <2>7, GoingCalls
  <2>9. Counted'
    <3>1. Pending' = Pending
      BY <2>1 DEF Pending
    <3>2. Cardinality(Pending) \in Nat
      BY <1>0, PendingFacts
    <3>3. QED
      BY <1>0, <2>1, <3>1, <3>2, CounterFacts DEF Counted
  <2>10. OnePath'
    BY <1>0, <2>1 DEF OnePath
  <2>11. \A g \in Handles : IsOpen(g)' => IsOpen(g) /\ g # h
    BY <2>1, <2>3, <2>4 DEF IsOpen
  <2>12. Tabled' /\ InUse'
    BY <1>0, <2>1, <2>3, <2>4, <2>5 DEF TableInv, Tabled, InUse
  <2>13. Issued' /\ OneOwner' /\ WriteKept' /\ NoHandleLeak'
    BY <1>0, <2>1 DEF TableInv, Issued, OneOwner, WriteKept, NoHandleLeak
  <2>14. Live'
    BY <1>0, <2>1, <2>11 DEF TableInv, Live
  <2>15. RightFile'
    BY <1>0, <2>1, <2>3, <2>11 DEF TableInv, RightFile
  <2>16. RightCall'
    <3>1. \A u \in Threads : call[u].op \in HandleOps => call[u].h \in Handles /\ call[u].h # h
      BY <1>0, <2>5 DEF Shapes, Shaped
    <3>2. QED
      BY <1>0, <2>1, <2>3, <3>1 DEF TableInv, RightCall
  <2>17. QED
    BY <2>2, <2>8, <2>9, <2>10, <2>12, <2>13, <2>14, <2>15, <2>16
       DEF HandleInv, CallInv, TableInv
<1>4. QED
  BY <1>1, <1>2, <1>3

(* A block that is written is in the content, and the other blocks stay. *)
LEMMA PutFacts ==
    ASSUME NEW content \in Content, NEW b \in Blocks, NEW v \in Versions
    PROVE  /\ Put(content, b, v) \in Content
           /\ DOMAIN Put(content, b, v) = 1..Len(Put(content, b, v))
           /\ Len(Put(content, b, v)) = (IF b > Len(content) THEN b ELSE Len(content))
           /\ b \in DOMAIN Put(content, b, v) /\ Put(content, b, v)[b] = v
           /\ \A k \in DOMAIN content : k \in DOMAIN Put(content, b, v)
                                        /\ (k # b => Put(content, b, v)[k] = content[k])
<1> DEFINE n == IF b > Len(content) THEN b ELSE Len(content)
           f == Put(content, b, v)
<1>1. /\ Len(content) \in 0..PageSize /\ DOMAIN content = 1..Len(content)
      /\ \A k \in 1..Len(content) : content[k] \in Versions
  BY ContentFacts
<1>2. n \in 0..PageSize /\ b \in 1..n /\ \A k \in 1..Len(content) : k \in 1..n
  BY <1>1, NumberFacts DEF Blocks
<1>3. f = [k \in 1..n |->
            IF k = b THEN v ELSE IF k <= Len(content) THEN content[k] ELSE Zeros]
  BY DEF Put
<1> HIDE DEF n, f
<1>4. f \in [1..n -> Versions]
  <2>1. \A k \in 1..n : k <= Len(content) => k \in 1..Len(content)
    BY <1>1, <1>2
  <2>2. QED
    BY <1>1, <1>3, <2>1, NumberFacts
<1>5. f \in Content /\ Len(f) = n
  BY <1>2, <1>4, ContentFacts
<1>6. DOMAIN f = 1..Len(f) /\ b \in DOMAIN f /\ f[b] = v
  BY <1>2, <1>3, <1>5
<1>7. \A k \in DOMAIN content : k \in DOMAIN f /\ (k # b => f[k] = content[k])
  BY <1>1, <1>2, <1>3
<1>8. QED
  BY <1>5, <1>6, <1>7 DEF f, n

(* A content that is cut, or extended by a hole, keeps the blocks before the end. *)
LEMMA ResizedFacts ==
    ASSUME NEW content \in Content, NEW n \in 0..PageSize
    PROVE  /\ Resized(content, n) \in Content /\ Len(Resized(content, n)) = n
           /\ \A k \in DOMAIN content : k \in 1..n => k \in DOMAIN Resized(content, n)
                                                      /\ Resized(content, n)[k] = content[k]
<1>1. /\ Len(content) \in 0..PageSize /\ DOMAIN content = 1..Len(content)
      /\ \A k \in 1..Len(content) : content[k] \in Versions
  BY ContentFacts
<1>2. Resized(content, n) \in [1..n -> Versions]
  <2>1. \A k \in 1..n : k <= Len(content) => k \in 1..Len(content)
    BY <1>1, NumberFacts
  <2>2. QED
    BY <1>1, <2>1, NumberFacts DEF Resized
<1>3. Resized(content, n) \in Content /\ Len(Resized(content, n)) = n
  BY <1>2, ContentFacts
<1>4. \A k \in DOMAIN content : k \in 1..n => Resized(content, n)[k] = content[k]
  BY <1>1 DEF Resized
<1>5. DOMAIN Resized(content, n) = 1..n
  BY DEF Resized
<1>6. QED
  BY <1>3, <1>4, <1>5

(* A call that takes no new handle. *)
LEMMA StartedHandles ==
    ASSUME HandleInv, NEW t \in Threads, NEW c, Starts(t, c),
           UNCHANGED <<remote, issued, opened, files, opens, lost, moved>>,
           c.op \notin OpeningOps \cup {"close", "fetch"},
           c.h # None => IsOpen(c.h) /\ opened[c.h].sub # None /\ c.sub = opened[c.h].sub,
           \A p \in Paths : dir'[p] = None \/ \E q \in Paths : dir'[p] = dir[q],
           OnePath',
           /\ dir' \in [Paths -> Inodes \cup {None}] /\ data' \in [Inodes -> Content]
           /\ stale' \subseteq Paths \X Blocks /\ unsized' \subseteq Paths
           /\ UNCHANGED <<cached, sizes, edits, due>>
    PROVE  HandleInv'
<1>1. FilesTypeOK /\ CallInv /\ TableInv /\ Shapes /\ Compatible /\ Counted /\ OnePath
  BY DEF HandleInv, CallInv
<1>2. Shapes' /\ Compatible'
  BY <1>1, StartedCalls DEF PathsStay
<1>3. Counted'
  <2>1. ASSUME NEW p \in Paths PROVE dir'[p] \in Nat /\ dir'[p] <= calls + 2
    BY <1>1, CounterFacts, NumberFacts DEF Counted
  <2>2. QED
    BY <1>1, <2>1, CountedStart
<1>4. TableInv'
  BY <1>1, TablesStart
<1>5. FilesTypeOK'
  <2>1. calls' \in 0..MaxCalls /\ call' \in [Threads -> Call]
    BY <1>1, CounterFacts, NumberFacts DEF Starts
  <2>2. QED
    BY <1>1, <2>1 DEF FilesTypeOK
<1>6. QED
  BY <1>2, <1>3, <1>4, <1>5 DEF HandleInv, CallInv

(* The calls that use a file, and those that change paths. *)
LEMMA UsingHandles ==
    ASSUME HandleInv, NEW t \in Threads,
           \/ \E h \in Handles : \/ Read(t, h)
                                  \/ \E b \in Blocks, at \in 0..PageSize : Write(t, h, b, at)
           \/ \E p \in Paths, n \in 0..PageSize : Truncate(t, p, n)
    PROVE  HandleInv'
<1>0. FilesTypeOK /\ CallInv /\ TableInv /\ Shapes /\ Compatible /\ Counted /\ OnePath
  BY DEF HandleInv, CallInv
<1>1. ASSUME calls < MaxCalls PROVE NextVersion \in Versions
  BY <1>0, <1>1, CounterFacts, NumberFacts DEF NextVersion, Versions
<1>2. ASSUME dir' = dir
      PROVE  /\ \A p \in Paths : dir'[p] = None \/ \E q \in Paths : dir'[p] = dir[q]
             /\ OnePath' /\ dir' \in [Paths -> Inodes \cup {None}]
  BY <1>0, <1>2 DEF OnePath, FilesTypeOK
<1>3. ASSUME NEW h \in Handles, IsOpen(h), opened[h].sub # None
      PROVE  remote[opened[h].sub] \in Inodes /\ opened[h].sub \in Handles
  BY <1>0, <1>3 DEF TableInv, Live, FilesTypeOK
<1>4. ASSUME NEW h \in Handles, Read(t, h) PROVE HandleInv'
  <2> DEFINE c == [NoCall EXCEPT !.op = "read", !.h = h, !.sub = opened[h].sub,
                                 !.got = data[remote[opened[h].sub]]]
  <2>1. /\ c.op = "read" /\ c.p = NoPath /\ c.q = NoPath /\ c.h = h /\ c.sub = opened[h].sub
        /\ c \in [op : {"read"}, p : {NoPath}, q : {NoPath}, h : Handles, sub : {opened[h].sub},
                  b : {0}, got : {data[remote[opened[h].sub]]}, overtaken : {FALSE}]
    BY DEF NoCall
  <2>2. /\ Begin(t, c) /\ IsOpen(h) /\ opened[h].sub # None
        /\ call' = [call EXCEPT ![t] = c]
        /\ UNCHANGED <<dir, data, remote, issued, opened, files, opens, stale, unsized, lost,
                       moved>>
    BY <1>4 DEF Read, tableVars, serverVars
  <2>3. calls < MaxCalls /\ UNCHANGED <<cached, sizes, edits, due>>
    BY <2>2 DEF Begin, cacheVars
  <2>4. opened[h].sub \in Handles /\ data[remote[opened[h].sub]] \in Content
    BY <1>0, <1>3, <2>2 DEF FilesTypeOK
  <2>5. c \in Call /\ Shaped(c)
    BY <2>1, <2>4, NumberFacts DEF Call, Ops, Shaped, OpeningOps, MovingOps, HandleOps
  <2> HIDE DEF c
  <2>6. Starts(t, c)
    BY <1>0, <2>1, <2>2, <2>5, BeginStarts
  <2>7. data' \in [Inodes -> Content] /\ stale' \subseteq Paths \X Blocks /\ unsized' \subseteq Paths
    BY <1>0, <2>2 DEF FilesTypeOK
  <2>8. QED
    BY <1>2, <2>1, <2>2, <2>3, <2>6, <2>7, StartedHandles DEF OpeningOps
<1>5. ASSUME NEW h \in Handles, NEW b \in Blocks, NEW at \in 0..PageSize, Write(t, h, b, at)
      PROVE  HandleInv'
  <2> DEFINE file == remote[opened[h].sub]
             c == [NoCall EXCEPT !.op = "write", !.h = h, !.sub = opened[h].sub, !.b = b,
                                 !.got = <<NextVersion>>, !.overtaken = at # b]
             own == {opened[h].path} \cap {files[h].path}
  <2>1. /\ c.op = "write" /\ c.p = NoPath /\ c.q = NoPath /\ c.h = h /\ c.sub = opened[h].sub
        /\ c.b = b /\ c.got = <<NextVersion>>
        /\ c \in [op : {"write"}, p : {NoPath}, q : {NoPath}, h : Handles, sub : {opened[h].sub},
                  b : {b}, got : {<<NextVersion>>}, overtaken : BOOLEAN]
    BY DEF NoCall
  <2>2. /\ Begin(t, c) /\ IsOpen(h) /\ opened[h].sub # None
        /\ \/ /\ at = None /\ call' = [call EXCEPT ![t] = c]
              /\ UNCHANGED <<data, stale, unsized>>
           \/ /\ at # None
              /\ data' = [data EXCEPT ![file] = Put(@, at, NextVersion)]
              /\ call' = [Overtaken(call, file) EXCEPT ![t] = c]
              /\ stale' \subseteq stale \cup (PathsTo(file) \X {at})
              /\ unsized' \subseteq unsized \cup PathsTo(file)
        /\ UNCHANGED <<dir, remote, issued, opened, files, opens, lost, moved>>
    <3>1. /\ Begin(t, c) /\ IsOpen(h) /\ opened[h].sub # None
          /\ UNCHANGED <<dir, remote, issued, opened, files, opens, lost, moved>>
      BY <1>5 DEF Write, tableVars
    <3>2. CASE at = None
      BY <1>5, <3>1, <3>2 DEF Write
    <3>3. CASE at # None
      <4>1. /\ data' = [data EXCEPT ![file] = Put(@, at, NextVersion)]
            /\ call' = [Overtaken(call, file) EXCEPT ![t] = c]
            /\ stale' = stale \cup ((PathsTo(file) \ (IF at = b THEN own ELSE {})) \X {at})
            /\ unsized' = unsized \cup (PathsTo(file) \ own)
        BY <1>5, <3>3 DEF Write
      <4>2. stale' \subseteq stale \cup (PathsTo(file) \X {at})
        BY <4>1
      <4>3. QED
        BY <3>1, <3>3, <4>1, <4>2
    <3>4. QED
      BY <3>2, <3>3
  <2>3. calls < MaxCalls /\ UNCHANGED <<cached, sizes, edits, due>>
    BY <2>2 DEF Begin, cacheVars
  <2>4. opened[h].sub \in Handles /\ file \in Inodes /\ NextVersion \in Versions
        /\ PathsTo(file) \subseteq Paths /\ (at # None => at \in Blocks)
    BY <1>1, <1>3, <2>2, <2>3, NumberFacts DEF PathsTo, Blocks
  <2>5. c \in Call /\ Shaped(c)
    BY <2>1, <2>4, SmallContents, NumberFacts
       DEF Call, Ops, Shaped, OpeningOps, MovingOps, HandleOps
  <2> HIDE DEF c, own, file
  <2>6. Starts(t, c)
    BY <1>0, <2>1, <2>2, <2>5, BeginStarts
  <2>7. data' \in [Inodes -> Content]
    <3>1. CASE at = None
      BY <1>0, <2>2, <3>1 DEF FilesTypeOK
    <3>2. CASE at # None
      <4>1. Put(data[file], at, NextVersion) \in Content
        BY <1>0, <2>4, <3>2, PutFacts DEF FilesTypeOK
      <4>2. QED
        BY <1>0, <2>2, <3>2, <4>1 DEF FilesTypeOK
    <3>3. QED
      BY <3>1, <3>2
  <2>8. stale' \subseteq Paths \X Blocks /\ unsized' \subseteq Paths
    BY <1>0, <2>2, <2>4 DEF FilesTypeOK
  <2>9. QED
    BY <1>2, <2>1, <2>2, <2>3, <2>6, <2>7, <2>8, StartedHandles DEF OpeningOps
<1>6. ASSUME NEW p \in Paths, NEW n \in 0..PageSize, Truncate(t, p, n) PROVE HandleInv'
  <2> DEFINE c == [NoCall EXCEPT !.op = "truncate", !.p = p]
  <2>1. /\ c.op = "truncate" /\ c.p = p /\ c.q = NoPath /\ c.h = None /\ c.sub = None
        /\ c \in [op : {"truncate"}, p : Paths, q : {NoPath}, h : {None}, sub : {None},
                  b : {0}, got : {<<>>}, overtaken : {FALSE}]
    BY DEF NoCall
  <2>2. /\ Begin(t, c) /\ dir[p] # None
        /\ data' = [data EXCEPT ![dir[p]] = Resized(@, n)]
        /\ call' = Overtaken([call EXCEPT ![t] = c], dir[p])
        /\ stale' = stale \cup ({p} \X (Blocks \ 1..n))
        /\ UNCHANGED <<dir, remote, issued, opened, files, opens, unsized, lost, moved>>
    BY <1>6 DEF Truncate, tableVars
  <2>3. calls < MaxCalls /\ UNCHANGED <<cached, sizes, edits, due>>
    BY <2>2 DEF Begin, cacheVars
  <2>4. dir[p] \in Inodes
    BY <1>0, <2>2 DEF FilesTypeOK
  <2>5. c \in Call /\ Shaped(c)
    BY <2>1, SmallContents, NumberFacts DEF Call, Ops, Shaped, OpeningOps, MovingOps, HandleOps
  <2> HIDE DEF c
  <2>6. Starts(t, c)
    BY <1>0, <2>1, <2>2, <2>5, BeginStarts
  <2>7. data' \in [Inodes -> Content]
    <3>1. Resized(data[dir[p]], n) \in Content
      BY <1>0, <2>4, ResizedFacts DEF FilesTypeOK
    <3>2. QED
      BY <1>0, <2>2, <3>1 DEF FilesTypeOK
  <2>8. stale' \subseteq Paths \X Blocks /\ unsized' \subseteq Paths
    BY <1>0, <2>2 DEF FilesTypeOK
  <2>9. QED
    BY <1>2, <2>1, <2>2, <2>3, <2>6, <2>7, <2>8, StartedHandles DEF OpeningOps
<1>7. QED
  BY <1>4, <1>5, <1>6


(* What the served paths are after one was removed, renamed or exchanged. *)
LEMMA ExecuteFacts ==
    ASSUME NEW op \in MovingOps, NEW p \in Paths, NEW q \in Paths, Execute(op, p, q)
    PROVE  /\ (op = "unlink") <=> (q = p)
           /\ dir[p] # None
           /\ op = "exchange" => dir[q] # None
           /\ dir' = [r \in Paths |->
                         CASE op # "unlink" /\ r = q -> dir[p]
                           [] r = p -> IF op = "exchange" THEN dir[q] ELSE None
                           [] OTHER -> dir[r]]
           /\ \A r \in Paths \ {p, q} : dir'[r] = dir[r]
           /\ dir'[p] = IF op = "exchange" THEN dir[q] ELSE None
           /\ op # "unlink" => dir'[q] = dir[p]
           /\ \A r \in Paths : dir'[r] = None \/ \E s \in Paths : dir'[r] = dir[s]
           /\ FilesTypeOK => dir' \in [Paths -> Inodes \cup {None}]
           /\ OnePath => OnePath'
<1>1. (op = "unlink") <=> (q = p)
  BY DEF Execute, MovingOps
<1>2. /\ dir[p] # None
      /\ op = "exchange" => dir[q] # None
      /\ dir' = [r \in Paths |->
                    CASE op # "unlink" /\ r = q -> dir[p]
                      [] r = p -> IF op = "exchange" THEN dir[q] ELSE None
                      [] OTHER -> dir[r]]
  BY DEF Execute
<1>3. /\ \A r \in Paths \ {p, q} : dir'[r] = dir[r]
      /\ dir'[p] = IF op = "exchange" THEN dir[q] ELSE None
      /\ op # "unlink" => dir'[q] = dir[p]
  BY <1>1, <1>2 DEF MovingOps
<1>4. \A r \in Paths : dir'[r] = None \/ \E s \in Paths : dir'[r] = dir[s]
  BY <1>1, <1>3 DEF MovingOps
<1>5. OnePath => OnePath'
  BY <1>1, <1>3 DEF OnePath, MovingOps
<1>6. FilesTypeOK => dir' \in [Paths -> Inodes \cup {None}]
  BY <1>2 DEF FilesTypeOK
<1>7. QED
  BY <1>1, <1>2, <1>3, <1>4, <1>5, <1>6

(* The calls that change paths. *)
LEMMA ChangingHandles ==
    ASSUME HandleInv, NEW t \in Threads, NEW op \in MovingOps, NEW p \in Paths, NEW q \in Paths,
           Change(t, op, p, q)
    PROVE  HandleInv'
<1>0. FilesTypeOK /\ CallInv /\ TableInv /\ Shapes /\ Compatible /\ Counted /\ OnePath
  BY DEF HandleInv, CallInv
<1> DEFINE c == [NoCall EXCEPT !.op = op, !.p = p, !.q = q]
<1>1. /\ c.op = op /\ c.p = p /\ c.q = q /\ c.h = None /\ c.sub = None
      /\ c \in [op : {op}, p : Paths, q : Paths, h : {None}, sub : {None},
                b : {0}, got : {<<>>}, overtaken : {FALSE}]
  BY DEF NoCall
<1>2. /\ Begin(t, c) /\ call' = [call EXCEPT ![t] = c]
      /\ UNCHANGED <<data, remote, issued, opened, files, opens, stale, unsized, lost, moved>>
  BY DEF Change, tableVars
<1>3. (op = "unlink") <=> (q = p)
  BY ExecuteFacts DEF Change
<1>4. calls < MaxCalls /\ UNCHANGED <<cached, sizes, edits, due>>
  BY <1>2 DEF Begin, cacheVars
<1>5. c \in Call /\ Shaped(c)
  BY <1>1, <1>3, SmallContents, NumberFacts
     DEF Call, Ops, Shaped, OpeningOps, MovingOps, HandleOps
<1> HIDE DEF c
<1>6. Starts(t, c)
  BY <1>0, <1>1, <1>2, <1>5, BeginStarts DEF MovingOps
<1>7. Execute(op, p, q)
  BY DEF Change
<1>8. /\ \A r \in Paths : dir'[r] = None \/ \E s \in Paths : dir'[r] = dir[s]
      /\ dir' \in [Paths -> Inodes \cup {None}]
      /\ OnePath'
  BY <1>0, <1>7, ExecuteFacts
<1>9. QED
  BY <1>0, <1>1, <1>2, <1>4, <1>6, <1>8, StartedHandles
     DEF OpeningOps, MovingOps, FilesTypeOK

(* Calls that end, or go on, and leave table and directory. *)
LEMMA GoneHandles ==
    ASSUME HandleInv, TableStays, NothingFound, PathsStay,
           UNCHANGED <<dir, remote, issued, calls>>,
           \/ AllGoOn
           \/ \E t \in Threads :
                /\ Ends(t) /\ call[t].op # "close"
                /\ \/ call[t].sub \in lost' \cup {None}
                   \/ \E h \in Handles : opened[h].sub = call[t].sub,
           /\ data' \in [Inodes -> Content] /\ edits' \in 0..MaxEdits
           /\ cached' \in [Paths -> [Blocks -> Versions \cup {Garbage, Unknown}]]
           /\ sizes' \in [Paths -> 0..Absent]
           /\ stale' \subseteq Paths \X Blocks /\ unsized' \subseteq Paths
           /\ lost' \cup moved' \subseteq Handles /\ due' \in BOOLEAN
    PROVE  HandleInv'
<1>1. FilesTypeOK /\ CallInv /\ TableInv /\ Shapes /\ Compatible /\ Counted /\ OnePath
  BY DEF HandleInv, CallInv
<1>2. opens' = opens /\ (AllGoOn \/ \E t \in Threads : Ends(t))
  BY DEF TableStays
<1>3. Shapes' /\ Compatible'
  BY <1>1, <1>2, GoingCalls
<1>4. Counted'
  BY <1>1, <1>2, CountedGo
<1>5. TableInv'
  BY <1>1, TablesGo
<1>6. OnePath'
  BY <1>1 DEF OnePath
<1>7. call' \in [Threads -> Call]
  BY <1>2 DEF AllGoOn, Ends
<1>8. FilesTypeOK'
  BY <1>1, <1>7 DEF FilesTypeOK, TableStays
<1>9. QED
  BY <1>3, <1>4, <1>5, <1>6, <1>8 DEF HandleInv, CallInv

(* The table that is not touched. *)
LEMMA SameTable ==
    ASSUME HandleInv, UNCHANGED <<opened, files, opens>>
    PROVE  TableStays /\ PathsStay
BY DEF HandleInv, FilesTypeOK, TableInv, Tabled, TableStays, PathsStay

(* A command that is executed late: calls go on, and the server gives a handle at most, *)
(* which is lost. *)
LEMMA LateHandles ==
    ASSUME HandleInv, AllGoOn, calls < MaxCalls, calls' = calls + 1,
           UNCHANGED <<opened, files, opens, cached, sizes, edits, stale, unsized, moved>>,
           due' \in BOOLEAN, data' \in [Inodes -> Content],
           dir' \in [Paths -> Inodes \cup {None}], OnePath',
           \A p \in Paths : dir'[p] = calls + 2 \/ dir'[p] = None \/ \E q \in Paths : dir'[p] = dir[q],
           \/ UNCHANGED <<remote, issued, lost>>
           \/ \E file \in Inodes :
                /\ file = calls + 2 \/ \E q \in Paths : file = dir[q]
                /\ issued' = issued + 1 /\ remote' = [remote EXCEPT ![issued + 1] = file]
                /\ lost' = lost \cup {issued + 1}
    PROVE  HandleInv'
<1> DEFINE s == issued + 1
<1>1. FilesTypeOK /\ CallInv /\ TableInv /\ Shapes /\ Compatible /\ Counted /\ OnePath
  BY DEF HandleInv, CallInv
<1>2. /\ calls \in Nat /\ MaxCalls \in Nat /\ issued \in Nat /\ opens \in Nat
      /\ s \in Handles /\ s # None
  BY <1>1, CounterFacts, NumberFacts DEF Counted
<1>3. \A u \in Threads : /\ call'[u] \in Call /\ GoesOn(call[u], call'[u])
                          /\ call'[u].h = call[u].h /\ call'[u].sub = call[u].sub
                          /\ call'[u].op = call[u].op
                          /\ call[u].h \in Handles \cup {None}
                          /\ call[u].sub \in Handles \cup {None}
  BY <1>1, CallParts DEF AllGoOn, GoesOn, SameCall
<1>4. /\ \A h \in Handles : opened[h].sub \in Handles \cup {None} /\ opened[h].sub # s
      /\ \A u \in Threads : call[u].sub # s
  BY <1>1, <1>2 DEF TableInv, Issued, FilesTypeOK
<1>5. /\ \A r \in Handles : r # s => remote'[r] = remote[r]
      /\ lost \subseteq lost' /\ lost' \subseteq Handles
      /\ remote' \in [Handles -> Inodes \cup {None}] /\ issued' \in Handles \cup {None}
      /\ issued' \in {issued, s}
      /\ remote'[s] = None \/ s \in lost'
      /\ issued' = issued => remote' = remote
  <2>1. CASE UNCHANGED <<remote, issued, lost>>
    <3>1. remote[s] = None
      BY <1>1, <1>2 DEF TableInv, Issued
    <3>2. QED
      BY <1>1, <2>1, <3>1 DEF FilesTypeOK
  <2>2. CASE ~UNCHANGED <<remote, issued, lost>>
    <3>1. PICK file \in Inodes : /\ issued' = issued + 1
                                 /\ remote' = [remote EXCEPT ![issued + 1] = file]
                                 /\ lost' = lost \cup {issued + 1}
      BY <2>2
    <3>2. issued' # issued
      BY <1>2, <3>1
    <3>3. QED
      BY <1>1, <1>2, <3>1, <3>2 DEF FilesTypeOK
  <2>3. QED
    BY <2>1, <2>2
<1>6. PathsStay
  BY DEF PathsStay
<1>7. Shapes' /\ Compatible'
  BY <1>1, <1>6, GoingCalls
<1>8. Counted'
  <2>1. Pending' = Pending
    BY <1>3 DEF Pending
  <2>2. Cardinality(Pending) \in Nat
    BY <1>1, PendingFacts
  <2>3. \A p \in Paths : dir'[p] <= calls + 2
    BY <1>1, <1>2, CounterFacts, NumberFacts DEF Counted
  <2>4. \A r \in Handles : remote'[r] <= calls + 2
    <3>1. CASE UNCHANGED <<remote, issued, lost>>
      BY <1>1, <1>2, <3>1, CounterFacts DEF Counted
    <3>2. CASE ~UNCHANGED <<remote, issued, lost>>
      <4>1. PICK file \in Inodes : /\ file = calls + 2 \/ \E q \in Paths : file = dir[q]
                                   /\ remote' = [remote EXCEPT ![issued + 1] = file]
        BY <3>2
      <4>2. file <= calls + 2
        BY <1>1, <1>2, <4>1, CounterFacts DEF Counted
      <4>3. remote'[s] = file
        BY <1>1, <1>2, <4>1 DEF FilesTypeOK
      <4>4. QED
        BY <1>1, <1>2, <1>5, <4>2, <4>3, CounterFacts DEF Counted
    <3>3. QED
      BY <3>1, <3>2
  <2>5. issued' <= calls' + 1 /\ opens' + Cardinality(Pending)' <= calls' + 2
    BY <1>1, <1>2, <1>5, <2>1, <2>2, CounterFacts DEF Counted
  <2>6. QED
    BY <1>2, <2>3, <2>4, <2>5 DEF Counted
<1>9. FilesTypeOK'
  <2>1. calls' \in 0..MaxCalls /\ call' \in [Threads -> Call]
    BY <1>2 DEF AllGoOn
  <2>2. QED
    BY <1>1, <1>5, <2>1 DEF FilesTypeOK
<1>10. \A h \in Handles : IsOpen(h)' <=> IsOpen(h)
  BY <1>3 DEF IsOpen
<1>11. Tabled' /\ InUse'
  BY <1>1, <1>3 DEF TableInv, Tabled, InUse
<1>12. Issued'
  <2>1. \A r \in Handles : r > issued' => remote'[r] = None
    BY <1>1, <1>2, <1>5, NumberFacts DEF TableInv, Issued
  <2>0. \A n \in Handles \cup {None} : n <= issued => n <= issued'
    BY <1>2, <1>5, NumberFacts
  <2>2. \A h \in Handles : opened[h].sub <= issued'
    BY <1>1, <1>4, <2>0 DEF TableInv, Issued
  <2>3. \A u \in Threads : call'[u].sub <= issued'
    BY <1>1, <1>3, <2>0 DEF TableInv, Issued
  <2>4. QED
    BY <2>1, <2>2, <2>3 DEF Issued
<1>13. OneOwner'
  BY <1>1, <1>3 DEF TableInv, OneOwner
<1> HIDE DEF s
<1>14. Live'
  <2>1. \A u \in Threads : call'[u].sub # None => remote'[call'[u].sub] # None
    BY <1>1, <1>3, <1>4, <1>5 DEF TableInv, Live
  <2>2. \A h \in Handles : IsOpen(h)' /\ opened[h].sub # None => remote'[opened[h].sub] # None
    BY <1>1, <1>4, <1>5, <1>10 DEF TableInv, Live
  <2>3. \A u \in Threads : call[u].op = "close" => call[u].h \in Handles
    BY <1>1, <1>3 DEF Shapes, Shaped
  <2>4. \A u \in Threads : call'[u].op = "close" /\ opened[call'[u].h].sub # None =>
                             remote'[opened[call'[u].h].sub] = None
    BY <1>1, <1>3, <1>4, <1>5, <2>3 DEF TableInv, Live
  <2>5. QED
    BY <2>1, <2>2, <2>4 DEF Live
<1>15. WriteKept'
  BY <1>1, <1>3, <1>5 DEF TableInv, WriteKept
<1>16. NoHandleLeak'
  <2>1. ASSUME NEW r \in Handles, remote'[r] # None, r \notin lost' PROVE remote[r] # None
    BY <1>5, <2>1
  <2>2. QED
    BY <1>1, <1>3, <1>5, <2>1 DEF TableInv, NoHandleLeak
<1>17. RightCall'
  <2>1. \A u \in Threads : call[u].op \in HandleOps => call[u].sub \in Handles
    BY <1>1, <1>3 DEF Shapes, Shaped
  <2>2. QED
    BY <1>1, <1>3, <1>4, <1>5, <2>1 DEF TableInv, RightCall
<1>18. RightFile'
  BY <1>1, <1>4, <1>5, <1>10 DEF TableInv, RightFile
<1>19. QED
  BY <1>7, <1>8, <1>9, <1>11, <1>12, <1>13, <1>14, <1>15, <1>16, <1>17, <1>18
     DEF HandleInv, CallInv, TableInv

(* Somebody changes a file on the server, or a command is executed late. *)
LEMMA ServedHandles == ASSUME HandleInv, ServerStep PROVE HandleInv'
<1>0. FilesTypeOK /\ CallInv /\ TableInv /\ Shapes /\ Counted /\ OnePath
  BY DEF HandleInv, CallInv
<1>1. ASSUME NEW file \in Inodes \cup {None}, call' = Overtaken(call, file) PROVE AllGoOn
  BY <1>0, <1>1, OvertakenFacts DEF AllGoOn, FilesTypeOK
<1>2. ASSUME dir' = dir
      PROVE  /\ dir' \in [Paths -> Inodes \cup {None}] /\ OnePath'
             /\ \A p \in Paths : \E q \in Paths : dir'[p] = dir[q]
  BY <1>0, <1>2 DEF FilesTypeOK, OnePath
<1>3. ASSUME NEW p \in Paths, NEW n \in 0..PageSize, Edit(p, n) PROVE HandleInv'
  <2>1. /\ edits < MaxEdits /\ dir[p] # None /\ edits' = edits + 1 /\ due' = TRUE
        /\ data' = [data EXCEPT ![dir[p]] = [k \in 1..n |-> NextVersion]]
        /\ call' = Overtaken(call, dir[p])
        /\ UNCHANGED <<dir, remote, issued, opened, files, opens, cached, sizes, calls, stale,
                       unsized, lost, moved>>
    BY <1>3 DEF Edit, Unnoticed, tableVars, cacheVars
  <2>2. AllGoOn
    BY <1>0, <2>1, OvertakenFacts DEF AllGoOn, FilesTypeOK
  <2>3. NextVersion \in Versions /\ edits' \in 0..MaxEdits
    <3>1. /\ edits < MaxEdits /\ edits' = edits + 1 /\ edits \in Nat /\ MaxEdits \in Nat
          /\ calls \in Nat /\ calls <= MaxCalls /\ MaxCalls \in Nat
      BY <1>0, <2>1, CounterFacts, NumberFacts
    <3>2. QED
      BY <3>1 DEF NextVersion, Versions
  <2>4. [k \in 1..n |-> NextVersion] \in Content
    BY <2>3, ContentFacts
  <2>5. data' \in [Inodes -> Content]
    BY <1>0, <2>1, <2>4 DEF FilesTypeOK
  <2>6. TableStays /\ PathsStay /\ NothingFound
    BY <2>1, SameTable DEF NothingFound
  <2>7. QED
    BY <1>0, <2>1, <2>2, <2>3, <2>5, <2>6, GoneHandles DEF FilesTypeOK
<1>4. ASSUME Late
      PROVE  /\ calls < MaxCalls /\ calls' = calls + 1 /\ due' \in BOOLEAN
             /\ UNCHANGED <<opened, files, opens, cached, sizes, edits, stale, unsized, moved>>
             /\ NextVersion \in Versions /\ NextFile \in Inodes
  <2>1. /\ calls < MaxCalls /\ calls' = calls + 1 /\ due' \in BOOLEAN
        /\ UNCHANGED <<opened, files, opens, cached, sizes, edits, stale, unsized, moved>>
    BY <1>4 DEF Late, Unnoticed, tableVars, cacheVars
  <2>2. QED
    BY <1>0, <2>1, CounterFacts, NumberFacts DEF NextVersion, Versions, NextFile
<1>5. ASSUME NEW s \in Handles, NEW b \in Blocks, LateWrite(s, b) PROVE HandleInv'
  <2>1. /\ Late /\ remote[s] # None
        /\ data' = [data EXCEPT ![remote[s]] = Put(@, b, NextVersion)]
        /\ call' = Overtaken(call, remote[s])
        /\ UNCHANGED <<dir, remote, issued, lost>>
    BY <1>5 DEF LateWrite
  <2>2. remote[s] \in Inodes /\ Put(data[remote[s]], b, NextVersion) \in Content
    BY <1>0, <1>4, <2>1, PutFacts DEF FilesTypeOK
  <2>3. data' \in [Inodes -> Content]
    BY <1>0, <2>1, <2>2 DEF FilesTypeOK
  <2>4. QED
    BY <1>1, <1>2, <1>4, <2>1, <2>2, <2>3, LateHandles
<1>6. ASSUME NEW p \in Paths, NEW n \in 0..PageSize, LateTruncate(p, n) PROVE HandleInv'
  <2>1. /\ Late /\ dir[p] # None
        /\ data' = [data EXCEPT ![dir[p]] = Resized(@, n)]
        /\ call' = Overtaken(call, dir[p])
        /\ UNCHANGED <<dir, remote, issued, lost>>
    BY <1>6 DEF LateTruncate
  <2>2. dir[p] \in Inodes /\ Resized(data[dir[p]], n) \in Content
    BY <1>0, <2>1, ResizedFacts DEF FilesTypeOK
  <2>3. data' \in [Inodes -> Content]
    BY <1>0, <2>1, <2>2 DEF FilesTypeOK
  <2>4. QED
    BY <1>1, <1>2, <1>4, <2>1, <2>2, <2>3, LateHandles
<1>7. ASSUME NEW p \in Paths, NEW trunc \in BOOLEAN, LateOpen(p, trunc) PROVE HandleInv'
  <2>1. /\ Late /\ dir[p] # None /\ dir' = dir
        /\ issued' = issued + 1 /\ remote' = [remote EXCEPT ![issued + 1] = dir[p]]
        /\ lost' = lost \cup {issued + 1}
        /\ \/ data' = [data EXCEPT ![dir[p]] = <<>>] /\ call' = Overtaken(call, dir[p])
           \/ UNCHANGED <<data, call>>
    BY <1>7 DEF LateOpen, Opening
  <2>2. dir[p] \in Inodes
    BY <1>0, <2>1 DEF FilesTypeOK
  <2>3. data' \in [Inodes -> Content]
    BY <1>0, <2>1, SmallContents DEF FilesTypeOK
  <2>4. AllGoOn
    <3>1. CASE call' = call
      BY <1>0, <3>1 DEF AllGoOn, FilesTypeOK, GoesOn, SameCall
    <3>2. QED
      BY <1>1, <2>1, <2>2, <3>1
  <2>5. QED
    BY <1>2, <1>4, <2>1, <2>2, <2>3, <2>4, LateHandles
<1>8. ASSUME NEW p \in Paths, LateCreate(p) PROVE HandleInv'
  <2>1. /\ Late /\ dir[p] = None /\ dir' = [dir EXCEPT ![p] = NextFile]
        /\ issued' = issued + 1 /\ remote' = [remote EXCEPT ![issued + 1] = NextFile]
        /\ lost' = lost \cup {issued + 1} /\ call' = Rerouted(p, p) /\ data' = data
    BY <1>8 DEF LateCreate, Opening
  <2>2. NextFile \in Inodes /\ NextFile = calls + 2
    BY <1>4, <2>1 DEF NextFile
  <2>3. dir' \in [Paths -> Inodes \cup {None}]
        /\ \A q \in Paths : dir'[q] = calls + 2 \/ \E r \in Paths : dir'[q] = dir[r]
    BY <1>0, <2>1, <2>2 DEF FilesTypeOK
  <2>4. OnePath'
    <3>1. \A q \in Paths : dir[q] # calls + 2
      BY <1>0, CounterFacts DEF Counted
    <3>2. QED
      BY <1>0, <2>1, <2>2, <3>1 DEF OnePath, FilesTypeOK
  <2>5. AllGoOn /\ data' \in [Inodes -> Content]
    BY <1>0, <2>1, ReroutedFacts DEF AllGoOn, FilesTypeOK
  <2>6. QED
    BY <1>4, <2>1, <2>2, <2>3, <2>4, <2>5, LateHandles
<1>9. ASSUME NEW op \in MovingOps, NEW p \in Paths, NEW q \in Paths, LateChange(op, p, q)
      PROVE  HandleInv'
  <2>1. /\ Late /\ Execute(op, p, q) /\ call' = Rerouted(p, q)
        /\ UNCHANGED <<data, remote, issued, lost>>
    BY <1>9 DEF LateChange
  <2>2. /\ \A r \in Paths : dir'[r] = None \/ \E s \in Paths : dir'[r] = dir[s]
        /\ dir' \in [Paths -> Inodes \cup {None}] /\ OnePath'
    BY <1>0, <2>1, ExecuteFacts
  <2>3. AllGoOn /\ data' \in [Inodes -> Content]
    BY <1>0, <2>1, ReroutedFacts DEF AllGoOn, FilesTypeOK
  <2>4. QED
    BY <1>4, <2>1, <2>2, <2>3, LateHandles
<1>10. ASSUME NEW h \in Handles, LateClose(h) PROVE HandleInv'
  <2> DEFINE s == opened[h].sub
  <2>1. /\ files[h] = NoFile /\ s # None
        /\ remote' = [remote EXCEPT ![s] = None]
        /\ UNCHANGED <<dir, data, issued, opened, files, opens, cached, sizes, call, calls, edits,
                       stale, unsized, lost, moved, due>>
    BY <1>10 DEF LateClose, tableVars, cacheVars, historyVars
  <2>2. s \in Handles
    BY <1>0, <2>1 DEF FilesTypeOK
  <2>3. /\ \A r \in Handles : r # s => remote'[r] = remote[r]
        /\ remote'[s] = None
        /\ remote' \in [Handles -> Inodes \cup {None}]
    BY <1>0, <2>1, <2>2 DEF FilesTypeOK
  \* The handle is that of a closed file: no call works on it.
  <2>4. \A u \in Threads : call[u].sub # s
    <3>1. ASSUME NEW u \in Threads, call[u].sub = s PROVE FALSE
      <4>1. call[u].h = h
        BY <1>0, <2>1, <3>1 DEF TableInv, OneOwner
      <4>2. QED
        BY <1>0, <2>1, <4>1, NumberFacts DEF TableInv, InUse
    <3>2. QED
      BY <3>1
  <2>5. \A g \in Handles : files[g] # NoFile => opened[g].sub # s
    BY <1>0, <2>1 DEF TableInv, OneOwner
  <2>6. \A u \in Threads : call[u].sub \in Handles \cup {None} /\ call[u].h \in Handles \cup {None}
    BY <1>0, CallParts
  <2> HIDE DEF s
  <2>7. FilesTypeOK'
    BY <1>0, <2>1, <2>3 DEF FilesTypeOK
  <2>8. Shapes' /\ Compatible' /\ OnePath'
    BY <2>1 DEF HandleInv, CallInv, Shapes, Shaped, OnePath, Compatible, Conflict, PathsOf
  <2>9. Counted'
    <3>1. Pending' = Pending
      BY <2>1 DEF Pending
    <3>2. \A r \in Handles : remote'[r] <= calls + 1
      <4>1. 0 <= calls + 1
        BY <1>0, CounterFacts
      <4>2. QED
        BY <1>0, <2>3, <4>1, NumberFacts DEF Counted
    <3>3. QED
      BY <1>0, <2>1, <3>1, <3>2 DEF Counted
  <2>10. /\ \A g \in Handles : IsOpen(g)' <=> IsOpen(g)
         /\ \A g \in Handles : IsOpen(g) => opened[g].sub # s
    <3>1. files' = files /\ call' = call
      BY <2>1
    <3>2. QED
      BY <2>5, <3>1 DEF IsOpen
  <2>11. \A g \in Handles : opened[g].sub \in Handles \cup {None}
    BY <1>0 DEF FilesTypeOK
  <2>12. Tabled' /\ InUse' /\ Issued' /\ OneOwner' /\ WriteKept'
    BY <1>0, <2>1, <2>3 DEF TableInv, Tabled, InUse, Issued, OneOwner, WriteKept
  <2>13. Live'
    <3>1. \A u \in Threads : call[u].sub # None => remote'[call[u].sub] # None
      BY <1>0, <2>3, <2>4, <2>6 DEF TableInv, Live
    <3>2. \A g \in Handles : IsOpen(g) /\ opened[g].sub # None => remote'[opened[g].sub] # None
      <4>1. \A g \in Handles : IsOpen(g) /\ opened[g].sub # None => remote[opened[g].sub] # None
        BY <1>0 DEF TableInv, Live
      <4>2. QED
        BY <2>3, <2>10, <2>11, <4>1
    <3>3. \A u \in Threads : call[u].op = "close" => call[u].h \in Handles
      BY <1>0, <2>6 DEF Shapes, Shaped
    <3>4. \A u \in Threads : call[u].op = "close" /\ opened[call[u].h].sub # None =>
                               remote'[opened[call[u].h].sub] = None
      <4>1. \A u \in Threads : call[u].op = "close" /\ opened[call[u].h].sub # None =>
                                 remote[opened[call[u].h].sub] = None
        BY <1>0 DEF TableInv, Live
      <4>2. QED
        BY <2>3, <2>11, <3>3, <4>1
    <3>5. QED
      BY <2>1, <2>10, <3>1, <3>2, <3>4 DEF Live
  <2>14. NoHandleLeak'
    BY <1>0, <2>1, <2>3 DEF TableInv, NoHandleLeak
  <2>15. RightCall'
    <3>1. \A u \in Threads : call[u].op \in HandleOps => call[u].sub \in Handles
      BY <1>0, <2>6 DEF Shapes, Shaped
    <3>2. RightCall /\ call' = call /\ files' = files /\ moved' = moved
      BY <1>0, <2>1 DEF TableInv
    <3>3. QED
      BY <2>3, <2>4, <3>1, <3>2 DEF RightCall
  <2>16. RightFile'
    BY <1>0, <2>1, <2>3, <2>10, <2>11 DEF TableInv, RightFile
  <2>17. QED
    BY <2>7, <2>8, <2>9, <2>12, <2>13, <2>14, <2>15, <2>16 DEF HandleInv, CallInv, TableInv
<1>11. Namespace \ {"create"} = MovingOps
  BY DEF Namespace, MovingOps
<1>12. QED
  BY <1>3, <1>5, <1>6, <1>7, <1>8, <1>9, <1>10, <1>11 DEF ServerStep

(* The tree is loaded. *)
LEMMA LoadingHandles ==
    ASSUME HandleInv, LoadTypeOK, LoadStep
    PROVE  HandleInv'
<1>0. FilesTypeOK /\ CallInv /\ TableInv
  BY DEF HandleInv
<1>1. ASSUME UNCHANGED <<dir, data, remote, issued, opened, files, opens, calls, edits, unsized, lost,
                         moved, due, sizes, call>>,
             cached' \in [Paths -> [Blocks -> Versions \cup {Garbage, Unknown}]],
             stale' \subseteq Paths \X Blocks
      PROVE  HandleInv'
  <2>1. AllGoOn
    BY <1>0, <1>1 DEF AllGoOn, FilesTypeOK, GoesOn, SameCall
  <2>2. TableStays /\ PathsStay /\ NothingFound
    BY <1>1, SameTable DEF NothingFound
  <2>3. QED
    BY <1>0, <1>1, <2>1, <2>2, GoneHandles DEF FilesTypeOK
<1>2. CASE Scan \/ LoadFails \/ LoadEnds
  <2>1. UNCHANGED <<dir, data, remote, issued, opened, files, opens, cached, sizes, call, calls,
                    edits, stale, unsized, lost, moved, due>>
    BY <1>2 DEF Scan, LoadFails, LoadEnds, serverVars, tableVars, cacheVars, historyVars
  <2>2. QED
    BY <1>0, <1>1, <2>1 DEF FilesTypeOK
<1>3. ASSUME NEW p \in Paths, Preload(p) PROVE HandleInv'
  <2> DEFINE file == IF dir[p] = None THEN <<>> ELSE data[dir[p]]
             m == IF sizes[p] < Len(file) THEN sizes[p] ELSE Len(file)
             got == [b \in 1..m |-> file[b]]
  <2>1. /\ cached' = [cached EXCEPT ![p] = [b \in Blocks |-> IF b \in DOMAIN got THEN got[b]
                                                             ELSE Zeros]]
        /\ stale' = {s \in stale : s[1] # p} \cup ({p} \X (Blocks \ DOMAIN got))
        /\ UNCHANGED <<dir, data, remote, issued, opened, files, opens, sizes, call, calls, edits,
                       unsized, lost, moved, due>>
    BY <1>3 DEF Preload, serverVars, tableVars
  <2>2. file \in Content
    BY <1>0, SmallContents DEF FilesTypeOK
  <2>3. Len(file) \in Nat /\ sizes[p] \in Nat /\ \A b \in 1..Len(file) : file[b] \in Versions
    BY <1>0, <2>2, ContentFacts, NumberFacts DEF FilesTypeOK, Absent
  <2>4. \A b \in DOMAIN got : got[b] \in Versions
    BY <2>3
  <2> HIDE DEF got
  <2>5. [b \in Blocks |-> IF b \in DOMAIN got THEN got[b] ELSE Zeros]
           \in [Blocks -> Versions \cup {Garbage, Unknown}]
    BY <2>4, NumberFacts
  <2>6. cached' \in [Paths -> [Blocks -> Versions \cup {Garbage, Unknown}]]
    BY <1>0, <2>1, <2>5 DEF FilesTypeOK
  <2>7. stale' \subseteq Paths \X Blocks
    BY <1>0, <2>1 DEF FilesTypeOK
  <2>8. QED
    BY <1>1, <2>1, <2>6, <2>7
<1>4. CASE Populate
  <2>1. /\ sizes' = scan
        /\ cached' = [p \in Paths |-> Nothing]
        /\ stale' = {} /\ unsized' = behind /\ due' = FALSE
        /\ call' = [t \in Threads |->
                      [call[t] EXCEPT !.overtaken = @ \/ call[t].op = "exchange"]]
        /\ UNCHANGED <<dir, data, remote, issued, opened, files, opens, calls, edits, lost,
                       moved>>
    BY <1>4 DEF Populate, serverVars, tableVars
  <2>2. AllGoOn
    <3>1. ASSUME NEW t \in Threads PROVE call'[t] \in Call /\ GoesOn(call[t], call'[t])
      <4>1. call[t] \in Call
        BY <1>0 DEF FilesTypeOK
      <4> DEFINE v == call[t].overtaken \/ call[t].op = "exchange"
      <4>2. call'[t] = [call[t] EXCEPT !.overtaken = v]
        BY <2>1
      <4>3. v \in BOOLEAN /\ (call[t].overtaken => v) /\ (call[t] = NoCall => v = FALSE)
        BY NoCallFacts
      <4> HIDE DEF v
      <4>4. call'[t] \in Call /\ SameCall(call'[t], call[t]) /\ call'[t].overtaken = v
        BY <4>1, <4>2, <4>3, CallFacts
      <4>5. call[t] = NoCall => call'[t] = call[t]
        BY <4>1, <4>3, <4>4, CallFacts, NoCallFacts
      <4>6. QED
        BY <4>3, <4>4, <4>5 DEF GoesOn
    <3>2. call' \in [Threads -> Call]
      BY <2>1, <3>1
    <3>3. QED
      BY <3>1, <3>2 DEF AllGoOn
  <2>3. cached' \in [Paths -> [Blocks -> Versions \cup {Garbage, Unknown}]]
    BY <2>1 DEF Nothing
  <2>4. TableStays /\ PathsStay /\ NothingFound
    BY <2>1, SameTable DEF NothingFound
  <2>5. QED
    BY <1>0, <2>1, <2>2, <2>3, <2>4, GoneHandles DEF FilesTypeOK, LoadTypeOK
<1>5. QED
  BY <1>2, <1>3, <1>4 DEF LoadStep

(* What the loader knows has its type. *)
LEMMA LoadingTypes ==
    ASSUME FilesTypeOK, LoadTypeOK, [Next]_vars
    PROVE  LoadTypeOK'
<1>1. \A p \in Paths : dir[p] # None => data[dir[p]] \in Content
  BY DEF FilesTypeOK
<1>2. \A p \in Paths : dir[p] # None => Len(data[dir[p]]) \in 0..Absent
  BY <1>1, ContentFacts, NumberFacts
<1>3. CASE Next
  <2>1. behind' \subseteq Paths
    BY <1>3 DEF Next, Changed, LoadTypeOK
  <2>2. CASE UNCHANGED <<load, scan>>
    BY <2>1, <2>2 DEF LoadTypeOK
  <2>3. CASE LoadStep
    <3>1. NoTree \in [Paths -> 0..Absent]
      BY NumberFacts DEF NoTree
    <3>2. load' \in {"idle", "populate", "preload"} /\ scan' \in [Paths -> 0..Absent]
      BY <1>2, <2>3, <3>1, NumberFacts
         DEF LoadStep, Scan, Populate, LoadFails, Preload, LoadEnds, LoadTypeOK
    <3>3. QED
      BY <2>1, <3>2 DEF LoadTypeOK
  <2>4. QED
    BY <1>3, <2>2, <2>3 DEF Next
<1>4. CASE UNCHANGED vars
  BY <1>4 DEF vars, loadVars, LoadTypeOK
<1>5. QED
  BY <1>3, <1>4

(* A call that fails. *)
LEMMA FailingHandles ==
    ASSUME HandleInv, NEW t \in Threads,
           OpenFails(t) \/ ReadFails(t) \/ WriteFails(t) \/ ChangeFails(t)
    PROVE  HandleInv'
<1>0. FilesTypeOK /\ CallInv /\ TableInv /\ Shapes
  BY DEF HandleInv, CallInv
<1> DEFINE c == call[t]
<1>1. ASSUME c.op \notin {"none", "close"}, Return(t),
             UNCHANGED <<dir, data, remote, issued, opened, files, opens, cached, sizes, calls,
                         edits, moved, due>>,
             stale' \subseteq Paths \X Blocks, unsized' \subseteq Paths,
             lost \subseteq lost', lost' \subseteq Handles,
             \/ c.sub \in lost' \cup {None}
             \/ \E h \in Handles : opened[h].sub = c.sub
      PROVE  HandleInv'
  <2>1. Ends(t)
    BY <1>0, <1>1, ReturnEnds
  <2>2. TableStays /\ PathsStay /\ NothingFound
    BY <1>1, SameTable DEF NothingFound
  <2>3. QED
    BY <1>0, <1>1, <2>1, <2>2, GoneHandles DEF FilesTypeOK
<1>2. c.h \in Handles \cup {None} /\ c.sub \in Handles \cup {None}
      /\ c.p \in Paths \cup {NoPath} /\ c.q \in Paths \cup {NoPath} /\ c.b \in Blocks \cup {0}
  BY <1>0, CallFacts DEF FilesTypeOK
<1>3. CASE OpenFails(t)
  <2>1. /\ c.op \in OpeningOps /\ Return(t) /\ lost' = lost \cup {c.sub}
        /\ unsized' \in {unsized, unsized \cup {c.p}}
        /\ UNCHANGED <<dir, data, remote, issued, opened, files, opens, cached, sizes, calls,
                       edits, stale, moved, due>>
    BY <1>3 DEF OpenFails, serverVars, tableVars, cacheVars, OpeningOps
  <2>2. c.p \in Paths /\ c.sub \in Handles
    BY <1>0, <1>2, <2>1 DEF Shapes, Shaped
  <2>3. /\ stale' \subseteq Paths \X Blocks /\ unsized' \subseteq Paths /\ lost' \subseteq Handles
        /\ lost \subseteq lost' /\ c.sub \in lost'
    BY <1>0, <2>1, <2>2 DEF FilesTypeOK
  <2>4. c.op \notin {"none", "close"}
    BY <2>1 DEF OpeningOps
  <2>5. QED
    BY <1>1, <2>1, <2>3, <2>4
<1>4. CASE ReadFails(t)
  <2>1. /\ c.op \in {"fetch", "read"} /\ Return(t)
        /\ lost' = lost \cup ({c.sub} \ {opened[c.h].sub})
        /\ UNCHANGED <<dir, data, remote, issued, opened, files, opens, cached, sizes, calls,
                       edits, stale, unsized, moved, due>>
    BY <1>4 DEF ReadFails, serverVars, tableVars, cacheVars
  <2>2. c.h \in Handles /\ c.sub \in Handles
    BY <1>0, <1>2, <2>1 DEF Shapes, Shaped, HandleOps
  <2>3. /\ stale' \subseteq Paths \X Blocks /\ unsized' \subseteq Paths /\ lost' \subseteq Handles
        /\ lost \subseteq lost'
        /\ c.sub \in lost' \/ \E h \in Handles : opened[h].sub = c.sub
    BY <1>0, <2>1, <2>2 DEF FilesTypeOK
  <2>4. c.op \notin {"none", "close"}
    BY <2>1
  <2>5. QED
    BY <1>1, <2>1, <2>3, <2>4
<1>5. CASE WriteFails(t)
  <2> DEFINE ps == PathsTo(remote[c.sub])
  <2>1. /\ c.op = "write" /\ Return(t)
        /\ stale' = stale \cup (ps \X {c.b}) /\ unsized' = unsized \cup ps
        /\ UNCHANGED <<dir, data, remote, issued, opened, files, opens, cached, sizes, calls,
                       edits, lost, moved, due>>
    BY <1>5 DEF WriteFails, serverVars, tableVars, cacheVars
  <2>2. c.h \in Handles /\ c.b \in Blocks /\ ps \subseteq Paths
    BY <1>0, <1>2, <2>1 DEF Shapes, Shaped, HandleOps, PathsTo
  <2>3. c.sub \in lost \/ \E h \in Handles : opened[h].sub = c.sub
    BY <1>0, <2>1, <2>2 DEF TableInv, WriteKept
  <2>4. stale' \subseteq Paths \X Blocks /\ unsized' \subseteq Paths /\ lost' \subseteq Handles
    BY <1>0, <2>1, <2>2 DEF FilesTypeOK
  <2>5. c.op \notin {"none", "close"}
    BY <2>1
  <2> HIDE DEF ps
  <2>6. QED
    BY <1>1, <2>1, <2>3, <2>4, <2>5
<1>6. CASE ChangeFails(t)
  <2> DEFINE ps == {c.p, c.q} \ {NoPath}
  <2>1. /\ c.op \in MovingOps \cup {"truncate"} /\ Return(t)
        /\ stale' = stale \cup (ps \X Blocks) /\ unsized' = unsized \cup ps
        /\ UNCHANGED <<dir, data, remote, issued, opened, files, opens, cached, sizes, calls,
                       edits, lost, moved, due>>
    BY <1>6 DEF ChangeFails, serverVars, tableVars, cacheVars, MovingOps
  <2>2. ps \subseteq Paths
    BY <1>2
  <2>3. c.sub = None /\ c.op \notin {"none", "close"}
    BY <1>0, <2>1 DEF Shapes, Shaped, OpeningOps, HandleOps, MovingOps
  <2> HIDE DEF ps
  <2>4. stale' \subseteq Paths \X Blocks /\ unsized' \subseteq Paths /\ lost' \subseteq Handles
    BY <1>0, <2>1, <2>2 DEF FilesTypeOK
  <2>5. QED
    BY <1>1, <2>1, <2>3, <2>4
<1>7. QED
  BY <1>3, <1>4, <1>5, <1>6

(* The two parts of a read that end: the file was read, and the blocks are cached. *)
LEMMA ReadingHandles ==
    ASSUME HandleInv, NEW t \in Threads, Fetch(t) \/ ReadDone(t)
    PROVE  HandleInv'
<1>0. FilesTypeOK /\ CallInv /\ TableInv /\ Shapes /\ Compatible /\ Counted /\ OnePath
  BY DEF HandleInv, CallInv
<1> DEFINE c == call[t]
<1>1. /\ c \in Call /\ c.h \in Handles \cup {None} /\ c.sub \in Handles \cup {None}
      /\ c.got \in Content
  BY <1>0, CallFacts DEF FilesTypeOK
<1>2. c.op \in {"fetch", "read"} => c.h \in Handles /\ c.sub \in Handles
  BY <1>0, <1>1 DEF Shapes, Shaped, HandleOps
<1>3. CASE Fetch(t)
  <2>1. /\ c.op = "fetch"
        /\ call' = [call EXCEPT ![t].op = "read", ![t].got = data[remote[c.sub]],
                                ![t].overtaken = FALSE]
        /\ UNCHANGED <<dir, data, remote, issued, opened, files, opens, cached, sizes, calls,
                       edits, stale, unsized, lost, moved, due>>
    BY <1>3 DEF Fetch, serverVars, tableVars, cacheVars, historyVars
  <2>2. data[remote[c.sub]] \in Content
    <3>1. remote[c.sub] # None
      BY <1>0, <1>2, <2>1, NumberFacts DEF TableInv, Live
    <3>2. QED
      BY <1>0, <1>2, <2>1, <3>1 DEF FilesTypeOK
  <2>3. Fetches(t)
    <3> DEFINE d == [c EXCEPT !.op = "read", !.got = data[remote[c.sub]], !.overtaken = FALSE]
    <3>1. /\ d \in Call /\ d.op = "read" /\ d.p = c.p /\ d.q = c.q /\ d.h = c.h /\ d.sub = c.sub
      BY <1>1, <2>2 DEF Call, Ops
    <3>2. call' = [call EXCEPT ![t] = d]
      BY <1>0, <2>1 DEF FilesTypeOK
    <3> HIDE DEF d
    <3>3. /\ call' \in [Threads -> Call] /\ call'[t] = d
          /\ \A u \in Threads \ {t} : call'[u] = call[u]
      BY <1>0, <3>1, <3>2 DEF FilesTypeOK
    <3>4. QED
      BY <2>1, <3>1, <3>3 DEF Fetches
  <2>4. Shapes' /\ Compatible' /\ TableInv'
    BY <1>0, <2>1, <2>3, TablesFetch
  <2>5. Pending' = Pending
    BY <2>3 DEF Pending, Fetches, OpeningOps
  <2>6. Counted'
    BY <1>0, <2>1, <2>5 DEF Counted
  <2>7. FilesTypeOK'
    BY <1>0, <2>1, <2>3 DEF FilesTypeOK, Fetches
  <2>8. OnePath'
    BY <1>0, <2>1 DEF OnePath
  <2>9. QED
    BY <2>4, <2>6, <2>7, <2>8 DEF HandleInv, CallInv
<1>4. CASE ReadDone(t)
  <2> DEFINE p == opened[c.h].path
  <2>1. /\ c.op = "read" /\ Return(t)
        /\ opened' = [opened EXCEPT ![c.h].sub = c.sub]
        /\ lost' = lost \cup ({opened[c.h].sub} \ {None, c.sub})
        /\ cached' = [cached EXCEPT ![p] = Page(c.got)]
        /\ stale' \subseteq stale \cup ({p} \X Blocks)
        /\ UNCHANGED <<dir, data, remote, issued, files, opens, sizes, calls, edits, unsized,
                       moved, due>>
    BY <1>4 DEF ReadDone, serverVars
  <2>2. Ends(t)
    BY <1>0, <2>1, ReturnEnds
  <2>3. p \in Paths
    BY <1>0, <1>2, <2>1, NumberFacts DEF TableInv, Tabled, InUse
  <2>4. Page(c.got) \in [Blocks -> Versions \cup {Garbage, Unknown}]
    <3>1. \A b \in DOMAIN c.got : c.got[b] \in Versions
      BY <1>1, ContentFacts
    <3>2. QED
      BY <3>1 DEF Page
  <2>5. Shapes' /\ Compatible'
    BY <1>0, <2>1, <2>2, GoingCalls DEF PathsStay
  <2>6. Counted'
    BY <1>0, <2>1, <2>2, CountedGo
  <2>7. TableInv'
    BY <1>0, <2>1, <2>2, TablesRead
  <2>8. FilesTypeOK'
    <3>1. opened' \in [Handles -> [path : Paths \cup {NoPath}, sub : Handles \cup {None}]]
      BY <1>0, <1>2, <2>1 DEF FilesTypeOK
    <3>2. cached' \in [Paths -> [Blocks -> Versions \cup {Garbage, Unknown}]]
      BY <1>0, <2>1, <2>4 DEF FilesTypeOK
    <3>3. lost' \subseteq Handles
      BY <1>0, <1>2, <2>1 DEF FilesTypeOK
    <3>4. stale' \subseteq Paths \X Blocks /\ call' \in [Threads -> Call]
      BY <1>0, <2>1, <2>2, <2>3 DEF FilesTypeOK, Ends
    <3>5. QED
      BY <1>0, <2>1, <3>1, <3>2, <3>3, <3>4 DEF FilesTypeOK
  <2>9. OnePath'
    BY <1>0, <2>1 DEF OnePath
  <2>10. QED
    BY <2>5, <2>6, <2>7, <2>8, <2>9 DEF HandleInv, CallInv
<1>5. QED
  BY <1>3, <1>4

(* The size that is asked for at the end of a call. *)
LEMMA ServedFacts ==
    ASSUME FilesTypeOK, NEW p \in Paths
    PROVE  /\ dir[p] # None => /\ dir[p] \in Inodes /\ data[dir[p]] \in Content
                               /\ Len(data[dir[p]]) \in 0..Absent
           /\ ServedSize(p) \in 0..Absent
<1>1. dir[p] # None => dir[p] \in Inodes /\ data[dir[p]] \in Content
  BY DEF FilesTypeOK
<1>2. dir[p] # None => Len(data[dir[p]]) \in 0..Absent
  BY <1>1, ContentFacts, NumberFacts
<1>3. QED
  BY <1>1, <1>2, NumberFacts DEF ServedSize

(* The ends of write, of truncate, and of the calls that change paths. *)
LEMMA EndingHandles ==
    ASSUME HandleInv, NEW t \in Threads, WriteDone(t) \/ TruncateDone(t) \/ ChangeDone(t)
    PROVE  HandleInv'
<1>0. FilesTypeOK /\ CallInv /\ TableInv /\ Shapes /\ Compatible
  BY DEF HandleInv, CallInv
<1> DEFINE c == call[t]
<1>1. c.h \in Handles \cup {None} /\ c.sub \in Handles \cup {None}
      /\ c.p \in Paths \cup {NoPath} /\ c.q \in Paths \cup {NoPath} /\ c.b \in Blocks \cup {0}
      /\ c.got \in Content
  BY <1>0, CallFacts DEF FilesTypeOK
<1>2. CASE WriteDone(t)
  <2> DEFINE p == opened[c.h].path
  <2>1. /\ c.op = "write" /\ dir[p] # None
        /\ sizes' = [sizes EXCEPT ![p] = Len(data[dir[p]])]
        /\ unsized' = unsized \ {p}
        /\ cached' = [cached EXCEPT ![p][c.b] = c.got[1]]
        /\ stale' \in {stale \cup {<<p, c.b>>}, stale \ {<<p, c.b>>}}
        /\ call' = [Renaming(p) EXCEPT ![t] = NoCall]
        /\ UNCHANGED <<dir, data, remote, issued, opened, files, opens, calls, edits, lost,
                       moved, due>>
    BY <1>2 DEF WriteDone, serverVars, tableVars
  <2>2. c.h \in Handles /\ c.b \in Blocks /\ Len(c.got) = 1
    BY <1>0, <1>1, <2>1 DEF Shapes, Shaped, HandleOps
  <2>3. p \in Paths /\ c.got[1] \in Versions
    <3>1. p \in Paths
      BY <1>0, <2>2, NumberFacts DEF TableInv, Tabled, InUse
    <3>2. c.got[1] \in Versions
      BY <1>1, <2>2, ContentFacts
    <3>3. QED
      BY <3>1, <3>2
  <2>4. c.sub \in lost \/ \E h \in Handles : opened[h].sub = c.sub
    BY <1>0, <2>1, <2>2 DEF TableInv, WriteKept
  <2>5. Ends(t)
    BY <1>0, <2>1, ReturnEnds
  <2>6. TableStays /\ PathsStay /\ NothingFound
    BY <2>1, SameTable DEF NothingFound
  <2> HIDE DEF p
  <2>7. sizes' \in [Paths -> 0..Absent]
    <3>1. Len(data[dir[p]]) \in 0..Absent
      BY <1>0, <2>1, <2>3, ServedFacts
    <3>2. QED
      BY <1>0, <2>1, <3>1 DEF FilesTypeOK
  <2>8. cached' \in [Paths -> [Blocks -> Versions \cup {Garbage, Unknown}]]
    BY <1>0, <2>1, <2>3 DEF FilesTypeOK
  <2>9. stale' \subseteq Paths \X Blocks /\ unsized' \subseteq Paths
    BY <1>0, <2>1, <2>2, <2>3 DEF FilesTypeOK
  <2>10. QED
    BY <1>0, <2>1, <2>4, <2>5, <2>6, <2>7, <2>8, <2>9, GoneHandles DEF FilesTypeOK
<1>3. CASE TruncateDone(t)
  <2> DEFINE p == c.p
  <2>1. /\ c.op = "truncate" /\ dir[p] # None
        /\ sizes' = [sizes EXCEPT ![p] = Len(data[dir[p]])]
        /\ unsized' = unsized \ {p} /\ Return(t)
        /\ UNCHANGED <<dir, data, remote, issued, opened, files, opens, cached, calls, edits,
                       stale, lost, moved, due>>
    BY <1>3 DEF TruncateDone, serverVars, tableVars
  <2>2. p \in Paths /\ c.sub = None
    BY <1>0, <1>1, <2>1 DEF Shapes, Shaped, HandleOps, OpeningOps
  <2>3. Ends(t)
    BY <1>0, <2>1, ReturnEnds
  <2>4. TableStays /\ PathsStay /\ NothingFound
    BY <2>1, SameTable DEF NothingFound
  <2>5. sizes' \in [Paths -> 0..Absent]
    <3>1. Len(data[dir[p]]) \in 0..Absent
      BY <1>0, <2>1, <2>2, ServedFacts
    <3> HIDE DEF p
    <3>2. QED
      BY <1>0, <2>1, <3>1 DEF FilesTypeOK
  <2>6. unsized' \subseteq Paths
    BY <1>0, <2>1 DEF FilesTypeOK
  <2>7. QED
    BY <1>0, <2>1, <2>2, <2>3, <2>4, <2>5, <2>6, GoneHandles DEF FilesTypeOK
<1>4. CASE ChangeDone(t)
  <2> DEFINE p == c.p
             q == c.q
  <2>1. /\ c.op \in MovingOps
        /\ sizes' = [r \in Paths |->
                       CASE c.op # "unlink" /\ r = q -> sizes[p]
                         [] r = p -> IF c.op = "exchange" THEN sizes[q] ELSE Absent
                         [] OTHER -> sizes[r]]
        /\ cached' = [r \in Paths |-> IF r \in Deleted(c) THEN Nothing ELSE cached[r]]
        /\ stale' = IF c.op = "rename directory" THEN stale \cup ({p, q} \X Blocks)
                    ELSE {s \in stale : s[1] \notin {p, q}}
        /\ unsized' = IF c.overtaken THEN unsized \cup {p, q}
                      ELSE IF c.op = "unlink" THEN unsized \ {p}
                      ELSE {Renamed(c.op, p, q, r) : r \in unsized}
        /\ files' = [h \in Handles |-> [files[h] EXCEPT !.path = Renamed(c.op, p, q, @)]]
        /\ Return(t)
        /\ UNCHANGED <<dir, data, remote, issued, opened, opens, calls, edits, lost, moved, due>>
    BY <1>4 DEF ChangeDone, serverVars, MovingOps
  <2>2. /\ p \in Paths /\ q \in Paths /\ c.sub = None /\ c.h = None /\ c # NoCall
        /\ c.op \in Namespace /\ c.op \notin {"close", "none"}
    BY <1>0, <1>1, <2>1, NoCallFacts
       DEF Shapes, Shaped, HandleOps, OpeningOps, MovingOps, Namespace
  <2>3. Ends(t)
    BY <1>0, <2>1, <2>2, ReturnEnds
  <2>4. /\ \A r \in Paths : Renamed(c.op, p, q, r) \in Paths
        /\ Renamed(c.op, p, q, NoPath) = NoPath
        /\ \A r : r \notin {p, q} => Renamed(c.op, p, q, r) = r
    BY <2>2, NumberFacts DEF Renamed
  <2>5. TableStays
    <3>1. ASSUME NEW h \in Handles
          PROVE  /\ files'[h] \in [path : Paths \cup {NoPath}, file : Inodes \cup {None}]
                 /\ files'[h].file = files[h].file
                 /\ files'[h] = NoFile <=> files[h] = NoFile
                 /\ files'[h] # NoFile => files'[h].path \in Paths
      <4>1. /\ files'[h] = [files[h] EXCEPT !.path = Renamed(c.op, p, q, files[h].path)]
            /\ files[h] \in [path : Paths \cup {NoPath}, file : Inodes \cup {None}]
            /\ files[h] # NoFile => files[h].path \in Paths
        BY <1>0, <2>1 DEF FilesTypeOK, TableInv, Tabled
      <4>2. CASE files[h] = NoFile
        <5>1. files'[h] = NoFile
          BY <2>4, <4>1, <4>2 DEF NoFile
        <5>2. QED
          BY <4>1, <4>2, <5>1
      <4>3. CASE files[h] # NoFile
        <5>1. files'[h].path \in Paths /\ files'[h].file = files[h].file
              /\ files'[h] \in [path : Paths \cup {NoPath}, file : Inodes \cup {None}]
          BY <2>4, <4>1, <4>3
        <5>2. files'[h] # NoFile
          BY <5>1, NumberFacts DEF NoFile
        <5>3. QED
          BY <4>3, <5>1, <5>2
      <4>4. QED
        BY <4>2, <4>3
    <3>2. files' \in [Handles -> [path : Paths \cup {NoPath}, file : Inodes \cup {None}]]
      BY <2>1, <3>1
    <3>3. QED
      BY <2>1, <3>1, <3>2 DEF TableStays
  <2>6. PathsStay
    <3>1. ASSUME NEW u \in Threads, call'[u].h # None
          PROVE  files'[call'[u].h].path = files[call'[u].h].path
      <4>1. u # t /\ call[u].h = call'[u].h /\ call[u] # NoCall
        BY <2>3, <3>1, NoCallFacts DEF Ends, GoesOn, SameCall
      <4>2. call[u].h \in Handles
        BY <1>0, <3>1, <4>1, CallParts
      <4>3. PathsOf(call[u]) = {files[call[u].h].path} /\ PathsOf(c) = {p, q} \ {NoPath}
        BY <2>2, <3>1, <4>1 DEF PathsOf
      <4>4. ~Conflict(c, call[u])
        BY <1>0, <2>2, <4>1 DEF Compatible
      <4>5. files[call[u].h].path \notin {p, q}
        BY <2>2, <4>3, <4>4, NumberFacts DEF Conflict
      <4>6. files[call[u].h] \in [path : Paths \cup {NoPath}, file : Inodes \cup {None}]
        BY <1>0, <4>2 DEF FilesTypeOK
      <4>7. QED
        BY <2>1, <2>4, <4>1, <4>2, <4>5, <4>6
    <3>2. QED
      BY <3>1 DEF PathsStay
  <2>7. sizes' \in [Paths -> 0..Absent]
    BY <1>0, <2>1, <2>2, NumberFacts DEF FilesTypeOK
  <2>8. cached' \in [Paths -> [Blocks -> Versions \cup {Garbage, Unknown}]]
    BY <1>0, <2>1 DEF FilesTypeOK, Nothing
  <2>9. stale' \subseteq Paths \X Blocks
    BY <1>0, <2>1, <2>2 DEF FilesTypeOK
  <2>10. unsized' \subseteq Paths
    <3>1. unsized \subseteq Paths
      BY <1>0 DEF FilesTypeOK
    <3>2. {Renamed(c.op, p, q, r) : r \in unsized} \subseteq Paths
      BY <2>4, <3>1
    <3>3. unsized' \in {unsized \cup {p, q}, unsized \ {p},
                       {Renamed(c.op, p, q, r) : r \in unsized}}
      BY <2>1
    <3> HIDE DEF p, q
    <3>4. QED
      BY <2>2, <3>1, <3>2, <3>3
  <2> HIDE DEF p, q
  <2>11. QED
    BY <1>0, <2>1, <2>2, <2>3, <2>5, <2>6, <2>7, <2>8, <2>9, <2>10, GoneHandles
       DEF FilesTypeOK, NothingFound
<1>5. QED
  BY <1>2, <1>3, <1>4

(* Every step keeps type, calls and table. *)
LEMMA NextHandles == HandleInv /\ LoadTypeOK /\ [Next]_vars => HandleInv'
<1> SUFFICES ASSUME HandleInv, LoadTypeOK, [Next]_vars PROVE HandleInv'
  OBVIOUS
<1>1. ASSUME NEW t \in Threads, NEW p \in Paths,
             Create(t, p) \/ \E trunc \in BOOLEAN : OpenNow(t, p, trunc)
      PROVE  HandleInv'
  BY <1>1, OpeningHandles
<1>2. ASSUME NEW t \in Threads, NEW h \in Handles, ReadOpen(t, h) PROVE HandleInv'
  BY <1>2, OpeningHandles
<1>3. ASSUME NEW t \in Threads,
             (\E p \in Paths : OpenLater(t, p)) \/ OpenDone(t) \/ CreateDone(t)
      PROVE  HandleInv'
  BY <1>3, EnteringHandles
<1>4. ASSUME NEW t \in Threads,
             (\E h \in Handles : Close(t, h) \/ CloseTimesOut(t, h)) \/ CloseDone(t)
      PROVE  HandleInv'
  BY <1>4, ClosingHandles
<1>5. ASSUME NEW t \in Threads,
             \/ \E h \in Handles : \/ Read(t, h)
                                    \/ \E b \in Blocks, at \in 0..PageSize : Write(t, h, b, at)
             \/ \E p \in Paths, n \in 0..PageSize : Truncate(t, p, n)
      PROVE  HandleInv'
  BY <1>5, UsingHandles
<1>6. ASSUME NEW t \in Threads, NEW p \in Paths, NEW q \in Paths,
             NEW op \in Namespace \ {"create"}, Change(t, op, p, q)
      PROVE  HandleInv'
  <2>1. op \in MovingOps
    BY DEF Namespace, MovingOps
  <2>2. QED
    BY <1>6, <2>1, ChangingHandles
<1>7. ASSUME NEW t \in Threads, Fetch(t) \/ ReadDone(t) PROVE HandleInv'
  BY <1>7, ReadingHandles
<1>8. ASSUME NEW t \in Threads, WriteDone(t) \/ TruncateDone(t) \/ ChangeDone(t)
      PROVE  HandleInv'
  BY <1>8, EndingHandles
<1>9. ASSUME NEW t \in Threads,
             OpenFails(t) \/ ReadFails(t) \/ WriteFails(t) \/ ChangeFails(t)
      PROVE  HandleInv'
  BY <1>9, FailingHandles
<1>10. CASE ServerStep \/ LoadStep
  BY <1>10, ServedHandles, LoadingHandles
<1>11. CASE UNCHANGED vars
  <2>1. UNCHANGED <<dir, data, remote, issued, opened, files, opens, cached, sizes, call, calls,
                    edits, stale, unsized, lost, moved, due>>
    BY <1>11 DEF vars, serverVars, tableVars, cacheVars, historyVars
  <2>2. FilesTypeOK'
    BY <2>1 DEF HandleInv, FilesTypeOK
  <2>3. Shapes' /\ OnePath'
    BY <2>1 DEF HandleInv, CallInv, Shapes, Shaped, OnePath
  <2>4. Compatible'
    BY <2>1 DEF HandleInv, CallInv, Compatible, Conflict, PathsOf
  <2>5. Counted'
    <3>1. Pending' = Pending
      BY <2>1 DEF Pending
    <3>2. QED
      BY <2>1, <3>1 DEF HandleInv, CallInv, Counted
  <2>6. TableInv'
    BY <2>1 DEF HandleInv, TableInv, Tabled, InUse, Issued, OneOwner, Live, WriteKept,
       NoHandleLeak, RightCall, RightFile, IsOpen
  <2>7. QED
    BY <2>2, <2>3, <2>4, <2>5, <2>6 DEF HandleInv, CallInv
<1>12. CASE CallStep
  BY <1>1, <1>2, <1>3, <1>4, <1>5, <1>6, <1>7, <1>8, <1>9, <1>12 DEF CallStep
<1>13. QED
  BY <1>10, <1>11, <1>12 DEF Next

-----------------------------------------------------------------------------

(* What a load starts from has its type. *)
LEMMA InitLoad == Init => LoadTypeOK
BY NumberFacts DEF Init, LoadTypeOK, NoTree

(* The invariant of types, calls and table always holds. *)
THEOREM HandlesInvariance == Spec => [](HandleInv /\ LoadTypeOK)
<1>1. Init => HandleInv /\ LoadTypeOK
  BY InitHandles, InitLoad
<1>2. HandleInv /\ LoadTypeOK /\ [Next]_vars => (HandleInv /\ LoadTypeOK)'
  <2>1. HandleInv => FilesTypeOK
    BY DEF HandleInv
  <2>2. QED
    BY <2>1, NextHandles, LoadingTypes
<1>3. QED
  BY <1>1, <1>2, PTL DEF Spec

(* The variables always have their types: no handle, file or version is beyond its bound. *)
THEOREM TypeCorrect == Spec => []TypeOK
<1>1. HandleInv /\ LoadTypeOK => TypeOK
  BY DEF HandleInv, TypeOK
<1>2. QED
  BY <1>1, HandlesInvariance, PTL

(* Every handle the server has open is known to the client, whatever calls are under way, *)
(* but for those a failed or overtaken call forgot. *)
THEOREM NoLeak == Spec => []NoHandleLeak
<1>1. HandleInv => NoHandleLeak
  BY DEF HandleInv, TableInv
<1>2. QED
  BY <1>1, HandlesInvariance, PTL

(* An open file is used through a handle of the server that is open for that file, unless *)
(* its path named another file when the handle was opened. *)
THEOREM RightFileUsed == Spec => []RightFile
<1>1. HandleInv => RightFile
  BY DEF HandleInv, TableInv
<1>2. QED
  BY <1>1, HandlesInvariance, PTL

-----------------------------------------------------------------------------
(* The cache: what a step leaves of it.                                    *)

\* The call of thread u goes on, on the same entry, path and file.
Stays(u) ==
    /\ GoesOn(call[u], call'[u])
    /\ call[u].op \in HandleOps =>
        /\ opened'[call[u].h].path = opened[call[u].h].path
        /\ files'[call[u].h].path = files[call[u].h].path
        /\ remote'[call[u].sub] = remote[call[u].sub]

\* Path p is served as before, and cached as before, but for what comes to be doubted.
ServedAlike(p) == dir'[p] = dir[p] /\ (dir[p] # None => data'[dir[p]] = data[dir[p]])
SizeAlike(p) == sizes'[p] = sizes[p] /\ (p \in unsized => p \in unsized')
CachedAlike(p) ==
    /\ sizes'[p] = sizes[p] /\ cached'[p] = cached[p]
    /\ p \in unsized => p \in unsized'
    /\ \A b \in Blocks : <<p, b>> \in stale => <<p, b>> \in stale'

\* What the cache has of p is right.
PathRight(p) == SizeRight(p) /\ \A b \in Blocks : BlockRight(p, b)

(* A call that goes on works on the same paths. *)
LEMMA StaysFacts ==
    ASSUME NEW u \in Threads, Stays(u), NEW p, dir'[p] = dir[p]
    PROVE  /\ SetsSize(u, p) <=> SetsSize(u, p)'
           /\ \A b : SetsBlock(u, p, b) <=> SetsBlock(u, p, b)'
<1>1. SameCall(call'[u], call[u])
  BY DEF Stays, GoesOn
<1>2. /\ Moving(call[u], p)' <=> Moving(call[u], p)
      /\ Sizing(call[u], p)' <=> Sizing(call[u], p)
      /\ Writing(call[u], p)' <=> Writing(call[u], p)
      /\ call'[u].b = call[u].b
  BY <1>1 DEF Stays, Moving, Sizing, Writing, SameCall, HandleOps
<1>3. QED
  BY <1>2 DEF SetsSize, SetsBlock

(* What is right of a path stays right if neither is changed, and the calls that will set *)
(* it go on. *)
LEMMA PathFrame ==
    ASSUME NEW p \in Paths, PathRight(p), ServedAlike(p), CachedAlike(p),
           \A u \in Threads :
                SetsSize(u, p) \/ (\E b \in Blocks : SetsBlock(u, p, b)) => Stays(u)
    PROVE  PathRight(p)'
<1>1. dir'[p] = dir[p] /\ ServedSize(p)' = ServedSize(p)
  BY DEF ServedAlike, ServedSize
<1>2. SizeRight(p)'
  BY <1>1, StaysFacts DEF PathRight, SizeRight, CachedAlike
<1>3. ASSUME NEW b \in Blocks PROVE BlockRight(p, b)'
  <2>1. Match(p, b)' <=> Match(p, b)
    BY DEF Match, ServedAlike, CachedAlike
  <2>2. BlockRight(p, b)
    BY DEF PathRight
  <2>3. ASSUME NEW u \in Threads, SetsBlock(u, p, b) PROVE SetsBlock(u, p, b)'
    BY <1>1, <2>3, StaysFacts
  <2>4. QED
    BY <2>1, <2>2, <2>3 DEF BlockRight, CachedAlike
<1>4. QED
  BY <1>2, <1>3 DEF PathRight

(* What a call knows stays right if its paths and its file are not changed, or if the call *)
(* is overtaken. *)
LEMMA CallFrame ==
    ASSUME Shapes, FilesTypeOK, NEW u \in Threads, Stays(u), due => due',
           MoveRight(call[u]), GotRight(call[u]),
           call[u].op \in MovingOps =>
                \/ \A p \in {call[u].p, call[u].q} : ServedAlike(p) /\ SizeAlike(p)
                \/ call'[u].overtaken,
           call[u].op \in {"read", "write"} =>
                data'[remote[call[u].sub]] = data[remote[call[u].sub]] \/ call'[u].overtaken
    PROVE  MoveRight(call[u])' /\ GotRight(call[u])'
<1>1. /\ call'[u].op = call[u].op /\ call'[u].p = call[u].p /\ call'[u].q = call[u].q
      /\ call'[u].h = call[u].h /\ call'[u].sub = call[u].sub /\ call'[u].b = call[u].b
      /\ call'[u].got = call[u].got /\ (call[u].overtaken => call'[u].overtaken)
  BY DEF Stays, GoesOn, SameCall
<1>2. MoveRight(call[u])'
  <2>1. CASE call[u].op \notin MovingOps
    BY <1>1, <2>1 DEF MoveRight
  <2>2. CASE call[u].op \in MovingOps /\ call'[u].overtaken
    BY <1>1, <2>2 DEF MoveRight
  <2>3. CASE /\ call[u].op \in MovingOps
             /\ \A p \in {call[u].p, call[u].q} : ServedAlike(p) /\ SizeAlike(p)
    <3>1. \A p \in {call[u].p, call[u].q} :
            /\ dir'[p] = dir[p] /\ ServedSize(p)' = ServedSize(p) /\ sizes'[p] = sizes[p]
            /\ p \in unsized => p \in unsized'
      BY <2>3 DEF ServedAlike, SizeAlike, ServedSize
    <3>2. QED
      BY <1>1, <3>1 DEF MoveRight
  <2>4. QED
    BY <2>1, <2>2, <2>3
<1>3. GotRight(call[u])'
  <2>1. call[u].op \in {"read", "write"} => remote'[call[u].sub] = remote[call[u].sub]
    BY DEF Stays, HandleOps
  <2>2. QED
    BY <1>1, <2>1 DEF GotRight
<1>4. QED
  BY <1>2, <1>3

(* A thread that calls nothing, or neither reads nor writes nor moves. *)
LEMMA SimpleCall ==
    ASSUME NEW u \in Threads, call[u].op \notin MovingOps \cup {"read", "write"}
    PROVE  MoveRight(call[u]) /\ GotRight(call[u])
BY DEF MoveRight, GotRight

(* A call works on the same entry, path and file when a handle or an entry is added. *)
LEMMA HeldStay ==
    ASSUME HandleInv, NEW u \in Threads, call[u].op \in HandleOps,
           \/ UNCHANGED <<remote, opened, files>>
           \/ /\ UNCHANGED <<opened, files>>
              /\ \E file : remote' = [remote EXCEPT ![issued + 1] = file]
           \/ /\ UNCHANGED remote
              /\ \E p, sub, file : NewEntry(p, sub, file)
    PROVE  /\ opened'[call[u].h].path = opened[call[u].h].path
           /\ files'[call[u].h].path = files[call[u].h].path
           /\ remote'[call[u].sub] = remote[call[u].sub]
<1>1. call[u].h \in Handles /\ call[u].sub \in Handles
  BY CallParts DEF HandleInv, CallInv, Shapes, Shaped
<1>2. call[u].sub # issued + 1
  BY <1>1, CounterFacts, NumberFacts DEF HandleInv, TableInv, Issued
<1>3. call[u].h # opens + 1
  <2>1. files[call[u].h] # NoFile
    BY <1>1, NumberFacts DEF HandleInv, TableInv, InUse
  <2>2. QED
    BY <1>1, <2>1, CounterFacts DEF HandleInv, TableInv, Tabled
<1>4. /\ opened \in [Handles -> [path : Paths \cup {NoPath}, sub : Handles \cup {None}]]
      /\ files \in [Handles -> [path : Paths \cup {NoPath}, file : Inodes \cup {None}]]
      /\ remote \in [Handles -> Inodes \cup {None}]
  BY DEF HandleInv, FilesTypeOK
<1>5. CASE UNCHANGED <<remote, opened, files>>
  BY <1>5
<1>6. ASSUME UNCHANGED <<opened, files>>, NEW file, remote' = [remote EXCEPT ![issued + 1] = file]
      PROVE  /\ opened'[call[u].h].path = opened[call[u].h].path
             /\ files'[call[u].h].path = files[call[u].h].path
             /\ remote'[call[u].sub] = remote[call[u].sub]
  BY <1>1, <1>2, <1>4, <1>6
<1>7. ASSUME UNCHANGED remote, NEW p, NEW sub, NEW file, NewEntry(p, sub, file)
      PROVE  /\ opened'[call[u].h].path = opened[call[u].h].path
             /\ files'[call[u].h].path = files[call[u].h].path
             /\ remote'[call[u].sub] = remote[call[u].sub]
  BY <1>1, <1>3, <1>4, <1>7 DEF NewEntry
<1>8. QED
  BY <1>5, <1>6, <1>7

(* Two calls of which one changes paths have none in common. *)
LEMMA ApartFacts ==
    ASSUME HandleInv, NEW t \in Threads, NEW u \in Threads, t # u, call[t].op \in MovingOps,
           call[u] # NoCall
    PROVE  /\ \A p \in Paths : Moving(call[t], p) => ~SetsSize(u, p) /\ \A b : ~SetsBlock(u, p, b)
           /\ {call[t].p, call[t].q} \cap {call[u].p, call[u].q} = {}
           /\ call[u].h # None => files[call[u].h].path \notin {call[t].p, call[t].q}
<1>1. /\ call[t].p \in Paths /\ call[t].q \in Paths /\ call[t].h = None
      /\ call[t].op \in Namespace /\ call[t] # NoCall
  BY NoCallFacts DEF HandleInv, CallInv, Shapes, Shaped, MovingOps, Namespace
<1>2. PathsOf(call[t]) = {call[t].p, call[t].q} /\ PathsOf(call[t]) \cap PathsOf(call[u]) = {}
  <2>1. PathsOf(call[t]) = {call[t].p, call[t].q}
    BY <1>1, NumberFacts DEF PathsOf
  <2>2. ~Conflict(call[t], call[u])
    BY <1>1 DEF HandleInv, CallInv, Compatible
  <2>3. QED
    BY <1>1, <2>1, <2>2 DEF Conflict
<1>3. /\ call[u].h # None => /\ files[call[u].h].path \notin {call[t].p, call[t].q}
                             /\ call[u].p = NoPath /\ call[u].q = NoPath
      /\ call[u].h = None => {call[u].p, call[u].q} \cap {call[t].p, call[t].q} = {}
  <2>1. call[u].h # None => files[call[u].h].path \notin {call[t].p, call[t].q}
    BY <1>2 DEF PathsOf
  <2>2. call[u].h # None => call[u].p = NoPath /\ call[u].q = NoPath
    <3>1. call[u].op \in Ops \cup {"none"} /\ Shaped(call[u])
      BY CallFacts DEF HandleInv, FilesTypeOK, CallInv, Shapes
    <3>2. QED
      BY <3>1, NoCallFacts DEF Shaped, Ops, OpeningOps, MovingOps, HandleOps
  <2>3. call[u].h = None => {call[u].p, call[u].q} \cap {call[t].p, call[t].q} = {}
    BY <1>1, <1>2, NumberFacts DEF PathsOf
  <2>4. QED
    BY <2>1, <2>2, <2>3
<1>4. {call[t].p, call[t].q} \cap {call[u].p, call[u].q} = {}
  BY <1>1, <1>3, NumberFacts
<1>5. ASSUME NEW p \in Paths, Moving(call[t], p)
      PROVE  ~Moving(call[u], p) /\ ~Sizing(call[u], p) /\ ~Writing(call[u], p)
  <2>1. p \in {call[t].p, call[t].q}
    BY <1>5 DEF Moving
  <2>2. ~Moving(call[u], p) /\ ~Sizing(call[u], p)
    BY <1>4, <2>1 DEF Moving, Sizing
  <2>3. Writing(call[u], p) => call[u].h # None
    BY DEF Writing, HandleInv, CallInv, Shapes, Shaped, HandleOps
  <2>4. QED
    BY <1>3, <2>1, <2>2, <2>3 DEF Writing
<1>6. QED
  BY <1>3, <1>4, <1>5 DEF SetsSize, SetsBlock

(* The calls of the other threads go on. *)
LEMMA OthersGoOn ==
    ASSUME FilesTypeOK, NEW t \in Threads, NEW u \in Threads, u # t,
           \/ call' = call
           \/ \E d \in Call : \/ call' = [call EXCEPT ![t] = d]
                              \/ \E file : \/ call' = Overtaken([call EXCEPT ![t] = d], file)
                                           \/ call' = [Overtaken(call, file) EXCEPT ![t] = d]
                              \/ \E p : call' = [Renaming(p) EXCEPT ![t] = d]
    PROVE  GoesOn(call[u], call'[u])
<1>1. call \in [Threads -> Call] /\ GoesOn(call[u], call[u])
  BY DEF FilesTypeOK, GoesOn, SameCall
<1>2. CASE call' = call
  BY <1>1, <1>2
<1>3. ASSUME NEW d \in Call, call' = [call EXCEPT ![t] = d] PROVE GoesOn(call[u], call'[u])
  BY <1>1, <1>3
<1>4. ASSUME NEW d \in Call, NEW file, call' = Overtaken([call EXCEPT ![t] = d], file)
      PROVE  GoesOn(call[u], call'[u])
  <2> DEFINE cs == [call EXCEPT ![t] = d]
  <2>1. cs \in [Threads -> Call] /\ cs[u] = call[u]
    BY <1>1
  <2> HIDE DEF cs
  <2>2. QED
    BY <1>4, <2>1, OvertakenFacts DEF cs
<1>5. ASSUME NEW d \in Call, NEW file, call' = [Overtaken(call, file) EXCEPT ![t] = d]
      PROVE  GoesOn(call[u], call'[u])
  <2>1. Overtaken(call, file) \in [Threads -> Call] /\ GoesOn(call[u], Overtaken(call, file)[u])
    BY <1>1, OvertakenFacts
  <2>2. QED
    BY <1>5, <2>1
<1>6. ASSUME NEW d \in Call, NEW p, call' = [Renaming(p) EXCEPT ![t] = d]
      PROVE  GoesOn(call[u], call'[u])
  <2>1. Renaming(p) \in [Threads -> Call] /\ GoesOn(call[u], Renaming(p)[u])
    BY <1>1, RenamingFacts
  <2>2. QED
    BY <1>6, <2>1
<1>7. QED
  BY <1>2, <1>3, <1>4, <1>5, <1>6

(* A step of thread t that changes what is served or cached of the paths X keeps the *)
(* cache right if it is right of those paths, and of the call of t. *)
LEMMA CacheStep ==
    ASSUME HandleInv, CacheInv, NEW t \in Threads, NEW X,
           due' = due,
           \A p \in Paths \ X : /\ ServedAlike(p) /\ CachedAlike(p)
                                /\ ~SetsSize(t, p) /\ \A b : ~SetsBlock(t, p, b),
           \A p \in Paths \cap X : ~due => PathRight(p)',
           MoveRight(call[t])' /\ GotRight(call[t])',
           \A u \in Threads \ {t} :
                /\ Stays(u)
                /\ call[u].op \in MovingOps =>
                    \/ {call[u].p, call[u].q} \cap X = {}
                    \/ \A p \in {call[u].p, call[u].q} : ServedAlike(p) /\ SizeAlike(p)
                    \/ call'[u].overtaken
                /\ call[u].op \in {"read", "write"} =>
                    data'[remote[call[u].sub]] = data[remote[call[u].sub]] \/ call'[u].overtaken
    PROVE  CacheInv'
<1>1. ASSUME NEW p \in Paths, ~due PROVE PathRight(p)'
  <2>1. CASE p \in X
    BY <1>1, <2>1
  <2>2. CASE p \notin X
    <3>1. PathRight(p)
      BY <1>1 DEF CacheInv, PathRight
    <3>2. \A u \in Threads : SetsSize(u, p) \/ (\E b \in Blocks : SetsBlock(u, p, b)) => Stays(u)
      BY <2>2
    <3>3. QED
      BY <2>2, <3>1, <3>2, PathFrame
  <2>3. QED
    BY <2>1, <2>2
<1>2. ASSUME NEW u \in Threads PROVE MoveRight(call[u])' /\ GotRight(call[u])'
  <2>1. CASE u = t
    BY <2>1
  <2>2. CASE u # t
    <3>1. /\ MoveRight(call[u]) /\ GotRight(call[u]) /\ Stays(u) /\ Shapes /\ FilesTypeOK
          /\ call[u].op \in MovingOps => call[u].p \in Paths /\ call[u].q \in Paths
      BY <2>2 DEF CacheInv, HandleInv, CallInv, Shapes, Shaped
    <3>2. call[u].op \in MovingOps =>
                \/ \A p \in {call[u].p, call[u].q} : ServedAlike(p) /\ SizeAlike(p)
                \/ call'[u].overtaken
      BY <2>2, <3>1 DEF SizeAlike, CachedAlike
    <3>3. call[u].op \in {"read", "write"} =>
                data'[remote[call[u].sub]] = data[remote[call[u].sub]] \/ call'[u].overtaken
      BY <2>2
    <3>4. QED
      BY <3>1, <3>2, <3>3, CallFrame
  <2>3. QED
    BY <2>1, <2>2
<1>3. ~due' => \A p \in Paths : SizeRight(p)' /\ \A b \in Blocks : BlockRight(p, b)'
  BY <1>1 DEF PathRight
<1>4. QED
  BY <1>2, <1>3 DEF CacheInv

(* Only some calls end by setting a size or a block. *)
LEMMA SetsNothing ==
    ASSUME NEW t \in Threads, call[t].op \notin MovingOps \cup {"create", "truncate", "write"},
           NEW p, NEW b
    PROVE  ~SetsSize(t, p) /\ ~SetsBlock(t, p, b)
BY DEF SetsSize, SetsBlock, Moving, Sizing, Writing

(* The steps that change neither what is served nor what is cached. *)
LEMMA QuietCache ==
    ASSUME HandleInv, CacheInv, NEW t \in Threads,
           \/ \E p \in Paths : OpenLater(t, p)
           \/ \E h \in Handles : ReadOpen(t, h) \/ Read(t, h)
           \/ OpenDone(t) \/ Fetch(t) \/ ReadFails(t)
    PROVE  CacheInv'
<1>0. FilesTypeOK /\ TableInv /\ Shapes
  BY DEF HandleInv, CallInv
<1>1. ASSUME UNCHANGED <<dir, data, cached, sizes, stale, unsized, due>>,
             call[t].op \notin MovingOps \cup {"create", "truncate", "write"},
             MoveRight(call[t])' /\ GotRight(call[t])',
             \A u \in Threads \ {t} : Stays(u)
      PROVE  CacheInv'
  <2>1. \A p \in Paths : ServedAlike(p) /\ CachedAlike(p)
    BY <1>1 DEF ServedAlike, CachedAlike
  <2>2. \A p, b : ~SetsSize(t, p) /\ ~SetsBlock(t, p, b)
    BY <1>1, SetsNothing
  <2> DEFINE X == {}
  <2>3. \A p \in Paths \cap X : ~due => PathRight(p)'
    OBVIOUS
  <2> HIDE DEF X
  <2>4. \A u \in Threads \ {t} : {call[u].p, call[u].q} \cap X = {}
    BY DEF X
  <2>5. QED
    BY <1>1, <2>1, <2>2, <2>3, <2>4, CacheStep
<1>2. call[t] = NoCall => call[t].op \notin MovingOps \cup {"create", "truncate", "write"}
  BY NoCallFacts DEF MovingOps
<1>3. ASSUME NEW p \in Paths, OpenLater(t, p) PROVE CacheInv'
  <2>1. /\ UNCHANGED <<dir, data, remote, call, cached, sizes, stale, unsized, due>>
        /\ call[t] = NoCall /\ NewEntry(p, None, dir[p])
    BY <1>3 DEF OpenLater, serverVars, Begin, cacheVars
  <2>2. \A u \in Threads \ {t} : Stays(u)
    BY <1>0, <2>1, OthersGoOn, HeldStay DEF Stays
  <2>3. MoveRight(call[t])' /\ GotRight(call[t])'
    BY <2>1, NoCallFacts DEF MoveRight, GotRight, MovingOps
  <2>4. QED
    BY <1>1, <1>2, <2>1, <2>2, <2>3
<1>4. ASSUME NEW h \in Handles, ReadOpen(t, h) PROVE CacheInv'
  <2> DEFINE c == [NoCall EXCEPT !.op = "fetch", !.h = h, !.sub = issued + 1]
  <2>1. /\ UNCHANGED <<dir, data, opened, files, cached, sizes, stale, unsized, due>>
        /\ call[t] = NoCall /\ remote' = [remote EXCEPT ![issued + 1] = dir[opened[h].path]]
        /\ call' = [call EXCEPT ![t] = c] /\ calls < MaxCalls
    BY <1>4 DEF ReadOpen, Begin, cacheVars, tableVars, Opening
  <2>2. c \in Call /\ c.op = "fetch"
    <3>1. issued + 1 \in Handles
      BY <1>0, <2>1, CounterFacts, NumberFacts DEF HandleInv, CallInv, Counted
    <3>2. QED
      BY <3>1, NoCallFacts DEF Call, Ops
  <2> HIDE DEF c
  <2>3. \A u \in Threads \ {t} : Stays(u)
    <3>1. ASSUME NEW u \in Threads \ {t} PROVE Stays(u)
      BY <1>0, <2>1, <2>2, OthersGoOn, HeldStay DEF Stays
    <3>2. QED
      BY <3>1
  <2>4. MoveRight(call[t])' /\ GotRight(call[t])'
    BY <1>0, <2>1, <2>2 DEF MoveRight, GotRight, MovingOps, FilesTypeOK
  <2>5. QED
    BY <1>1, <1>2, <2>1, <2>3, <2>4
<1>5. ASSUME NEW h \in Handles, Read(t, h) PROVE CacheInv'
  <2> DEFINE c == [NoCall EXCEPT !.op = "read", !.h = h, !.sub = opened[h].sub,
                                 !.got = data[remote[opened[h].sub]]]
  <2>1. /\ UNCHANGED <<dir, data, remote, opened, files, cached, sizes, stale, unsized, due>>
        /\ call[t] = NoCall /\ call' = [call EXCEPT ![t] = c]
        /\ IsOpen(h) /\ opened[h].sub # None
    BY <1>5 DEF Read, Begin, cacheVars, tableVars, serverVars
  <2>2. c \in Call /\ c.op = "read" /\ c.sub = opened[h].sub
        /\ c.got = data[remote[opened[h].sub]]
    <3>1. opened[h].sub \in Handles /\ remote[opened[h].sub] \in Inodes
      BY <1>0, <2>1 DEF FilesTypeOK, TableInv, Live
    <3>2. data[remote[opened[h].sub]] \in Content
      BY <1>0, <3>1 DEF FilesTypeOK
    <3>3. QED
      BY <3>1, <3>2, NoCallFacts DEF Call, Ops
  <2> HIDE DEF c
  <2>3. \A u \in Threads \ {t} : Stays(u)
    <3>1. ASSUME NEW u \in Threads \ {t} PROVE Stays(u)
      BY <1>0, <2>1, <2>2, OthersGoOn, HeldStay DEF Stays
    <3>2. QED
      BY <3>1
  <2>4. MoveRight(call[t])' /\ GotRight(call[t])'
    BY <1>0, <2>1, <2>2 DEF MoveRight, GotRight, MovingOps, FilesTypeOK
  <2>5. QED
    BY <1>1, <1>2, <2>1, <2>3, <2>4
<1>6. CASE Fetch(t)
  <2> DEFINE d == [call[t] EXCEPT !.op = "read", !.got = data[remote[call[t].sub]],
                                  !.overtaken = FALSE]
  <2>1. /\ UNCHANGED <<dir, data, remote, opened, files, cached, sizes, stale, unsized, due>>
        /\ call[t].op = "fetch" /\ call' = [call EXCEPT ![t] = d]
    BY <1>0, <1>6 DEF Fetch, FilesTypeOK, serverVars, tableVars, cacheVars, historyVars
  <2>2. call[t] \in Call /\ call[t].sub \in Handles
    BY <1>0, <2>1, CallParts DEF Shapes, Shaped, HandleOps
  <2>3. data[remote[call[t].sub]] \in Content
    <3>1. remote[call[t].sub] # None
      BY <1>0, <2>2, NumberFacts DEF TableInv, Live
    <3>2. QED
      BY <1>0, <2>2, <3>1 DEF FilesTypeOK
  <2>4. d \in Call /\ d.op = "read" /\ d.sub = call[t].sub /\ d.got = data[remote[call[t].sub]]
    BY <2>2, <2>3 DEF Call, Ops
  <2> HIDE DEF d
  <2>5. \A u \in Threads \ {t} : Stays(u)
    <3>1. ASSUME NEW u \in Threads \ {t} PROVE Stays(u)
      BY <1>0, <2>1, <2>4, OthersGoOn, HeldStay DEF Stays
    <3>2. QED
      BY <3>1
  <2>6. MoveRight(call[t])' /\ GotRight(call[t])'
    BY <1>0, <2>1, <2>4 DEF MoveRight, GotRight, MovingOps, FilesTypeOK
  <2>7. call[t].op \notin MovingOps \cup {"create", "truncate", "write"}
    BY <2>1 DEF MovingOps
  <2>8. QED
    BY <1>1, <2>1, <2>5, <2>6, <2>7
<1>7. CASE OpenDone(t) \/ ReadFails(t)
  <2>1. /\ UNCHANGED <<dir, data, remote, cached, sizes, stale, unsized, due>>
        /\ call[t].op \in {"open", "fetch", "read"} /\ Return(t)
        /\ \/ UNCHANGED <<opened, files>>
           \/ \E p, sub, file : NewEntry(p, sub, file)
    BY <1>7 DEF OpenDone, ReadFails, serverVars, tableVars, cacheVars, historyVars
  <2>2. \A u \in Threads \ {t} : Stays(u)
    <3>1. ASSUME NEW u \in Threads \ {t} PROVE Stays(u)
      <4>1. GoesOn(call[u], call'[u])
        BY <1>0, <2>1, OthersGoOn, NoCallFacts DEF Return
      <4>2. QED
        BY <2>1, <4>1, HeldStay DEF Stays
    <3>2. QED
      BY <3>1
  <2>3. MoveRight(call[t])' /\ GotRight(call[t])'
    BY <1>0, <2>1, NoCallFacts DEF MoveRight, GotRight, MovingOps, FilesTypeOK, Return
  <2>4. call[t].op \notin MovingOps \cup {"create", "truncate", "write"}
    BY <2>1 DEF MovingOps
  <2>5. QED
    BY <1>1, <2>1, <2>2, <2>3, <2>4
<1>8. QED
  BY <1>3, <1>4, <1>5, <1>6, <1>7

(* Closing a file takes nothing from the calls on other files. *)
LEMMA ClosingCache ==
    ASSUME HandleInv, CacheInv, NEW t \in Threads,
           (\E h \in Handles : Close(t, h) \/ CloseTimesOut(t, h)) \/ CloseDone(t)
    PROVE  CacheInv'
<1>0. FilesTypeOK /\ TableInv /\ Shapes
  BY DEF HandleInv, CallInv
<1> DEFINE X == {}
<1>1. ASSUME UNCHANGED <<dir, data, cached, sizes, stale, unsized, due>>,
             call[t].op \in {"none", "close"}, call'[t].op \in {"none", "close"},
             \A u \in Threads \ {t} : Stays(u)
      PROVE  CacheInv'
  <2>1. \A p \in Paths : ServedAlike(p) /\ CachedAlike(p)
    BY <1>1 DEF ServedAlike, CachedAlike
  <2>2. \A p, b : ~SetsSize(t, p) /\ ~SetsBlock(t, p, b)
    BY <1>1, SetsNothing DEF MovingOps
  <2>3. MoveRight(call[t])' /\ GotRight(call[t])'
    BY <1>1 DEF MoveRight, GotRight, MovingOps
  <2>4. \A p \in Paths \cap X : ~due => PathRight(p)'
    OBVIOUS
  <2> HIDE DEF X
  <2>5. \A u \in Threads \ {t} : {call[u].p, call[u].q} \cap X = {}
    BY DEF X
  <2>6. QED
    BY <1>1, <2>1, <2>2, <2>3, <2>4, <2>5, CacheStep
<1>2. ASSUME NEW u \in Threads, call[u].op \in HandleOps
      PROVE  call[u].h \in Handles /\ call[u].sub \in Handles /\ call[u].sub # None
             /\ call[u].h # None
  BY <1>0, <1>2, CallParts, NumberFacts DEF Shapes, Shaped
<1>3. ASSUME NEW h \in Handles, Close(t, h) PROVE CacheInv'
  <2> DEFINE c == [NoCall EXCEPT !.op = "close", !.h = h]
  <2>1. /\ UNCHANGED <<dir, data, opened, files, cached, sizes, stale, unsized, due>>
        /\ call[t] = NoCall /\ call' = [call EXCEPT ![t] = c]
        /\ \A u \in Threads : call[u].h # h
        /\ remote' = [s \in Handles |-> IF s = opened[h].sub THEN None ELSE remote[s]]
    BY <1>3 DEF Close, Begin, cacheVars, tableVars
  <2>2. c \in Call /\ c.op = "close"
    BY NoCallFacts DEF Call, Ops
  <2> HIDE DEF c
  <2>3. ASSUME NEW u \in Threads \ {t} PROVE Stays(u)
    <3>1. GoesOn(call[u], call'[u])
      BY <1>0, <2>1, <2>2, OthersGoOn
    <3>2. call[u].op \in HandleOps => call[u].sub # opened[h].sub
      BY <1>0, <1>2, <2>1 DEF TableInv, OneOwner
    <3>3. QED
      BY <1>2, <2>1, <3>1, <3>2 DEF Stays
  <2>4. call[t].op = "none" /\ call'[t].op = "close"
    BY <1>0, <2>1, <2>2, NoCallFacts DEF FilesTypeOK
  <2>5. QED
    BY <1>1, <2>1, <2>3, <2>4
<1>4. CASE CloseDone(t)
  <2> DEFINE h == call[t].h
  <2>1. /\ UNCHANGED <<dir, data, remote, cached, sizes, stale, unsized, due>>
        /\ call[t].op = "close" /\ Return(t)
        /\ opened' \in {opened, [opened EXCEPT ![h] = NotOpen]}
        /\ files' = [files EXCEPT ![h] = NoFile]
    BY <1>4 DEF CloseDone, serverVars, cacheVars, historyVars
  <2>2. ASSUME NEW u \in Threads \ {t} PROVE Stays(u)
    <3>1. GoesOn(call[u], call'[u])
      BY <1>0, <2>1, OthersGoOn, NoCallFacts DEF Return
    <3>2. call[u].op \in HandleOps => call[u].h # h
      BY <1>0, <1>2, <2>1, <2>2 DEF TableInv, InUse, Shapes, Shaped
    <3> HIDE DEF h
    <3>3. /\ opened \in [Handles -> [path : Paths \cup {NoPath}, sub : Handles \cup {None}]]
          /\ files \in [Handles -> [path : Paths \cup {NoPath}, file : Inodes \cup {None}]]
      BY <1>0 DEF FilesTypeOK
    <3>4. call[u].op \in HandleOps =>
            opened'[call[u].h] = opened[call[u].h] /\ files'[call[u].h] = files[call[u].h]
      <4>1. CASE opened' = opened
        BY <1>2, <2>1, <3>2, <3>3, <4>1
      <4>2. CASE opened' = [opened EXCEPT ![h] = NotOpen]
        BY <1>2, <2>1, <3>2, <3>3, <4>2
      <4>3. QED
        BY <2>1, <4>1, <4>2
    <3>5. QED
      BY <2>1, <3>1, <3>4 DEF Stays
  <2>3. call'[t].op = "none"
    BY <1>0, <2>1, NoCallFacts DEF FilesTypeOK, Return
  <2>4. QED
    BY <1>1, <2>1, <2>2, <2>3
<1>5. ASSUME NEW h \in Handles, CloseTimesOut(t, h) PROVE CacheInv'
  <2>1. /\ UNCHANGED <<dir, data, remote, opened, cached, sizes, call, stale, unsized, due>>
        /\ call[t] = NoCall /\ files' = [files EXCEPT ![h] = NoFile]
        /\ \A u \in Threads : call[u].h # h
    BY <1>5 DEF CloseTimesOut, Begin, cacheVars, serverVars
  <2>2. ASSUME NEW u \in Threads \ {t} PROVE Stays(u)
    <3>1. GoesOn(call[u], call'[u])
      BY <1>0, <2>1, OthersGoOn
    <3>2. call[u].op \in HandleOps => files'[call[u].h] = files[call[u].h]
      BY <1>0, <1>2, <2>1 DEF FilesTypeOK
    <3>3. QED
      BY <2>1, <3>1, <3>2 DEF Stays
  <2>3. call[t].op = "none" /\ call'[t].op = "none"
    BY <2>1, NoCallFacts
  <2>4. QED
    BY <1>1, <2>1, <2>2, <2>3
<1>6. QED
  BY <1>3, <1>4, <1>5

(* A call that begins finds no other at work on its path if one of the two changes paths. *)
LEMMA StartApart ==
    ASSUME HandleInv, NEW c, c.h = None, NEW u \in Threads, call[u] # NoCall,
           ~Conflict(c, call[u]), NEW p \in Paths, p \in {c.p, c.q}
    PROVE  /\ call[u].op \in MovingOps \cup {"create"} => p \notin {call[u].p, call[u].q}
           /\ c.op \in Namespace => ~SetsSize(u, p) /\ \A b : ~SetsBlock(u, p, b)
           /\ c.op \in Namespace => p \notin {call[u].p, call[u].q}
<1>1. p \in PathsOf(c)
  BY NumberFacts DEF PathsOf
<1>2. call[u].h = None => (p \in {call[u].p, call[u].q} => p \in PathsOf(call[u]))
  BY NumberFacts DEF PathsOf
<1>3. Shaped(call[u]) /\ call[u].op \in Ops \cup {"none"}
  BY CallFacts DEF HandleInv, FilesTypeOK, CallInv, Shapes
<1>4. call[u].h # None => call[u].p = NoPath /\ call[u].q = NoPath
  BY <1>3, NoCallFacts DEF Shaped, Ops, OpeningOps, MovingOps, HandleOps
<1>5. p \in {call[u].p, call[u].q} => p \in PathsOf(call[u])
  BY <1>2, <1>4, NumberFacts
<1>6. call[u].op \in MovingOps \cup {"create"} => p \notin {call[u].p, call[u].q}
  BY <1>1, <1>5 DEF Conflict, Namespace, MovingOps
<1>7. ASSUME c.op \in Namespace PROVE p \notin PathsOf(call[u])
  BY <1>1, <1>7 DEF Conflict
<1>8. Writing(call[u], p) => p \in PathsOf(call[u])
  BY <1>3 DEF Writing, PathsOf, Shaped, HandleOps
<1>9. ASSUME c.op \in Namespace PROVE ~SetsSize(u, p) /\ \A b : ~SetsBlock(u, p, b)
  BY <1>5, <1>7, <1>8, <1>9 DEF SetsSize, SetsBlock, Moving, Sizing
<1>10. QED
  BY <1>5, <1>6, <1>7, <1>9

(* A file is created, or an existing one is opened; its size is asked for at the end. *)
LEMMA CreatingCache ==
    ASSUME HandleInv, CacheInv, NEW t \in Threads, NEW p \in Paths, Create(t, p)
    PROVE  CacheInv'
<1>0. FilesTypeOK /\ TableInv /\ Shapes
  BY DEF HandleInv, CallInv
<1> DEFINE c == [NoCall EXCEPT !.op = "create", !.p = p, !.sub = issued + 1]
           file == IF dir[p] = None THEN NextFile ELSE dir[p]
<1>1. /\ Begin(t, c) /\ dir' = [dir EXCEPT ![p] = file]
      /\ remote' = [remote EXCEPT ![issued + 1] = file]
      /\ call' = [call EXCEPT ![t] = c]
      /\ UNCHANGED <<data, opened, files, stale, unsized>>
  BY DEF Create, Opening, tableVars
<1>2. /\ UNCHANGED <<cached, sizes, due>> /\ call[t] = NoCall /\ calls < MaxCalls
      /\ \A u \in Threads : call[u] # NoCall => ~Conflict(c, call[u])
  BY <1>1 DEF Begin, cacheVars
<1>3. c \in Call /\ c.op = "create" /\ c.p = p /\ c.h = None
  <2>1. issued + 1 \in Handles
    BY <1>0, <1>2, CounterFacts, NumberFacts DEF HandleInv, CallInv, Counted
  <2>2. QED
    BY <2>1, NoCallFacts DEF Call, Ops
<1>4. dir[p] # None => file = dir[p]
  OBVIOUS
<1> HIDE DEF c, file
<1>5. ASSUME NEW u \in Threads \ {t} PROVE Stays(u)
  <2>1. GoesOn(call[u], call'[u])
    BY <1>0, <1>1, <1>3, OthersGoOn
  <2>2. QED
    BY <1>1, <2>1, HeldStay DEF Stays
<1>6. ASSUME NEW r \in Paths \ {p}
      PROVE  /\ ServedAlike(r) /\ CachedAlike(r)
             /\ ~SetsSize(t, r) /\ \A b : ~SetsBlock(t, r, b)
  <2>1. ServedAlike(r) /\ CachedAlike(r)
    BY <1>0, <1>1, <1>2 DEF ServedAlike, CachedAlike, FilesTypeOK
  <2>2. QED
    BY <1>2, <2>1, NoCallFacts, SetsNothing DEF MovingOps
<1>7. call'[t] = c
  BY <1>0, <1>1 DEF FilesTypeOK
<1>8. ASSUME ~due PROVE PathRight(p)'
  <2>1. SizeRight(p)'
    BY <1>3, <1>7 DEF SizeRight, SetsSize, Sizing
  <2>2. ASSUME NEW b \in Blocks PROVE BlockRight(p, b)'
    <3>1. BlockRight(p, b)
      BY <1>8 DEF CacheInv
    <3>2. \A u \in Threads : ~SetsBlock(u, p, b)
      <4>1. ASSUME NEW u \in Threads PROVE ~SetsBlock(u, p, b)
        <5>1. CASE call[u] = NoCall
          BY <5>1, NoCallFacts, SetsNothing DEF MovingOps
        <5>2. CASE call[u] # NoCall
          BY <1>2, <1>3, <5>2, StartApart DEF Namespace
        <5>3. QED
          BY <5>1, <5>2
      <4>2. QED
        BY <4>1
    <3>3. Match(p, b) => Match(p, b)'
      BY <1>0, <1>1, <1>2, <1>4 DEF Match, FilesTypeOK
    <3>4. QED
      BY <1>1, <1>2, <3>1, <3>2, <3>3 DEF BlockRight
  <2>3. QED
    BY <2>1, <2>2 DEF PathRight
<1>9. MoveRight(call[t])' /\ GotRight(call[t])'
  BY <1>3, <1>7 DEF MoveRight, GotRight, MovingOps
<1>10. ASSUME NEW u \in Threads \ {t}, call[u].op \in MovingOps
       PROVE  {call[u].p, call[u].q} \cap {p} = {}
  <2>1. call[u] # NoCall
    BY <1>10, NoCallFacts DEF MovingOps
  <2>2. QED
    BY <1>2, <1>3, <1>10, <2>1, StartApart
<1> DEFINE X == {p}
<1>11. /\ \A r \in Paths \ X : /\ ServedAlike(r) /\ CachedAlike(r)
                               /\ ~SetsSize(t, r) /\ \A b : ~SetsBlock(t, r, b)
       /\ \A r \in Paths \cap X : ~due => PathRight(r)'
       /\ \A u \in Threads \ {t} : call[u].op \in MovingOps => {call[u].p, call[u].q} \cap X = {}
  BY <1>6, <1>8, <1>10
<1> HIDE DEF X
<1>12. QED
  BY <1>1, <1>2, <1>5, <1>9, <1>11, CacheStep

(* What is right of a block stays right if neither it nor its file is changed. *)
LEMMA BlockFrame ==
    ASSUME NEW p \in Paths, NEW b \in Blocks, BlockRight(p, b), ServedAlike(p),
           cached'[p] = cached[p], <<p, b>> \in stale => <<p, b>> \in stale',
           \A u \in Threads : SetsBlock(u, p, b) => Stays(u)
    PROVE  BlockRight(p, b)'
<1>1. dir'[p] = dir[p] /\ (Match(p, b)' <=> Match(p, b))
  BY DEF Match, ServedAlike
<1>2. ASSUME NEW u \in Threads, SetsBlock(u, p, b) PROVE SetsBlock(u, p, b)'
  BY <1>1, <1>2, StaysFacts
<1>3. QED
  BY <1>1, <1>2 DEF BlockRight

(* A call returns, having asked for the size of its path, or doubting it. *)
LEMMA ReturnCache ==
    ASSUME HandleInv, CacheInv, NEW t \in Threads, NEW p \in Paths,
           call[t].op \in MovingOps \cup {"create", "truncate"} => p = call[t].p,
           call[t].op \notin MovingOps \cup {"write"},
           Return(t), UNCHANGED <<dir, data, cached, due>>, stale \subseteq stale',
           \A r \in Paths \ {p} : sizes'[r] = sizes[r] /\ (r \in unsized => r \in unsized'),
           SizeRight(p)',
           \A u \in Threads \ {t} : call[u].op \in MovingOps =>
                                        {call[u].p, call[u].q} \cap {p} = {},
           \A u \in Threads \ {t} : Stays(u)
    PROVE  CacheInv'
<1>1. call'[t] = NoCall
  BY DEF Return, HandleInv, FilesTypeOK
<1>2. ASSUME NEW r \in Paths, NEW b PROVE ~SetsBlock(t, r, b) /\ (r # p => ~SetsSize(t, r))
  BY DEF SetsSize, SetsBlock, Moving, Sizing, Writing
<1>3. \A r \in Paths : ServedAlike(r)
  BY DEF ServedAlike
<1>4. \A r \in Paths \ {p} : CachedAlike(r)
  BY DEF CachedAlike
<1>5. ASSUME ~due PROVE PathRight(p)'
  <2>1. ASSUME NEW b \in Blocks PROVE BlockRight(p, b)'
    <3>1. BlockRight(p, b)
      BY <1>5 DEF CacheInv
    <3>2. \A u \in Threads : SetsBlock(u, p, b) => Stays(u)
      BY <1>2
    <3>3. QED
      BY <1>3, <3>1, <3>2, BlockFrame
  <2>2. QED
    BY <2>1 DEF PathRight
<1>6. MoveRight(call[t])' /\ GotRight(call[t])'
  BY <1>1, NoCallFacts DEF MoveRight, GotRight, MovingOps
<1> DEFINE X == {p}
<1>7. /\ \A r \in Paths \ X : /\ ServedAlike(r) /\ CachedAlike(r)
                              /\ ~SetsSize(t, r) /\ \A b : ~SetsBlock(t, r, b)
      /\ \A r \in Paths \cap X : ~due => PathRight(r)'
      /\ \A u \in Threads \ {t} : call[u].op \in MovingOps => {call[u].p, call[u].q} \cap X = {}
  BY <1>2, <1>3, <1>4, <1>5
<1> HIDE DEF X
<1>8. QED
  BY <1>6, <1>7, CacheStep

(* The ends of create and truncate. *)
LEMMA SizingCache ==
    ASSUME HandleInv, CacheInv, NEW t \in Threads,
           \/ CreateDone(t) \/ OpenFails(t) \/ TruncateDone(t)
           \/ ChangeFails(t) /\ call[t].op = "truncate"
    PROVE  CacheInv'
<1>0. FilesTypeOK /\ TableInv /\ Shapes /\ Compatible
  BY DEF HandleInv, CallInv
<1> DEFINE c == call[t]
<1>1. /\ UNCHANGED <<dir, data, remote, cached, due>> /\ stale \subseteq stale'
      /\ c.op \in {"create", "open", "truncate"} /\ Return(t)
      /\ \/ UNCHANGED <<opened, files>>
         \/ \E r, sub, file : NewEntry(r, sub, file)
  BY DEF CreateDone, OpenFails, TruncateDone, ChangeFails, serverVars, tableVars, cacheVars,
     historyVars
<1>2. c.p \in Paths /\ c.q = NoPath /\ c.h = None
  BY <1>0, <1>1 DEF Shapes, Shaped, OpeningOps
<1>3. PICK p \in Paths : p = c.p
  BY <1>2
<1>4. /\ \A r \in Paths \ {p} : sizes'[r] = sizes[r] /\ (r \in unsized => r \in unsized')
      /\ \/ c.op = "open" /\ sizes' = sizes /\ unsized' = unsized
         \/ c.op # "open" /\ p \in unsized'
         \/ c.op # "open" /\ dir[p] # None /\ sizes'[p] = Len(data[dir[p]])
  <2>1. CASE CreateDone(t) \/ TruncateDone(t)
    BY <1>0, <1>3, <2>1 DEF CreateDone, TruncateDone, FilesTypeOK, historyVars
  <2>2. CASE OpenFails(t)
    BY <1>3, <2>2 DEF OpenFails, cacheVars
  <2>3. CASE ChangeFails(t) /\ c.op = "truncate"
    BY <1>3, <1>2, <2>3, NumberFacts DEF ChangeFails, cacheVars
  <2>4. QED
    BY <2>1, <2>2, <2>3
<1>5. ASSUME NEW u \in Threads \ {t} PROVE Stays(u)
  <2>1. GoesOn(call[u], call'[u])
    BY <1>0, <1>1, OthersGoOn, NoCallFacts DEF Return
  <2>2. QED
    BY <1>1, <2>1, HeldStay DEF Stays
<1>6. ASSUME NEW u \in Threads \ {t}, call[u].op \in MovingOps
      PROVE  {call[u].p, call[u].q} \cap {p} = {}
  <2>1. call[u] # NoCall /\ c # NoCall
    BY <1>1, <1>6, NoCallFacts DEF MovingOps
  <2>2. ~Conflict(c, call[u])
    BY <1>0, <2>1 DEF Compatible
  <2>3. p \notin {call[u].p, call[u].q}
    BY <1>3, <1>2, <1>6, <2>1, <2>2, StartApart
  <2>4. QED
    BY <2>3
<1>7. CASE c.op # "open"
  <2>1. SizeRight(p)'
    BY <1>1, <1>4, <1>7 DEF SizeRight, ServedSize
  <2>2. /\ c.op \in MovingOps \cup {"create", "truncate"} => p = c.p
        /\ c.op \notin MovingOps \cup {"write"}
    BY <1>1, <1>3 DEF MovingOps
  <2> HIDE DEF c
  <2>3. QED
    BY <1>1, <1>4, <1>5, <1>6, <2>1, <2>2, ReturnCache DEF c
<1>8. CASE c.op = "open"
  <2>1. sizes' = sizes /\ unsized' = unsized
    BY <1>4, <1>8
  <2>2. \A r \in Paths : ServedAlike(r) /\ CachedAlike(r)
    BY <1>1, <2>1 DEF ServedAlike, CachedAlike
  <2>3. \A r, b : ~SetsSize(t, r) /\ ~SetsBlock(t, r, b)
    BY <1>8, SetsNothing DEF MovingOps
  <2>4. MoveRight(call[t])' /\ GotRight(call[t])'
    BY <1>0, <1>1, NoCallFacts DEF MoveRight, GotRight, MovingOps, Return, FilesTypeOK
  <2>5. \A u \in Threads \ {t} : {call[u].p, call[u].q} \cap {} = {}
    OBVIOUS
  <2>6. QED
    BY <1>1, <1>5, <2>2, <2>3, <2>4, <2>5, CacheStep
<1>9. QED
  BY <1>7, <1>8

(* A change of the content of a file is seen at one path, and by the calls on the file. *)
LEMMA ChangedData ==
    ASSUME HandleInv, NEW p \in Paths, dir[p] # None, dir' = dir,
           NEW content, data' = [data EXCEPT ![dir[p]] = content]
    PROVE  /\ \A r \in Paths \ {p} : ServedAlike(r)
           /\ \A u \in Threads :
                call[u].sub # None /\ remote[call[u].sub] # dir[p] =>
                    data'[remote[call[u].sub]] = data[remote[call[u].sub]]
           /\ data'[dir[p]] = content
<1>1. dir[p] \in Inodes /\ data \in [Inodes -> Content]
  BY DEF HandleInv, FilesTypeOK
<1>2. ASSUME NEW r \in Paths \ {p} PROVE ServedAlike(r)
  <2>1. dir[r] # None => dir[r] # dir[p] /\ dir[r] \in Inodes
    BY DEF HandleInv, CallInv, OnePath, FilesTypeOK
  <2>2. QED
    BY <1>1, <2>1 DEF ServedAlike
<1>3. ASSUME NEW u \in Threads, call[u].sub # None, remote[call[u].sub] # dir[p]
      PROVE  data'[remote[call[u].sub]] = data[remote[call[u].sub]]
  <2>1. remote[call[u].sub] \in Inodes
    BY <1>3, CallParts DEF HandleInv, FilesTypeOK, TableInv, Live
  <2>2. QED
    BY <1>1, <1>3, <2>1
<1>4. QED
  BY <1>1, <1>2, <1>3

(* A call begins that changes the content at path p, and overtakes the calls on the file. *)
LEMMA ChangingCache ==
    ASSUME HandleInv, CacheInv, NEW t \in Threads, NEW p \in Paths, NEW c \in Call,
           call[t] = NoCall, c.op \in {"open", "truncate"}, c.p = p, c.h = None,
           \A u \in Threads : call[u] # NoCall => ~Conflict(c, call[u]),
           dir[p] # None, dir' = dir,
           NEW content, data' = [data EXCEPT ![dir[p]] = content],
           call' = Overtaken([call EXCEPT ![t] = c], dir[p]),
           UNCHANGED <<opened, files, cached, sizes, due>>,
           \/ UNCHANGED remote
           \/ \E file : remote' = [remote EXCEPT ![issued + 1] = file],
           stale \subseteq stale', unsized \subseteq unsized',
           ~due => PathRight(p)'
    PROVE  CacheInv'
<1>0. FilesTypeOK /\ TableInv /\ Shapes
  BY DEF HandleInv, CallInv
<1> DEFINE cs == [call EXCEPT ![t] = c]
<1>1. /\ cs \in [Threads -> Call] /\ cs[t] = c
      /\ \A u \in Threads \ {t} : cs[u] = call[u]
  BY <1>0 DEF FilesTypeOK
<1> HIDE DEF cs
<1>2. \A u \in Threads : /\ GoesOn(cs[u], call'[u])
                         /\ cs[u].sub # None /\ remote[cs[u].sub] = dir[p] => call'[u].overtaken
  BY <1>1, OvertakenFacts DEF cs
<1>3. ASSUME NEW u \in Threads \ {t} PROVE Stays(u)
  <2>1. GoesOn(call[u], call'[u])
    BY <1>1, <1>2
  <2>2. QED
    BY <2>1, HeldStay DEF Stays
<1>4. call'[t].op \in {"open", "truncate"}
  BY <1>1, <1>2 DEF GoesOn, SameCall
<1>5. MoveRight(call[t])' /\ GotRight(call[t])'
  BY <1>4 DEF MoveRight, GotRight, MovingOps
<1>6. ASSUME NEW u \in Threads \ {t}, call[u].op \in MovingOps
      PROVE  {call[u].p, call[u].q} \cap {p} = {}
  <2>1. call[u] # NoCall
    BY <1>6, NoCallFacts DEF MovingOps
  <2>2. p \notin {call[u].p, call[u].q}
    BY <1>6, <2>1, StartApart
  <2>3. QED
    BY <2>2
<1>7. ASSUME NEW u \in Threads \ {t}, call[u].op \in {"read", "write"}
      PROVE  data'[remote[call[u].sub]] = data[remote[call[u].sub]] \/ call'[u].overtaken
  <2>1. call[u].sub # None
    BY <1>0, <1>7 DEF Shapes, Shaped, HandleOps
  <2>2. remote[call[u].sub] = dir[p] => call'[u].overtaken
    BY <1>1, <1>2, <2>1
  <2>3. remote[call[u].sub] # dir[p] =>
            data'[remote[call[u].sub]] = data[remote[call[u].sub]]
    BY <2>1, ChangedData
  <2>4. QED
    BY <2>2, <2>3
<1>8. \A r \in Paths \ {p} : /\ ServedAlike(r) /\ CachedAlike(r)
                             /\ ~SetsSize(t, r) /\ \A b : ~SetsBlock(t, r, b)
  <2>1. \A r \in Paths \ {p} : ServedAlike(r)
    BY ChangedData
  <2>2. \A r \in Paths : CachedAlike(r)
    BY DEF CachedAlike
  <2>3. \A r, b : ~SetsSize(t, r) /\ ~SetsBlock(t, r, b)
    BY NoCallFacts, SetsNothing DEF MovingOps
  <2>4. QED
    BY <2>1, <2>2, <2>3
<1> DEFINE X == {p}
<1>9. /\ \A r \in Paths \ X : /\ ServedAlike(r) /\ CachedAlike(r)
                              /\ ~SetsSize(t, r) /\ \A b : ~SetsBlock(t, r, b)
      /\ \A r \in Paths \cap X : ~due => PathRight(r)'
      /\ \A u \in Threads \ {t} : call[u].op \in MovingOps => {call[u].p, call[u].q} \cap X = {}
  BY <1>6, <1>8
<1> HIDE DEF X
<1>10. QED
  BY <1>3, <1>5, <1>7, <1>9, CacheStep

(* open for writing; the content of the file is gone if it is truncated. *)
LEMMA OpenNowCache ==
    ASSUME HandleInv, CacheInv, NEW t \in Threads, NEW p \in Paths, NEW trunc \in BOOLEAN,
           OpenNow(t, p, trunc)
    PROVE  CacheInv'
<1>0. FilesTypeOK /\ TableInv /\ Shapes
  BY DEF HandleInv, CallInv
<1> DEFINE c == [NoCall EXCEPT !.op = "open", !.p = p, !.sub = issued + 1]
<1>1. /\ Begin(t, c) /\ dir[p] # None
      /\ remote' = [remote EXCEPT ![issued + 1] = dir[p]]
      /\ IF trunc
         THEN /\ data' = [data EXCEPT ![dir[p]] = <<>>]
              /\ call' = Overtaken([call EXCEPT ![t] = c], dir[p])
              /\ stale' = stale \cup ({p} \X Blocks)
              /\ unsized' = unsized \cup {p}
         ELSE /\ call' = [call EXCEPT ![t] = c]
              /\ UNCHANGED <<data, stale, unsized>>
      /\ UNCHANGED <<dir, opened, files>>
  BY DEF OpenNow, Opening, tableVars
<1>2. /\ UNCHANGED <<cached, sizes, due>> /\ call[t] = NoCall /\ calls < MaxCalls
      /\ \A u \in Threads : call[u] # NoCall => ~Conflict(c, call[u])
  BY <1>1 DEF Begin, cacheVars
<1>3. c \in Call /\ c.op = "open" /\ c.p = p /\ c.h = None
  <2>1. issued + 1 \in Handles
    BY <1>0, <1>2, CounterFacts, NumberFacts DEF HandleInv, CallInv, Counted
  <2>2. QED
    BY <2>1, NoCallFacts DEF Call, Ops
<1> HIDE DEF c
<1>4. CASE trunc
  <2>1. PathRight(p)'
    BY <1>1, <1>4 DEF PathRight, SizeRight, BlockRight
  <2> DEFINE content == <<>>
  <2>2. data' = [data EXCEPT ![dir[p]] = content]
    BY <1>1, <1>4
  <2> HIDE DEF content
  <2>3. /\ call' = Overtaken([call EXCEPT ![t] = c], dir[p])
        /\ stale \subseteq stale' /\ unsized \subseteq unsized'
    BY <1>1, <1>4
  <2>4. QED
    BY <1>1, <1>2, <1>3, <2>1, <2>2, <2>3, ChangingCache
<1>5. CASE ~trunc
  <2>1. /\ call' = [call EXCEPT ![t] = c] /\ UNCHANGED <<data, stale, unsized>>
    BY <1>1, <1>5
  <2>2. ASSUME NEW u \in Threads \ {t} PROVE Stays(u)
    <3>1. GoesOn(call[u], call'[u])
      BY <1>0, <1>3, <2>1, OthersGoOn
    <3>2. QED
      BY <1>1, <3>1, HeldStay DEF Stays
  <2>3. \A r \in Paths : ServedAlike(r) /\ CachedAlike(r)
    BY <1>1, <1>2, <2>1 DEF ServedAlike, CachedAlike
  <2>4. \A r, b : ~SetsSize(t, r) /\ ~SetsBlock(t, r, b)
    BY <1>2, NoCallFacts, SetsNothing DEF MovingOps
  <2>5. MoveRight(call[t])' /\ GotRight(call[t])'
    BY <1>0, <1>3, <2>1 DEF MoveRight, GotRight, MovingOps, FilesTypeOK
  <2>6. \A u \in Threads \ {t} : {call[u].p, call[u].q} \cap {} = {}
    OBVIOUS
  <2>7. QED
    BY <1>1, <1>2, <2>1, <2>2, <2>3, <2>4, <2>5, <2>6, CacheStep
<1>6. QED
  BY <1>4, <1>5

(* truncate: what is before the new end stays right. *)
LEMMA TruncateCache ==
    ASSUME HandleInv, CacheInv, NEW t \in Threads, NEW p \in Paths, NEW n \in 0..PageSize,
           Truncate(t, p, n)
    PROVE  CacheInv'
<1>0. FilesTypeOK /\ TableInv /\ Shapes
  BY DEF HandleInv, CallInv
<1> DEFINE c == [NoCall EXCEPT !.op = "truncate", !.p = p]
           content == Resized(data[dir[p]], n)
           cs == [call EXCEPT ![t] = c]
<1>1. /\ Begin(t, c) /\ dir[p] # None
      /\ data' = [data EXCEPT ![dir[p]] = content]
      /\ call' = Overtaken(cs, dir[p])
      /\ stale' = stale \cup ({p} \X (Blocks \ 1..n))
      /\ UNCHANGED <<dir, remote, opened, files, unsized>>
  BY DEF Truncate, tableVars
<1>2. /\ UNCHANGED <<cached, sizes, due>> /\ call[t] = NoCall
      /\ \A u \in Threads : call[u] # NoCall => ~Conflict(c, call[u])
  BY <1>1 DEF Begin, cacheVars
<1>3. c \in Call /\ c.op = "truncate" /\ c.p = p /\ c.h = None
  BY NoCallFacts DEF Call, Ops
<1>4. dir[p] \in Inodes /\ data[dir[p]] \in Content
  BY <1>0, <1>1, ServedFacts
<1>5. \A k \in DOMAIN data[dir[p]] :
        k \in 1..n => k \in DOMAIN content /\ content[k] = data[dir[p]][k]
  BY <1>4, ResizedFacts
<1>6. cs \in [Threads -> Call] /\ cs[t] = c /\ \A u \in Threads \ {t} : cs[u] = call[u]
  BY <1>0, <1>3 DEF FilesTypeOK
<1> HIDE DEF c, content, cs
<1>7. \A u \in Threads : GoesOn(cs[u], call'[u])
  BY <1>1, <1>6, OvertakenFacts
<1>8. \A u \in Threads \ {t} : Stays(u)
  BY <1>1, <1>6, <1>7 DEF Stays
<1>9. data'[dir[p]] = content
  BY <1>0, <1>1, <1>4 DEF FilesTypeOK
<1>10. ASSUME ~due PROVE PathRight(p)'
  <2>1. SizeRight(p)'
    <3>1. Sizing(call[t], p)'
      BY <1>3, <1>6, <1>7 DEF Sizing, GoesOn, SameCall
    <3>2. QED
      BY <3>1 DEF SizeRight, SetsSize
  <2>2. ASSUME NEW b \in Blocks PROVE BlockRight(p, b)'
    <3>1. BlockRight(p, b)
      BY <1>10 DEF CacheInv
    <3>2. CASE b \notin 1..n
      BY <1>1, <3>2 DEF BlockRight
    <3>3. CASE b \in 1..n
      <4>1. Match(p, b) => Match(p, b)'
        BY <1>1, <1>2, <1>5, <1>9, <3>3 DEF Match
      <4>2. ASSUME NEW u \in Threads, SetsBlock(u, p, b) PROVE SetsBlock(u, p, b)'
        <5>1. u # t
          BY <1>2, <4>2, NoCallFacts, SetsNothing DEF MovingOps
        <5>2. QED
          BY <1>1, <1>8, <4>2, <5>1, StaysFacts
      <4>3. QED
        BY <1>1, <1>2, <3>1, <4>1, <4>2 DEF BlockRight
    <3>4. QED
      BY <3>2, <3>3
  <2>3. QED
    BY <2>1, <2>2 DEF PathRight
<1>11. call' = Overtaken([call EXCEPT ![t] = c], dir[p])
  BY <1>1 DEF cs
<1>12. stale \subseteq stale' /\ unsized \subseteq unsized'
  BY <1>1
<1>13. QED
  BY <1>1, <1>2, <1>3, <1>10, <1>11, <1>12, ChangingCache

(* A write that changes the file: what the cache has of the block is right when the call *)
(* has ended, or doubted if the block landed elsewhere. *)
LEMMA WriteCache ==
    ASSUME HandleInv, CacheInv, NEW t \in Threads, NEW h \in Handles, NEW b \in Blocks,
           NEW at \in Blocks, Write(t, h, b, at)
    PROVE  CacheInv'
<1>0. FilesTypeOK /\ TableInv /\ Shapes
  BY DEF HandleInv, CallInv
<1>1. PICK file : file = remote[opened[h].sub]
  OBVIOUS
<1> DEFINE c == [NoCall EXCEPT !.op = "write", !.h = h, !.sub = opened[h].sub, !.b = b,
                               !.got = <<NextVersion>>, !.overtaken = at # b]
           own == {opened[h].path} \cap {files[h].path}
           others == PathsTo(file) \ own
           doubted == PathsTo(file) \ (IF at = b THEN own ELSE {})
<1>2. /\ IsOpen(h) /\ opened[h].sub # None /\ Begin(t, c)
      /\ data' = [data EXCEPT ![file] = Put(@, at, NextVersion)]
      /\ call' = [Overtaken(call, file) EXCEPT ![t] = c]
      /\ stale' = stale \cup (doubted \X {at})
      /\ unsized' = unsized \cup others
      /\ UNCHANGED <<dir, remote, opened, files>>
  <2>1. at # None
    BY NumberFacts DEF Blocks
  <2>2. QED
    BY <1>1, <2>1 DEF Write, tableVars
<1>3. UNCHANGED <<cached, sizes, due>> /\ call[t] = NoCall /\ calls < MaxCalls
  BY <1>2 DEF Begin, cacheVars
<1>4. /\ file \in Inodes /\ opened[h].sub \in Handles /\ data[file] \in Content
      /\ NextVersion \in Versions
  <2>1. file \in Inodes /\ opened[h].sub \in Handles
    BY <1>0, <1>1, <1>2 DEF FilesTypeOK, TableInv, Live
  <2>2. NextVersion \in Versions
    BY <1>0, <1>3, CounterFacts, NumberFacts DEF NextVersion, Versions
  <2>3. QED
    BY <1>0, <2>1, <2>2 DEF FilesTypeOK
<1>5. /\ c \in Call /\ c.op = "write" /\ c.h = h /\ c.sub = opened[h].sub /\ c.b = b
      /\ c.got[1] = NextVersion /\ c.overtaken = (at # b)
  BY <1>4, NoCallFacts, SmallContents DEF Call, Ops
<1>6. PICK content : content = Put(data[file], at, NextVersion)
  OBVIOUS
<1>7. /\ at \in DOMAIN content /\ content[at] = NextVersion
      /\ \A k \in DOMAIN data[file] :
            k \in DOMAIN content /\ (k # at => content[k] = data[file][k])
      /\ data' = [data EXCEPT ![file] = content]
  BY <1>2, <1>4, <1>6, PutFacts
<1> HIDE DEF c
<1>8. data'[file] = content /\ \A i \in Inodes : i # file => data'[i] = data[i]
  BY <1>0, <1>4, <1>7 DEF FilesTypeOK
<1>9. /\ Overtaken(call, file) \in [Threads -> Call]
      /\ \A u \in Threads :
            /\ call[u].sub # None /\ remote[call[u].sub] = file
                    => Overtaken(call, file)[u].overtaken
            /\ {call[u].p, call[u].q} \cap PathsTo(file) # {}
                    => Overtaken(call, file)[u].overtaken
  BY <1>0, OvertakenFacts DEF FilesTypeOK
<1>10. call'[t] = c /\ \A u \in Threads \ {t} : call'[u] = Overtaken(call, file)[u]
  BY <1>2, <1>9
<1>11. ASSUME NEW u \in Threads \ {t} PROVE Stays(u)
  <2>1. GoesOn(call[u], call'[u])
    BY <1>0, <1>2, <1>5, OthersGoOn
  <2>2. QED
    BY <1>2, <2>1, HeldStay DEF Stays
<1> DEFINE X == {r \in Paths : dir[r] = file}
<1>12. ASSUME NEW r \in Paths \ X
       PROVE  /\ ServedAlike(r) /\ CachedAlike(r)
              /\ ~SetsSize(t, r) /\ \A k : ~SetsBlock(t, r, k)
  <2>1. ServedAlike(r)
    BY <1>0, <1>2, <1>8 DEF ServedAlike, FilesTypeOK
  <2>2. CachedAlike(r)
    BY <1>2, <1>3 DEF CachedAlike
  <2>3. QED
    BY <1>3, <2>1, <2>2, NoCallFacts, SetsNothing DEF MovingOps
<1>13. ASSUME NEW r \in X, r \notin others PROVE Writing(call[t], r)' /\ call'[t].b = b
  <2>1. opened[h].path = r /\ files[h].path = r
    BY <1>13 DEF PathsTo
  <2> HIDE DEF own, others, doubted
  <2>2. QED
    BY <1>1, <1>2, <1>5, <1>10, <1>13, <2>1 DEF Writing
<1>14. ASSUME NEW r \in X, ~due PROVE PathRight(r)'
  <2>1. SizeRight(r)'
    BY <1>2, <1>13 DEF SizeRight, SetsSize
  <2>2. ASSUME NEW k \in Blocks PROVE BlockRight(r, k)'
    <3>1. CASE k = at
      <4>1. CASE at # b \/ r \in others
        <5>1. r \in PathsTo(file)
          BY DEF PathsTo
        <5>2. r \in doubted
          BY <4>1, <5>1
        <5>3. QED
          BY <1>2, <3>1, <5>2 DEF BlockRight
      <4>2. CASE at = b /\ r \notin others
        BY <1>13, <3>1, <4>2 DEF BlockRight, SetsBlock
      <4>3. QED
        BY <4>1, <4>2
    <3>2. CASE k # at
      <4>1. BlockRight(r, k)
        BY <1>14 DEF CacheInv
      <4>2. Match(r, k) => Match(r, k)'
        BY <1>2, <1>3, <1>7, <1>8, <3>2 DEF Match
      <4>3. ASSUME NEW u \in Threads, SetsBlock(u, r, k) PROVE SetsBlock(u, r, k)'
        <5>1. u # t
          BY <1>3, <4>3, NoCallFacts, SetsNothing DEF MovingOps
        <5>2. QED
          BY <1>2, <1>11, <4>3, <5>1, StaysFacts
      <4>4. QED
        BY <1>2, <1>3, <4>1, <4>2, <4>3 DEF BlockRight
    <3>3. QED
      BY <3>1, <3>2
  <2>3. QED
    BY <2>1, <2>2 DEF PathRight
<1>15. MoveRight(call[t])' /\ GotRight(call[t])'
  <2>1. /\ call'[t].op = "write" /\ call'[t].b = b /\ call'[t].got[1] = NextVersion
        /\ remote'[call'[t].sub] = file
    BY <1>1, <1>2, <1>5, <1>10
  <2>2. MoveRight(call[t])'
    BY <2>1 DEF MoveRight, MovingOps
  <2>3. at \in DOMAIN data'[file] /\ data'[file][at] = NextVersion
    BY <1>7, <1>8
  <2>4. GotRight(call[t])'
    BY <1>5, <1>10, <2>1, <2>3 DEF GotRight
  <2>5. QED
    BY <2>2, <2>4
<1>16. ASSUME NEW u \in Threads \ {t}
       PROVE  /\ call[u].op \in MovingOps =>
                    {call[u].p, call[u].q} \cap X = {} \/ call'[u].overtaken
              /\ call[u].op \in {"read", "write"} =>
                    data'[remote[call[u].sub]] = data[remote[call[u].sub]] \/ call'[u].overtaken
  <2>1. X = PathsTo(file)
    BY DEF PathsTo
  <2>2. call[u].op \in {"read", "write"} => call[u].sub \in Handles /\ call[u].sub # None
    BY <1>0, CallParts DEF Shapes, Shaped, HandleOps
  <2>3. call[u].op \in {"read", "write"} => remote[call[u].sub] \in Inodes
    BY <1>0, <2>2 DEF TableInv, Live, FilesTypeOK
  <2> HIDE DEF X
  <2>4. QED
    BY <1>2, <1>8, <1>9, <1>10, <2>1, <2>2, <2>3
<1> HIDE DEF X
<1>17. X \subseteq Paths
  BY DEF X
<1>18. QED
  BY <1>3, <1>11, <1>12, <1>14, <1>15, <1>16, <1>17, CacheStep

(* A write that changes nothing. *)
LEMMA NoWriteCache ==
    ASSUME HandleInv, CacheInv, NEW t \in Threads, NEW h \in Handles, NEW b \in Blocks,
           Write(t, h, b, None)
    PROVE  CacheInv'
<1>0. FilesTypeOK /\ TableInv /\ Shapes
  BY DEF HandleInv, CallInv
<1> DEFINE c == [NoCall EXCEPT !.op = "write", !.h = h, !.sub = opened[h].sub, !.b = b,
                               !.got = <<NextVersion>>, !.overtaken = None # b]
<1>1. /\ opened[h].sub # None /\ Begin(t, c) /\ call' = [call EXCEPT ![t] = c]
      /\ UNCHANGED <<dir, data, remote, opened, files, stale, unsized>>
  BY DEF Write, tableVars
<1>2. UNCHANGED <<cached, sizes, due>> /\ call[t] = NoCall /\ calls < MaxCalls
  BY <1>1 DEF Begin, cacheVars
<1>3. c \in Call /\ c.op = "write" /\ c.overtaken
  <2>1. opened[h].sub \in Handles
    BY <1>0, <1>1 DEF FilesTypeOK
  <2>2. NextVersion \in Versions
    BY <1>0, <1>2, CounterFacts, NumberFacts DEF NextVersion, Versions
  <2>3. None # b
    BY NumberFacts DEF Blocks
  <2>4. QED
    BY <2>1, <2>2, <2>3, NoCallFacts, SmallContents DEF Call, Ops
<1> HIDE DEF c
<1>4. ASSUME NEW u \in Threads \ {t} PROVE Stays(u)
  <2>1. GoesOn(call[u], call'[u])
    BY <1>0, <1>1, <1>3, OthersGoOn
  <2>2. QED
    BY <1>1, <2>1, HeldStay DEF Stays
<1>5. \A r : ServedAlike(r) /\ CachedAlike(r)
  BY <1>1, <1>2 DEF ServedAlike, CachedAlike
<1>6. \A r, k : ~SetsSize(t, r) /\ ~SetsBlock(t, r, k)
  BY <1>2, NoCallFacts, SetsNothing DEF MovingOps
<1>7. MoveRight(call[t])' /\ GotRight(call[t])'
  BY <1>0, <1>1, <1>3 DEF MoveRight, GotRight, MovingOps, FilesTypeOK
<1>8. \A u \in Threads \ {t} : {call[u].p, call[u].q} \cap {} = {}
  OBVIOUS
<1>9. QED
  BY <1>1, <1>2, <1>4, <1>5, <1>6, <1>7, <1>8, CacheStep

(* The end of a read: the blocks it cached are right, or doubted. *)
LEMMA ReadDoneCache ==
    ASSUME HandleInv, CacheInv, NEW t \in Threads, ReadDone(t)
    PROVE  CacheInv'
<1>0. FilesTypeOK /\ TableInv /\ Shapes
  BY DEF HandleInv, CallInv
<1> DEFINE c == call[t]
<1>1. PICK p : p = opened[c.h].path
  OBVIOUS
<1>2. /\ c.op = "read" /\ Return(t)
      /\ opened' = [opened EXCEPT ![c.h].sub = c.sub]
      /\ cached' = [cached EXCEPT ![p] = Page(c.got)]
      /\ stale' = {s \in stale : s[1] # p}
                      \cup ({p} \X IF Doubtful(c, p) THEN Blocks ELSE Blocks \ DOMAIN c.got)
      /\ UNCHANGED <<dir, data, remote, files, sizes, unsized, due>>
  BY <1>1 DEF ReadDone, serverVars
<1>3. c \in Call /\ c.h \in Handles /\ c.sub \in Handles
  BY <1>0, <1>2, CallParts DEF Shapes, Shaped, HandleOps
<1>4. p \in Paths /\ remote[c.sub] # None
  BY <1>0, <1>1, <1>3, NumberFacts DEF TableInv, Tabled, InUse, Live
<1>5. call'[t] = NoCall
  BY <1>0, <1>2 DEF FilesTypeOK, Return
<1>6. ASSUME NEW u \in Threads \ {t} PROVE Stays(u)
  <2>1. GoesOn(call[u], call'[u])
    BY <1>0, <1>2, OthersGoOn, NoCallFacts DEF Return
  <2>2. call[u].op \in HandleOps => opened'[call[u].h].path = opened[call[u].h].path
    BY <1>0, <1>2, CallParts DEF FilesTypeOK, Shapes, Shaped
  <2>3. QED
    BY <1>2, <2>1, <2>2 DEF Stays
<1>7. \A r, b : ~SetsSize(t, r) /\ ~SetsBlock(t, r, b)
  BY <1>2, SetsNothing DEF MovingOps
<1>8. ASSUME NEW r \in Paths \ {p} PROVE ServedAlike(r) /\ CachedAlike(r)
  <2>1. \A b \in Blocks : <<r, b>> \in stale => <<r, b>> \in stale'
    BY <1>2, <1>8
  <2>2. QED
    BY <1>0, <1>2, <1>8, <2>1 DEF ServedAlike, CachedAlike, FilesTypeOK
<1>9. ASSUME ~due PROVE PathRight(p)'
  <2>1. SizeRight(p)'
    <3>1. SizeRight(p)
      BY <1>4, <1>9 DEF CacheInv
    <3>2. ASSUME NEW u \in Threads, SetsSize(u, p) PROVE SetsSize(u, p)'
      <4>1. u # t
        BY <1>7, <3>2
      <4>2. QED
        BY <1>2, <1>6, <3>2, <4>1, StaysFacts
    <3>3. ServedSize(p)' = ServedSize(p)
      BY <1>2 DEF ServedSize
    <3>4. QED
      BY <1>2, <3>1, <3>2, <3>3 DEF SizeRight
  <2>2. ASSUME NEW b \in Blocks, <<p, b>> \notin stale' PROVE Match(p, b)'
    <3>1. ~Doubtful(c, p) /\ b \in DOMAIN c.got
      BY <1>2, <2>2
    <3>2. remote[c.sub] = dir[p] /\ ~c.overtaken
      BY <3>1 DEF Doubtful
    <3>3. c.got = data[dir[p]]
      BY <1>2, <3>2 DEF CacheInv, GotRight
    <3>4. cached'[p][b] = c.got[b]
      BY <1>0, <1>2, <1>4, <3>1 DEF FilesTypeOK, Page
    <3>5. QED
      BY <1>2, <1>4, <3>1, <3>2, <3>3, <3>4 DEF Match
  <2>3. QED
    BY <2>1, <2>2 DEF PathRight, BlockRight
<1>10. MoveRight(call[t])' /\ GotRight(call[t])'
  BY <1>5, NoCallFacts DEF MoveRight, GotRight, MovingOps
<1> DEFINE X == {p}
<1>11. /\ \A r \in Paths \ X : /\ ServedAlike(r) /\ CachedAlike(r)
                               /\ ~SetsSize(t, r) /\ \A b : ~SetsBlock(t, r, b)
       /\ \A r \in Paths \cap X : ~due => PathRight(r)'
  BY <1>7, <1>8, <1>9
<1> HIDE DEF X
<1>12. \A r : ServedAlike(r) /\ SizeAlike(r)
  BY <1>2 DEF ServedAlike, SizeAlike
<1>13. QED
  BY <1>2, <1>6, <1>10, <1>11, <1>12, CacheStep

(* The end of a write: block and size are set, or doubted. *)
LEMMA WriteDoneCache ==
    ASSUME HandleInv, CacheInv, NEW t \in Threads, WriteDone(t)
    PROVE  CacheInv'
<1>0. FilesTypeOK /\ TableInv /\ Shapes
  BY DEF HandleInv, CallInv
<1> DEFINE c == call[t]
<1>1. PICK p : p = opened[c.h].path
  OBVIOUS
<1>2. /\ c.op = "write" /\ dir[p] # None
      /\ sizes' = [sizes EXCEPT ![p] = Len(data[dir[p]])]
      /\ unsized' = unsized \ {p}
      /\ cached' = [cached EXCEPT ![p][c.b] = c.got[1]]
      /\ stale' = IF Doubtful(c, p) THEN stale \cup {<<p, c.b>>} ELSE stale \ {<<p, c.b>>}
      /\ call' = [Renaming(p) EXCEPT ![t] = NoCall]
      /\ UNCHANGED <<dir, data, remote, opened, files, due>>
  BY <1>1 DEF WriteDone, serverVars, tableVars
<1>3. c \in Call /\ c.h \in Handles /\ c.b \in Blocks
  BY <1>0, <1>2, CallParts DEF Shapes, Shaped, HandleOps
<1>4. p \in Paths
  BY <1>0, <1>1, <1>3, NumberFacts DEF TableInv, Tabled, InUse
<1>5. /\ Renaming(p) \in [Threads -> Call]
      /\ \A u \in Threads : call[u].op \in Namespace /\ p \in {call[u].p, call[u].q}
                                => Renaming(p)[u].overtaken
  BY <1>0, RenamingFacts DEF FilesTypeOK
<1>6. call'[t] = NoCall /\ \A u \in Threads \ {t} : call'[u] = Renaming(p)[u]
  BY <1>2, <1>5
<1>7. ASSUME NEW u \in Threads \ {t} PROVE Stays(u)
  <2>1. GoesOn(call[u], call'[u])
    BY <1>0, <1>2, OthersGoOn, NoCallFacts
  <2>2. QED
    BY <1>2, <2>1, HeldStay DEF Stays
<1>8. /\ \A r : r # p => ~SetsSize(t, r) /\ \A b : ~SetsBlock(t, r, b)
      /\ \A b : b # c.b => ~SetsBlock(t, p, b)
  BY <1>1, <1>2 DEF SetsSize, SetsBlock, Moving, Sizing, Writing, MovingOps
<1>9. ASSUME NEW r \in Paths \ {p} PROVE ServedAlike(r) /\ CachedAlike(r)
  <2>1. \A b \in Blocks : <<r, b>> \in stale => <<r, b>> \in stale'
    BY <1>2, <1>9
  <2>2. QED
    BY <1>0, <1>2, <1>9, <2>1 DEF ServedAlike, CachedAlike, FilesTypeOK
<1>10. ASSUME ~due PROVE PathRight(p)'
  <2>1. SizeRight(p)'
    BY <1>0, <1>2, <1>4 DEF SizeRight, ServedSize, FilesTypeOK
  <2>2. ASSUME NEW b \in Blocks PROVE BlockRight(p, b)'
    <3>1. CASE b = c.b
      <4>1. CASE Doubtful(c, p)
        BY <1>2, <3>1, <4>1 DEF BlockRight
      <4>2. CASE ~Doubtful(c, p)
        <5>1. remote[c.sub] = dir[p] /\ ~c.overtaken
          BY <4>2 DEF Doubtful
        <5>2. b \in DOMAIN data[dir[p]] /\ data[dir[p]][b] = c.got[1]
          BY <1>2, <3>1, <5>1 DEF CacheInv, GotRight
        <5>3. cached'[p][b] = c.got[1]
          BY <1>0, <1>2, <1>3, <1>4, <3>1 DEF FilesTypeOK
        <5>4. Match(p, b)'
          BY <1>2, <5>2, <5>3 DEF Match
        <5>5. QED
          BY <5>4 DEF BlockRight
      <4>3. QED
        BY <4>1, <4>2
    <3>2. CASE b # c.b
      <4>1. BlockRight(p, b)
        BY <1>4, <1>10 DEF CacheInv
      <4>2. /\ cached'[p][b] = cached[p][b]
            /\ <<p, b>> \in stale => <<p, b>> \in stale'
        BY <1>0, <1>2, <1>3, <1>4, <3>2 DEF FilesTypeOK
      <4>3. Match(p, b) <=> Match(p, b)'
        BY <1>2, <4>2 DEF Match
      <4>4. ASSUME NEW u \in Threads, SetsBlock(u, p, b) PROVE SetsBlock(u, p, b)'
        BY <1>2, <1>7, <1>8, <3>2, <4>4, StaysFacts
      <4>5. QED
        BY <4>1, <4>2, <4>3, <4>4 DEF BlockRight
    <3>3. QED
      BY <3>1, <3>2
  <2>3. QED
    BY <2>1, <2>2 DEF PathRight
<1>11. MoveRight(call[t])' /\ GotRight(call[t])'
  BY <1>6, NoCallFacts DEF MoveRight, GotRight, MovingOps
<1> DEFINE X == {p}
<1>12. ASSUME NEW u \in Threads \ {t}, call[u].op \in MovingOps
       PROVE  {call[u].p, call[u].q} \cap X = {} \/ call'[u].overtaken
  BY <1>2, <1>5, <1>6, <1>12 DEF MovingOps, Namespace
<1>13. /\ \A r \in Paths \ X : /\ ServedAlike(r) /\ CachedAlike(r)
                               /\ ~SetsSize(t, r) /\ \A b : ~SetsBlock(t, r, b)
       /\ \A r \in Paths \cap X : ~due => PathRight(r)'
  BY <1>8, <1>9, <1>10
<1> HIDE DEF X
<1>14. QED
  BY <1>2, <1>7, <1>11, <1>12, <1>13, CacheStep

(* A write or a change of paths that fails: what it would have set is doubted. *)
LEMMA FailingCache ==
    ASSUME HandleInv, CacheInv, NEW t \in Threads,
           WriteFails(t) \/ (ChangeFails(t) /\ call[t].op # "truncate")
    PROVE  CacheInv'
<1>0. FilesTypeOK /\ TableInv /\ Shapes
  BY DEF HandleInv, CallInv
<1> DEFINE c == call[t]
<1>1. PICK X : X = IF c.op = "write" THEN PathsTo(remote[c.sub]) ELSE {c.p, c.q}
  OBVIOUS
<1>2. PICK B : B = IF c.op = "write" THEN {c.b} ELSE Blocks
  OBVIOUS
<1>3. /\ c.op \in MovingOps \cup {"write"} /\ Return(t)
      /\ UNCHANGED <<dir, data, remote, opened, files, cached, sizes, due>>
      /\ stale \subseteq stale' /\ unsized \subseteq unsized'
  BY DEF WriteFails, ChangeFails, serverVars, tableVars, cacheVars, MovingOps
<1>4. c.op \in MovingOps => c.p \in Paths /\ c.q \in Paths
  BY <1>0 DEF Shapes, Shaped
<1>5. X \subseteq unsized' /\ \A r \in X, b \in B : <<r, b>> \in stale'
  <2>1. CASE c.op = "write"
    BY <1>1, <1>2, <2>1 DEF WriteFails, ChangeFails
  <2>2. CASE c.op \in MovingOps
    BY <1>1, <1>2, <1>4, <2>2, NumberFacts DEF WriteFails, ChangeFails, MovingOps
  <2>3. QED
    BY <1>3, <2>1, <2>2
<1>6. call'[t] = NoCall
  BY <1>0, <1>3 DEF FilesTypeOK, Return
<1>7. ASSUME NEW u \in Threads \ {t} PROVE Stays(u)
  <2>1. GoesOn(call[u], call'[u])
    BY <1>0, <1>3, OthersGoOn, NoCallFacts DEF Return
  <2>2. QED
    BY <1>3, <2>1, HeldStay DEF Stays
<1>8. ASSUME NEW r \in Paths
      PROVE  /\ r \notin X => ~SetsSize(t, r) /\ \A b : ~SetsBlock(t, r, b)
             /\ \A b \in Blocks \ B : ~SetsBlock(t, r, b)
  <2>1. CASE c.op = "write"
    BY <1>1, <1>2, <2>1 DEF SetsSize, SetsBlock, Moving, Sizing, Writing, MovingOps, PathsTo
  <2>2. CASE c.op \in MovingOps
    BY <1>1, <1>2, <2>2 DEF SetsSize, SetsBlock, Moving, Sizing, Writing, MovingOps
  <2>3. QED
    BY <1>3, <2>1, <2>2
<1>9. \A r : ServedAlike(r) /\ CachedAlike(r) /\ SizeAlike(r)
  BY <1>3 DEF ServedAlike, CachedAlike, SizeAlike
<1>10. ASSUME NEW r \in Paths \cap X, ~due PROVE PathRight(r)'
  <2>1. SizeRight(r)'
    BY <1>5 DEF SizeRight
  <2>2. ASSUME NEW b \in Blocks PROVE BlockRight(r, b)'
    <3>1. CASE b \in B
      BY <1>5, <3>1 DEF BlockRight
    <3>2. CASE b \notin B
      <4>1. BlockRight(r, b)
        BY <1>10 DEF CacheInv
      <4>2. \A u \in Threads : SetsBlock(u, r, b) => Stays(u)
        BY <1>7, <1>8, <3>2
      <4>3. QED
        BY <1>3, <1>9, <4>1, <4>2, BlockFrame
    <3>3. QED
      BY <3>1, <3>2
  <2>3. QED
    BY <2>1, <2>2 DEF PathRight
<1>11. MoveRight(call[t])' /\ GotRight(call[t])'
  BY <1>6, NoCallFacts DEF MoveRight, GotRight, MovingOps
<1>12. QED
  BY <1>3, <1>7, <1>8, <1>9, <1>10, <1>11, CacheStep

(* Paths are changed on the server: the call knows the sizes it is to move. *)
LEMMA ChangeCache ==
    ASSUME HandleInv, CacheInv, NEW t \in Threads, NEW op \in MovingOps, NEW p \in Paths,
           NEW q \in Paths, Change(t, op, p, q)
    PROVE  CacheInv'
<1>0. FilesTypeOK /\ TableInv /\ Shapes
  BY DEF HandleInv, CallInv
<1> DEFINE c == [NoCall EXCEPT !.op = op, !.p = p, !.q = q]
<1>1. /\ Begin(t, c) /\ call' = [call EXCEPT ![t] = c]
      /\ dir' = [r \in Paths |->
                   CASE op # "unlink" /\ r = q -> dir[p]
                     [] r = p -> IF op = "exchange" THEN dir[q] ELSE None
                     [] OTHER -> dir[r]]
      /\ UNCHANGED <<data, remote, opened, files, stale, unsized>>
      /\ (op = "unlink") <=> (q = p)
  BY DEF Change, Execute, tableVars, MovingOps
<1>2. /\ UNCHANGED <<cached, sizes, due>> /\ call[t] = NoCall
      /\ \A u \in Threads : call[u] # NoCall => ~Conflict(c, call[u])
  BY <1>1 DEF Begin, cacheVars
<1>3. c \in Call /\ c.op = op /\ c.p = p /\ c.q = q /\ c.h = None
  BY NoCallFacts DEF Call, Ops, MovingOps
<1> HIDE DEF c
<1>4. call'[t] = c
  BY <1>0, <1>1, <1>3 DEF FilesTypeOK
<1>5. /\ \A r \in Paths \ {p, q} : dir'[r] = dir[r]
      /\ dir'[p] = IF op = "exchange" THEN dir[q] ELSE None
      /\ op # "unlink" => dir'[q] = dir[p]
  BY <1>1 DEF MovingOps
<1>6. ASSUME NEW u \in Threads \ {t} PROVE Stays(u)
  <2>1. GoesOn(call[u], call'[u])
    BY <1>0, <1>1, <1>3, OthersGoOn
  <2>2. QED
    BY <1>1, <2>1, HeldStay DEF Stays
<1>7. ASSUME NEW u \in Threads, NEW r \in {p, q}
      PROVE  /\ ~SetsSize(u, r)
             /\ call[u].op \in MovingOps => r \notin {call[u].p, call[u].q}
  <2>1. CASE call[u] = NoCall
    BY <2>1, NoCallFacts, SetsNothing DEF MovingOps
  <2>2. CASE call[u] # NoCall
    <3>1. c.op \in Namespace
      BY <1>3 DEF Namespace, MovingOps
    <3>2. QED
      BY <1>2, <1>3, <2>2, <3>1, StartApart
  <2>3. QED
    BY <2>1, <2>2
<1>8. ASSUME ~due, NEW r \in {p, q}, r \notin unsized PROVE sizes[r] = ServedSize(r)
  <2>1. SizeRight(r)
    BY <1>8 DEF CacheInv
  <2>2. QED
    BY <1>7, <1>8, <2>1 DEF SizeRight
<1>9. MoveRight(call[t])' /\ GotRight(call[t])'
  <2>1. op # "exchange" => dir'[p] = None
    BY <1>5
  <2>2. op # "unlink" => ServedSize(q)' = ServedSize(p)
    BY <1>1, <1>5 DEF ServedSize
  <2>3. op = "exchange" => ServedSize(p)' = ServedSize(q)
    BY <1>1, <1>5 DEF ServedSize
  <2>4. MoveRight(c)'
    BY <1>1, <1>2, <1>3, <1>8, <2>1, <2>2, <2>3 DEF MoveRight
  <2>5. MoveRight(call[t])'
    BY <1>4, <2>4 DEF MoveRight
  <2>6. GotRight(call[t])'
    BY <1>3, <1>4 DEF GotRight, MovingOps
  <2>7. QED
    BY <2>5, <2>6
<1>10. ASSUME NEW r \in {p, q} PROVE PathRight(r)'
  <2>1. Moving(call[t], r)'
    BY <1>3, <1>4 DEF Moving
  <2>2. QED
    BY <2>1 DEF PathRight, SizeRight, BlockRight, SetsSize, SetsBlock
<1>11. ASSUME NEW r \in Paths \ {p, q}
       PROVE  /\ ServedAlike(r) /\ CachedAlike(r)
              /\ ~SetsSize(t, r) /\ \A b : ~SetsBlock(t, r, b)
  <2>1. ServedAlike(r) /\ CachedAlike(r)
    BY <1>1, <1>2, <1>5 DEF ServedAlike, CachedAlike
  <2>2. QED
    BY <1>2, <2>1, NoCallFacts, SetsNothing DEF MovingOps
<1> DEFINE X == {p, q}
<1>12. /\ \A r \in Paths \ X : /\ ServedAlike(r) /\ CachedAlike(r)
                               /\ ~SetsSize(t, r) /\ \A b : ~SetsBlock(t, r, b)
       /\ \A r \in Paths \cap X : ~due => PathRight(r)'
       /\ \A u \in Threads \ {t} : call[u].op \in MovingOps => {call[u].p, call[u].q} \cap X = {}
  BY <1>7, <1>10, <1>11
<1> HIDE DEF X
<1>13. QED
  BY <1>1, <1>2, <1>6, <1>9, <1>12, CacheStep

(* The cached paths are changed as the served ones were. *)
LEMMA ChangeDoneCache ==
    ASSUME HandleInv, CacheInv, NEW t \in Threads, ChangeDone(t)
    PROVE  CacheInv'
<1>0. FilesTypeOK /\ TableInv /\ Shapes
  BY DEF HandleInv, CallInv
<1> DEFINE c == call[t]
<1>1. PICK p, q, op : p = c.p /\ q = c.q /\ op = c.op
  OBVIOUS
<1>2. /\ op \in MovingOps /\ CanRepeat(c)
      /\ \A r \in Paths :
            sizes'[r] = IF op # "unlink" /\ r = q THEN sizes[p]
                        ELSE IF r = p THEN IF op = "exchange" THEN sizes[q] ELSE Absent
                        ELSE sizes[r]
      /\ cached' = [r \in Paths |-> IF r \in Deleted(c) THEN Nothing ELSE cached[r]]
      /\ \A r \in Paths, b \in Blocks :
            /\ op = "rename directory" /\ r \in {p, q} => <<r, b>> \in stale'
            /\ r \notin {p, q} /\ <<r, b>> \in stale => <<r, b>> \in stale'
      /\ c.overtaken => unsized' = unsized \cup {p, q}
      /\ ~c.overtaken => \A r \in unsized :
                            IF op = "unlink" THEN r # p => r \in unsized'
                            ELSE Renamed(op, p, q, r) \in unsized'
      /\ \A h \in Handles : files'[h].path = Renamed(op, p, q, files[h].path)
      /\ Return(t) /\ UNCHANGED <<dir, data, remote, opened, due>>
  <2>1. op \in MovingOps /\ CanRepeat(c) /\ Return(t) /\ UNCHANGED <<dir, data, remote, opened, due>>
    BY <1>1 DEF ChangeDone, serverVars, MovingOps
  <2>2. /\ cached' = [r \in Paths |-> IF r \in Deleted(c) THEN Nothing ELSE cached[r]]
        /\ files' = [h \in Handles |->
                       [files[h] EXCEPT !.path = Renamed(c.op, c.p, c.q, @)]]
    BY DEF ChangeDone
  <2>3. ASSUME NEW r \in Paths
        PROVE  sizes'[r] = IF op # "unlink" /\ r = q THEN sizes[p]
                           ELSE IF r = p THEN IF op = "exchange" THEN sizes[q] ELSE Absent
                           ELSE sizes[r]
    <3>1. sizes'[r] = CASE c.op # "unlink" /\ r = c.q -> sizes[c.p]
                        [] r = c.p -> IF c.op = "exchange" THEN sizes[c.q] ELSE Absent
                        [] OTHER -> sizes[r]
      BY DEF ChangeDone
    <3>2. CASE op # "unlink" /\ r = q /\ r # p
      BY <1>1, <3>1, <3>2
    <3>3. CASE op # "unlink" /\ r = q /\ r = p
      <4>1. op # "unlink" => q # p
        BY <1>0, <1>1, <2>1 DEF Shapes, Shaped
      <4>2. QED
        BY <3>3, <4>1
    <3>4. CASE ~(op # "unlink" /\ r = q)
      BY <1>1, <3>1, <3>4
    <3>5. QED
      BY <3>2, <3>3, <3>4
  <2>4. ASSUME NEW r \in Paths, NEW b \in Blocks
        PROVE  /\ op = "rename directory" /\ r \in {p, q} => <<r, b>> \in stale'
               /\ r \notin {p, q} /\ <<r, b>> \in stale => <<r, b>> \in stale'
    <3>1. stale' = IF c.op = "rename directory" THEN stale \cup ({c.p, c.q} \X Blocks)
                   ELSE {s \in stale : s[1] \notin {c.p, c.q}}
      BY DEF ChangeDone
    <3>2. CASE op = "rename directory"
      <4>1. stale' = stale \cup ({p, q} \X Blocks)
        BY <1>1, <3>1, <3>2
      <4>2. <<r, b>> \in {p, q} \X Blocks <=> r \in {p, q}
        OBVIOUS
      <4>3. QED
        BY <4>1, <4>2, Zenon
    <3>3. CASE op # "rename directory"
      <4>1. stale' = {s \in stale : s[1] \notin {p, q}}
        BY <1>1, <3>1, <3>3
      <4>2. <<r, b>> \in stale /\ r \notin {p, q} => <<r, b>> \in stale'
        BY <4>1
      <4>3. QED
        BY <3>3, <4>2
    <3>4. QED
      BY <3>2, <3>3
  <2>5. /\ c.overtaken => unsized' = unsized \cup {p, q}
        /\ ~c.overtaken => \A r \in unsized :
                            IF op = "unlink" THEN r # p => r \in unsized'
                            ELSE Renamed(op, p, q, r) \in unsized'
    <3>1. unsized' = IF c.overtaken THEN unsized \cup {c.p, c.q}
                     ELSE IF c.op = "unlink" THEN unsized \ {c.p}
                     ELSE {Renamed(c.op, c.p, c.q, r) : r \in unsized}
      BY DEF ChangeDone
    <3>2. CASE c.overtaken
      BY <1>1, <3>1, <3>2
    <3>3. CASE ~c.overtaken /\ op = "unlink"
      BY <1>1, <3>1, <3>3
    <3>4. CASE ~c.overtaken /\ op # "unlink"
      <4>1. unsized' = {Renamed(op, p, q, r) : r \in unsized}
        BY <1>1, <3>1, <3>4
      <4>2. QED
        BY <3>4, <4>1
    <3>5. QED
      BY <3>2, <3>3, <3>4
  <2>6. ASSUME NEW h \in Handles PROVE files'[h].path = Renamed(op, p, q, files[h].path)
    <3>1. files[h] \in [path : Paths \cup {NoPath}, file : Inodes \cup {None}]
      BY <1>0 DEF FilesTypeOK
    <3>2. files'[h] = [files[h] EXCEPT !.path = Renamed(c.op, c.p, c.q, files[h].path)]
      BY <2>2
    <3>3. QED
      BY <1>1, <3>1, <3>2
  <2>7. QED
    BY <2>1, <2>2, <2>3, <2>4, <2>5, <2>6
<1>3. p \in Paths /\ q \in Paths /\ ((op = "unlink") <=> (q = p))
  BY <1>0, <1>1, <1>2 DEF Shapes, Shaped, MovingOps
<1>4. /\ \A r : r \notin {p, q} => Renamed(op, p, q, r) = r
      /\ op # "unlink" => Renamed(op, p, q, p) = q
      /\ op # "exchange" => Renamed(op, p, q, q) = q
      /\ op = "exchange" => Renamed(op, p, q, q) = p
  BY <1>3 DEF Renamed
<1>5. call'[t] = NoCall
  BY <1>0, <1>2 DEF FilesTypeOK, Return
<1>6. ASSUME NEW u \in Threads \ {t}, call[u].op \in MovingOps \cup HandleOps
      PROVE  /\ {p, q} \cap {call[u].p, call[u].q} = {}
             /\ call[u].h # None => files[call[u].h].path \notin {p, q}
  <2>1. call[u] # NoCall
    BY <1>6, NoCallFacts DEF MovingOps, HandleOps
  <2>2. QED
    BY <1>1, <1>2, <2>1, ApartFacts
<1>7. ASSUME NEW u \in Threads \ {t} PROVE Stays(u)
  <2>1. GoesOn(call[u], call'[u])
    BY <1>0, <1>2, OthersGoOn, NoCallFacts DEF Return
  <2>2. ASSUME call[u].op \in HandleOps
        PROVE  files'[call[u].h].path = files[call[u].h].path
    <3>1. call[u].h \in Handles /\ call[u].h # None
      BY <1>0, <2>2, CallParts DEF Shapes, Shaped
    <3>2. Renamed(op, p, q, files[call[u].h].path) = files[call[u].h].path
      BY <1>4, <1>6, <2>2, <3>1
    <3>3. QED
      BY <1>2, <3>1, <3>2
  <2>3. QED
    BY <1>2, <2>1, <2>2 DEF Stays
<1>8. ASSUME NEW r \in Paths \ {p, q}
      PROVE  /\ ServedAlike(r) /\ CachedAlike(r)
             /\ ~SetsSize(t, r) /\ \A b : ~SetsBlock(t, r, b)
  <2>1. sizes'[r] = sizes[r] /\ cached'[r] = cached[r]
    BY <1>1, <1>2 DEF Deleted
  <2>2. r \in unsized => r \in unsized'
    BY <1>2, <1>4
  <2>3. \A b \in Blocks : <<r, b>> \in stale => <<r, b>> \in stale'
    BY <1>2
  <2>4. ~SetsSize(t, r) /\ \A b : ~SetsBlock(t, r, b)
    BY <1>1, <1>2 DEF SetsSize, SetsBlock, Moving, Sizing, Writing, MovingOps
  <2>5. QED
    BY <1>2, <2>1, <2>2, <2>3, <2>4 DEF ServedAlike, CachedAlike
\* The sizes that are moved were those of the files that were moved.
<1>9. ASSUME ~due, NEW r \in {p, q} PROVE SizeRight(r)'
  <2>1. ServedSize(r)' = ServedSize(r)
    BY <1>2 DEF ServedSize
  <2>2. /\ op # "exchange" /\ ~c.overtaken => dir[p] = None
        /\ ~c.overtaken =>
            /\ op # "unlink" /\ p \notin unsized => sizes[p] \in {ServedSize(q), Absent}
            /\ op = "exchange" /\ q \notin unsized => sizes[q] \in {ServedSize(p), Absent}
    BY <1>1, <1>2, <1>9 DEF CacheInv, MoveRight
  <2>3. /\ sizes[p] # Absent
        /\ op = "exchange" => sizes[q] # Absent
    BY <1>1, <1>2 DEF CanRepeat
  <2>4. /\ op # "unlink" => sizes'[q] = sizes[p]
        /\ sizes'[p] = IF op = "exchange" THEN sizes[q] ELSE Absent
    BY <1>2, <1>3
  <2>5. CASE c.overtaken
    BY <1>2, <2>5 DEF SizeRight
  <2>6. CASE ~c.overtaken /\ op # "exchange" /\ r = p
    BY <2>1, <2>2, <2>4, <2>6 DEF SizeRight, ServedSize
  <2>7. CASE ~c.overtaken /\ op # "unlink" /\ r = q
    <3>1. p \in unsized => q \in unsized'
      BY <1>2, <1>4, <2>7
    <3>2. QED
      BY <2>1, <2>2, <2>3, <2>4, <2>7, <3>1 DEF SizeRight
  <2>8. CASE ~c.overtaken /\ op = "exchange" /\ r = p
    <3>1. q \in unsized => p \in unsized'
      BY <1>2, <1>4, <2>8
    <3>2. QED
      BY <2>1, <2>2, <2>3, <2>4, <2>8, <3>1 DEF SizeRight
  <2>9. QED
    BY <1>3, <2>5, <2>6, <2>7, <2>8
<1>10. ASSUME NEW r \in {p, q}, NEW b \in Blocks PROVE BlockRight(r, b)'
  <2>1. CASE op = "rename directory"
    <3>1. <<r, b>> \in stale'
      BY <1>2, <1>3, <2>1
    <3>2. QED
      BY <3>1 DEF BlockRight
  <2>2. CASE op # "rename directory"
    <3>1. cached'[r] = Nothing
      BY <1>1, <1>2, <1>3, <2>2 DEF Deleted
    <3>2. QED
      BY <3>1 DEF BlockRight, Nothing
  <2>3. QED
    BY <2>1, <2>2
<1>11. MoveRight(call[t])' /\ GotRight(call[t])'
  BY <1>5, NoCallFacts DEF MoveRight, GotRight, MovingOps
<1> DEFINE X == {p, q}
<1>12. /\ \A r \in Paths \ X : /\ ServedAlike(r) /\ CachedAlike(r)
                               /\ ~SetsSize(t, r) /\ \A b : ~SetsBlock(t, r, b)
       /\ \A r \in Paths \cap X : ~due => PathRight(r)'
       /\ \A u \in Threads \ {t} : call[u].op \in MovingOps => {call[u].p, call[u].q} \cap X = {}
  BY <1>6, <1>8, <1>9, <1>10 DEF PathRight
<1> HIDE DEF X
<1>13. QED
  BY <1>2, <1>7, <1>11, <1>12, CacheStep

\* The server may open a handle, no other changes.
RemoteGrows == UNCHANGED remote \/ \E file : remote' = [remote EXCEPT ![issued + 1] = file]

\* The calls go on; those on the files Y and on the paths X, which change, are overtaken.
Outdated(X, Y) ==
    /\ \A r \in Paths \ X : ServedAlike(r)
    /\ \A i \in Inodes \ Y : data'[i] = data[i]
    /\ \A u \in Threads :
        /\ GoesOn(call[u], call'[u])
        /\ call[u].op \in MovingOps /\ {call[u].p, call[u].q} \cap X # {} => call'[u].overtaken
        /\ call[u].op \in {"read", "write"} /\ remote[call[u].sub] \in Y => call'[u].overtaken

(* A step of the server that no call tells the cache of. *)
LEMMA DueCache ==
    ASSUME HandleInv, CacheInv, due' = TRUE, UNCHANGED <<opened, files, sizes, unsized>>,
           RemoteGrows, NEW X, NEW Y, Outdated(X, Y)
    PROVE  CacheInv'
<1>0. FilesTypeOK /\ TableInv /\ Shapes
  BY DEF HandleInv, CallInv
<1>1. ASSUME NEW u \in Threads PROVE MoveRight(call[u])' /\ GotRight(call[u])'
  <2>1. Stays(u)
    BY HeldStay DEF Stays, Outdated, RemoteGrows
  <2>2. call[u].op \in MovingOps =>
                \/ \A r \in {call[u].p, call[u].q} : ServedAlike(r) /\ SizeAlike(r)
                \/ call'[u].overtaken
    BY <1>0 DEF SizeAlike, Shapes, Shaped, Outdated
  <2>3. call[u].op \in {"read", "write"} =>
                data'[remote[call[u].sub]] = data[remote[call[u].sub]] \/ call'[u].overtaken
    <3>1. ASSUME call[u].op \in {"read", "write"} PROVE remote[call[u].sub] \in Inodes
      <4>1. call[u].sub # None
        BY <1>0, <3>1 DEF Shapes, Shaped, HandleOps
      <4>2. QED
        BY <1>0, <4>1, CallParts DEF FilesTypeOK, TableInv, Live
    <3>2. QED
      BY <3>1 DEF Outdated
  <2>4. QED
    BY <1>0, <2>1, <2>2, <2>3, CallFrame DEF CacheInv
<1>2. QED
  BY <1>1 DEF CacheInv

(* The content of a file is changed so. *)
LEMMA DueContent ==
    ASSUME HandleInv, CacheInv, due' = TRUE, UNCHANGED <<dir, opened, files, sizes, unsized>>,
           RemoteGrows,
           NEW file, NEW content, data' = [data EXCEPT ![file] = content],
           call' = Overtaken(call, file)
    PROVE  CacheInv'
<1>0. FilesTypeOK /\ TableInv /\ Shapes
  BY DEF HandleInv, CallInv
<1> DEFINE X == PathsTo(file)
           Y == {file}
<1>1. ASSUME NEW r \in Paths \ X PROVE ServedAlike(r)
  BY <1>0, <1>1 DEF ServedAlike, PathsTo, FilesTypeOK
<1>2. \A i \in Inodes \ Y : data'[i] = data[i]
  BY <1>0 DEF FilesTypeOK
<1>3. ASSUME NEW u \in Threads
      PROVE  /\ GoesOn(call[u], call'[u])
             /\ call[u].op \in MovingOps /\ {call[u].p, call[u].q} \cap X # {}
                        => call'[u].overtaken
             /\ call[u].op \in {"read", "write"} /\ remote[call[u].sub] \in Y
                        => call'[u].overtaken
  <2>1. call[u].op \in {"read", "write"} => call[u].sub # None
    BY <1>0 DEF Shapes, Shaped, HandleOps
  <2>2. QED
    BY <1>0, <2>1, OvertakenFacts DEF FilesTypeOK
<1> HIDE DEF X, Y
<1>4. Outdated(X, Y)
  BY <1>1, <1>2, <1>3 DEF Outdated
<1>5. QED
  BY <1>4, DueCache

(* Paths are made or changed so. *)
LEMMA DuePaths ==
    ASSUME HandleInv, CacheInv, due' = TRUE, UNCHANGED <<data, opened, files, sizes, unsized>>,
           RemoteGrows,
           NEW p \in Paths, NEW q \in Paths, \A r \in Paths \ {p, q} : dir'[r] = dir[r],
           call' = Rerouted(p, q)
    PROVE  CacheInv'
<1>0. FilesTypeOK
  BY DEF HandleInv
<1> DEFINE X == {p, q}
           Y == {}
<1>1. \A r \in Paths \ X : ServedAlike(r)
  BY DEF ServedAlike
<1>2. \A i \in Inodes \ Y : data'[i] = data[i]
  OBVIOUS
<1>3. ASSUME NEW u \in Threads
      PROVE  /\ GoesOn(call[u], call'[u])
             /\ call[u].op \in MovingOps /\ {call[u].p, call[u].q} \cap X # {}
                        => call'[u].overtaken
             /\ call[u].op \in {"read", "write"} /\ remote[call[u].sub] \in Y
                        => call'[u].overtaken
  <2>1. /\ GoesOn(call[u], call'[u])
        /\ call[u].op \in Namespace /\ {p, q} \cap {call[u].p, call[u].q} # {}
              => call'[u].overtaken
    BY <1>0, ReroutedFacts DEF FilesTypeOK
  <2>2. QED
    BY <2>1 DEF MovingOps, Namespace
<1> HIDE DEF X, Y
<1>4. Outdated(X, Y)
  BY <1>1, <1>2, <1>3 DEF Outdated
<1>5. QED
  BY <1>4, DueCache

(* Nothing served, cached or doubted is changed, and no handle in use. *)
LEMMA SteadyCache ==
    ASSUME HandleInv, CacheInv, UNCHANGED <<dir, data, cached, sizes, stale, unsized, due>>,
           \A u \in Threads : Stays(u)
    PROVE  CacheInv'
<1>1. \A p : ServedAlike(p) /\ CachedAlike(p) /\ SizeAlike(p)
  BY DEF ServedAlike, CachedAlike, SizeAlike
<1>2. ASSUME NEW p \in Paths, ~due PROVE PathRight(p)'
  <2>1. PathRight(p)
    BY <1>2 DEF CacheInv, PathRight
  <2>2. QED
    BY <1>1, <2>1, PathFrame
<1>3. ASSUME NEW u \in Threads PROVE MoveRight(call[u])' /\ GotRight(call[u])'
  BY <1>1, CallFrame DEF CacheInv, HandleInv, CallInv
<1>4. QED
  BY <1>2, <1>3 DEF CacheInv, PathRight

(* The files and paths are changed on the server, by others or late. *)
LEMMA ServedCache ==
    ASSUME HandleInv, CacheInv, ServerStep
    PROVE  CacheInv'
<1>0. FilesTypeOK /\ TableInv /\ Shapes
  BY DEF HandleInv, CallInv
<1>1. ASSUME NEW p \in Paths, NEW n \in 0..PageSize, Edit(p, n) \/ LateTruncate(p, n)
      PROVE  CacheInv'
  <2>1. /\ due' = TRUE /\ UNCHANGED <<dir, opened, files, sizes, unsized>> /\ RemoteGrows
        /\ call' = Overtaken(call, dir[p])
        /\ \E content : data' = [data EXCEPT ![dir[p]] = content]
    BY <1>1 DEF Edit, LateTruncate, Late, Unnoticed, tableVars, cacheVars, RemoteGrows
  <2>2. QED
    BY <2>1, DueContent
<1>2. ASSUME NEW s \in Handles, NEW b \in Blocks, LateWrite(s, b) PROVE CacheInv'
  <2>1. /\ due' = TRUE /\ UNCHANGED <<dir, opened, files, sizes, unsized>> /\ RemoteGrows
        /\ call' = Overtaken(call, remote[s])
        /\ \E content : data' = [data EXCEPT ![remote[s]] = content]
    BY <1>2 DEF LateWrite, Late, Unnoticed, tableVars, cacheVars, RemoteGrows
  <2>2. QED
    BY <2>1, DueContent
<1>3. ASSUME NEW p \in Paths, NEW trunc \in BOOLEAN, LateOpen(p, trunc) PROVE CacheInv'
  <2>1. /\ due' = TRUE /\ UNCHANGED <<dir, opened, files, sizes, unsized>>
        /\ RemoteGrows
        /\ IF trunc
           THEN data' = [data EXCEPT ![dir[p]] = <<>>] /\ call' = Overtaken(call, dir[p])
           ELSE UNCHANGED <<data, call>>
    BY <1>3 DEF LateOpen, Late, Unnoticed, Opening, tableVars, cacheVars, RemoteGrows
  <2>2. CASE trunc
    <3>1. \E content : data' = [data EXCEPT ![dir[p]] = content]
      BY <2>1, <2>2
    <3>2. QED
      BY <2>1, <2>2, <3>1, DueContent
  <2>3. CASE ~trunc
    <3>1. UNCHANGED <<data, call>> /\ \A r : ServedAlike(r)
      BY <2>1, <2>3 DEF ServedAlike
    <3>2. \A u \in Threads : GoesOn(call[u], call'[u])
      BY <3>1 DEF GoesOn, SameCall
    <3>3. Outdated({}, {})
      BY <3>1, <3>2 DEF Outdated
    <3>4. QED
      BY <2>1, <3>1, <3>3, DueCache
  <2>4. QED
    BY <2>2, <2>3
<1>4. ASSUME NEW p \in Paths, LateCreate(p) PROVE CacheInv'
  <2>1. /\ due' = TRUE /\ UNCHANGED <<data, opened, files, sizes, unsized>>
        /\ RemoteGrows
        /\ call' = Rerouted(p, p) /\ dir' = [dir EXCEPT ![p] = NextFile]
    BY <1>4 DEF LateCreate, Late, Unnoticed, Opening, tableVars, cacheVars, RemoteGrows
  <2>2. \A r \in Paths \ {p, p} : dir'[r] = dir[r]
    BY <1>0, <2>1 DEF FilesTypeOK
  <2>3. QED
    BY <2>1, <2>2, DuePaths
<1>5. ASSUME NEW op \in Namespace \ {"create"}, NEW p \in Paths, NEW q \in Paths,
             LateChange(op, p, q)
      PROVE  CacheInv'
  <2>1. /\ due' = TRUE /\ UNCHANGED <<data, opened, files, sizes, unsized>> /\ RemoteGrows
        /\ call' = Rerouted(p, q) /\ Execute(op, p, q)
    BY <1>5 DEF LateChange, Late, Unnoticed, tableVars, cacheVars, RemoteGrows
  <2>2. \A r \in Paths \ {p, q} : dir'[r] = dir[r]
    BY <2>1 DEF Execute
  <2>3. QED
    BY <2>1, <2>2, DuePaths
<1>6. ASSUME NEW h \in Handles, LateClose(h) PROVE CacheInv'
  <2>1. /\ files[h] = NoFile /\ opened[h].sub # None
        /\ remote' = [remote EXCEPT ![opened[h].sub] = None]
        /\ UNCHANGED <<dir, data, opened, files, cached, sizes, call, stale, unsized, due>>
    BY <1>6 DEF LateClose, tableVars, cacheVars, historyVars
  <2>2. ASSUME NEW u \in Threads PROVE Stays(u)
    <3>1. GoesOn(call[u], call'[u])
      BY <2>1 DEF GoesOn, SameCall
    <3>2. ASSUME call[u].op \in HandleOps PROVE remote'[call[u].sub] = remote[call[u].sub]
      <4>1. call[u].sub \in Handles /\ call[u].h # None
        BY <1>0, <3>2, CallParts DEF Shapes, Shaped
      <4>2. opened[h].sub # call[u].sub
        BY <1>0, <2>1, <4>1 DEF TableInv, OneOwner, InUse
      <4>3. QED
        BY <1>0, <2>1, <4>1, <4>2 DEF FilesTypeOK
    <3>3. QED
      BY <2>1, <3>1, <3>2 DEF Stays
  <2>3. QED
    BY <2>1, <2>2, SteadyCache
<1>7. QED
  BY <1>1, <1>2, <1>3, <1>4, <1>5, <1>6 DEF ServerStep

(* The tree is scanned, and the cache gets it, and what is in files. *)
LEMMA LoadingCache ==
    ASSUME HandleInv, ScanRight, CacheInv, LoadStep
    PROVE  CacheInv'
<1>0. FilesTypeOK /\ TableInv /\ Shapes
  BY DEF HandleInv, CallInv
<1>1. CASE Scan \/ LoadFails \/ LoadEnds
  <2>1. UNCHANGED <<dir, data, remote, opened, files, cached, sizes, call, stale, unsized, due>>
    BY <1>1 DEF Scan, LoadFails, LoadEnds, serverVars, tableVars, cacheVars, historyVars
  <2>2. \A u \in Threads : Stays(u)
    BY <2>1 DEF Stays, GoesOn, SameCall
  <2>3. QED
    BY <2>1, <2>2, SteadyCache
<1>2. CASE Populate
  <2>1. /\ load = "populate" /\ sizes' = scan /\ unsized' = behind
        /\ cached' = [p \in Paths |-> Nothing]
        /\ call' = [t \in Threads |->
                      [call[t] EXCEPT !.overtaken = @ \/ call[t].op = "exchange"]]
        /\ UNCHANGED <<dir, data, remote>>
    BY <1>2 DEF Populate, serverVars
  <2>2. \A p \in Paths : /\ p \in unsized' \/ sizes'[p] = ServedSize(p)'
                         /\ \A b \in Blocks : cached'[p][b] = Unknown
    BY <2>1 DEF ScanRight, ServedSize, Nothing
  <2>3. ASSUME NEW u \in Threads PROVE MoveRight(call[u])' /\ GotRight(call[u])'
    <3> DEFINE v == call[u].overtaken \/ call[u].op = "exchange"
    <3>1. call[u] \in Call /\ v \in BOOLEAN /\ call'[u] = [call[u] EXCEPT !.overtaken = v]
      BY <1>0, <2>1 DEF FilesTypeOK
    <3> HIDE DEF v
    <3>2. SameCall(call'[u], call[u]) /\ call'[u].overtaken = v
      BY <3>1, CallFacts
    <3>3. GotRight(call[u])'
      BY <2>1, <3>2 DEF GotRight, SameCall, CacheInv, v
    <3>4. MoveRight(call[u])'
      <4>1. CASE call[u].op \notin MovingOps
        BY <3>2, <4>1 DEF MoveRight, SameCall
      <4>2. CASE v
        BY <3>2, <4>2 DEF MoveRight, SameCall
      <4>3. CASE call[u].op \in MovingOps /\ ~v
        <5>1. /\ dir[call[u].p] = None /\ call[u].p \in Paths /\ call[u].op # "exchange"
          BY <1>0, <4>3 DEF CacheInv, MoveRight, Shapes, Shaped, v
        <5>2. call[u].p \in unsized' \/ sizes'[call[u].p] = Absent
          BY <2>1, <2>2, <5>1 DEF ServedSize
        <5>3. QED
          BY <2>1, <3>2, <4>3, <5>1, <5>2 DEF MoveRight, SameCall
      <4>4. QED
        BY <4>1, <4>2, <4>3
    <3>5. QED
      BY <3>3, <3>4
  <2>4. QED
    BY <2>2, <2>3 DEF CacheInv, SizeRight, BlockRight
<1>3. ASSUME NEW p \in Paths, Preload(p) PROVE CacheInv'
  <2> DEFINE file == IF dir[p] = None THEN <<>> ELSE data[dir[p]]
             got == [b \in 1..(IF sizes[p] < Len(file) THEN sizes[p] ELSE Len(file)) |-> file[b]]
  <2>1. /\ got # <<>>
        /\ cached' = [cached EXCEPT ![p] = [b \in Blocks |-> IF b \in DOMAIN got THEN got[b]
                                                             ELSE Zeros]]
        /\ stale' = {s \in stale : s[1] # p} \cup ({p} \X (Blocks \ DOMAIN got))
        /\ UNCHANGED <<dir, data, remote, opened, files, sizes, call, unsized, due>>
    BY <1>3 DEF Preload, serverVars, tableVars
  <2>2. /\ dir[p] # None
        /\ \A b \in DOMAIN got : b \in DOMAIN data[dir[p]] /\ got[b] = data[dir[p]][b]
    <3>1. sizes[p] \in Nat
      BY <1>0, NumberFacts DEF FilesTypeOK, Absent
    <3>2. dir[p] # None
      <4>1. SUFFICES ASSUME dir[p] = None PROVE got = <<>>
        BY <2>1
      <4>2. file = <<>> /\ Len(file) = 0
        BY <4>1
      <4>3. (IF sizes[p] < Len(file) THEN sizes[p] ELSE Len(file)) = 0
        BY <3>1, <4>2
      <4>4. got = [b \in 1..0 |-> file[b]]
        BY <4>3
      <4>5. QED
        BY <4>4
    <3>3. data[dir[p]] \in Content
      BY <1>0, <3>2, ServedFacts
    <3>4. DOMAIN data[dir[p]] = 1..Len(data[dir[p]]) /\ Len(data[dir[p]]) \in Nat
      BY <3>3, ContentFacts, NumberFacts
    <3>5. QED
      BY <3>1, <3>2, <3>4
  <2> HIDE DEF file, got
  <2>3. \A u \in Threads : Stays(u)
    BY <2>1 DEF Stays, GoesOn, SameCall
  <2>4. \A r : ServedAlike(r) /\ SizeAlike(r)
    BY <2>1 DEF ServedAlike, SizeAlike
  <2>5. ASSUME NEW r \in Paths, ~due PROVE PathRight(r)'
    <3>1. PathRight(r)
      BY <2>5 DEF CacheInv, PathRight
    <3>2. CASE r # p
      <4>1. cached'[r] = cached[r]
        BY <1>0, <2>1, <3>2 DEF FilesTypeOK
      <4>2. \A b \in Blocks : <<r, b>> \in stale => <<r, b>> \in stale'
        BY <2>1, <3>2
      <4>3. CachedAlike(r)
        BY <2>1, <4>1, <4>2 DEF CachedAlike
      <4>4. QED
        BY <2>3, <2>4, <3>1, <4>3, PathFrame
    <3>3. CASE r = p
      <4>1. SizeRight(p)'
        <5>1. ServedSize(p)' = ServedSize(p) /\ dir'[p] = dir[p]
          BY <2>1 DEF ServedSize
        <5>2. \A u \in Threads : SetsSize(u, p) => SetsSize(u, p)'
          BY <2>3, <5>1, StaysFacts
        <5>3. QED
          BY <2>1, <3>1, <3>3, <5>1, <5>2 DEF PathRight, SizeRight
      <4>2. ASSUME NEW b \in Blocks PROVE BlockRight(p, b)'
        <5>1. CASE b \in DOMAIN got
          <6>1. cached'[p][b] = got[b]
            BY <1>0, <2>1, <5>1 DEF FilesTypeOK
          <6>2. QED
            BY <2>1, <2>2, <5>1, <6>1 DEF BlockRight, Match
        <5>2. CASE b \notin DOMAIN got
          BY <2>1, <5>2 DEF BlockRight
        <5>3. QED
          BY <5>1, <5>2
      <4>3. QED
        BY <3>3, <4>1, <4>2 DEF PathRight
    <3>4. QED
      BY <3>2, <3>3
  <2>6. ASSUME NEW u \in Threads PROVE MoveRight(call[u])' /\ GotRight(call[u])'
    BY <1>0, <2>1, <2>3, <2>4, CallFrame DEF CacheInv
  <2>7. QED
    BY <2>1, <2>5, <2>6 DEF CacheInv, PathRight
<1>4. QED
  BY <1>1, <1>2, <1>3 DEF LoadStep

(* What was scanned of a path is right until the path is changed. *)
LEMMA ScanStays ==
    ASSUME ScanRight, [Next]_vars
    PROVE  ScanRight'
<1> SUFFICES ASSUME load' = "populate", NEW p \in Paths, p \notin behind'
             PROVE  scan'[p] = ServedSize(p)'
  BY DEF ScanRight
<1>1. CASE load = "populate"
  <2>1. ~LoadStep
    BY <1>1 DEF LoadStep, Scan, Populate, LoadFails, Preload, LoadEnds
  <2>2. \/ behind' = behind \cup Changed /\ scan' = scan
        \/ UNCHANGED <<dir, data, scan, behind>>
    BY <1>1, <2>1 DEF Next, vars, serverVars, loadVars
  <2>3. p \notin behind /\ scan' = scan /\ ServedSize(p)' = ServedSize(p)
    BY <2>2 DEF Changed, ServedSize
  <2>4. QED
    BY <1>1, <2>3 DEF ScanRight
<1>2. CASE load # "populate"
  <2>1. Scan
    BY <1>2 DEF Next, LoadStep, Populate, LoadFails, Preload, LoadEnds, vars, loadVars
  <2>2. scan' = [r \in Paths |-> IF dir[r] = None THEN Absent ELSE Len(data[dir[r]])]
        /\ UNCHANGED <<dir, data>>
    BY <2>1 DEF Scan, serverVars
  <2>3. QED
    BY <2>2 DEF ServedSize
<1>3. QED
  BY <1>1, <1>2

(* At first the cache has the size of the file, and nothing of its content. *)
LEMMA InitCache == Init => ScanRight /\ CacheInv
<1> SUFFICES ASSUME Init PROVE ScanRight /\ CacheInv
  OBVIOUS
<1>1. /\ call = [t \in Threads |-> NoCall] /\ cached = [q \in Paths |-> Nothing]
      /\ load = "idle"
  BY DEF Init
<1>2. \A t \in Threads : MoveRight(call[t]) /\ GotRight(call[t])
  BY <1>1, NoCallFacts DEF MoveRight, GotRight, MovingOps
<1>3. PICK p \in Paths, n \in Blocks :
         /\ dir = [q \in Paths |-> IF q = p THEN 1 ELSE None]
         /\ data = [i \in Inodes |-> IF i = 1 THEN [b \in 1..n |-> 1] ELSE <<>>]
         /\ sizes = [q \in Paths |-> IF q = p THEN n ELSE Absent]
  BY DEF Init
<1>4. 1 \in Inodes /\ 1 # None /\ n \in Nat
  BY NumberFacts DEF Inodes, Blocks
<1>5. Len([b \in 1..n |-> 1]) = n
  <2>1. 1 \in Versions
    BY NumberFacts DEF Versions
  <2>2. n \in 0..PageSize /\ [b \in 1..n |-> 1] \in [1..n -> Versions]
    BY <1>4, <2>1, NumberFacts DEF Blocks
  <2>3. QED
    BY <2>2, ContentFacts
<1>6. ASSUME NEW q \in Paths PROVE SizeRight(q)
  BY <1>3, <1>4, <1>5 DEF SizeRight, ServedSize
<1>7. \A q \in Paths, b \in Blocks : BlockRight(q, b)
  BY <1>1 DEF BlockRight, Nothing
<1>8. QED
  BY <1>1, <1>2, <1>6, <1>7 DEF CacheInv, ScanRight

(* Every step keeps the cache right. *)
LEMMA NextCache == HandleInv /\ ScanRight /\ CacheInv /\ [Next]_vars => CacheInv'
<1> SUFFICES ASSUME HandleInv, ScanRight, CacheInv, [Next]_vars PROVE CacheInv'
  OBVIOUS
<1>1. ASSUME NEW t \in Threads, NEW p \in Paths, Create(t, p) PROVE CacheInv'
  BY <1>1, CreatingCache
<1>2. ASSUME NEW t \in Threads,
             \/ \E p \in Paths : OpenLater(t, p)
             \/ \E h \in Handles : ReadOpen(t, h) \/ Read(t, h)
             \/ OpenDone(t) \/ Fetch(t) \/ ReadFails(t)
      PROVE  CacheInv'
  BY <1>2, QuietCache
<1>3. ASSUME NEW t \in Threads, NEW p \in Paths, NEW trunc \in BOOLEAN, OpenNow(t, p, trunc)
      PROVE  CacheInv'
  BY <1>3, OpenNowCache
<1>4. ASSUME NEW t \in Threads, NEW p \in Paths, NEW n \in 0..PageSize, Truncate(t, p, n)
      PROVE  CacheInv'
  BY <1>4, TruncateCache
<1>5. ASSUME NEW t \in Threads, NEW p \in Paths, NEW q \in Paths,
             NEW op \in Namespace \ {"create"}, Change(t, op, p, q)
      PROVE  CacheInv'
  <2>1. op \in MovingOps
    BY DEF Namespace, MovingOps
  <2>2. QED
    BY <1>5, <2>1, ChangeCache
<1>6. ASSUME NEW t \in Threads,
             (\E h \in Handles : Close(t, h) \/ CloseTimesOut(t, h)) \/ CloseDone(t)
      PROVE  CacheInv'
  BY <1>6, ClosingCache
<1>7. ASSUME NEW t \in Threads, NEW h \in Handles, NEW b \in Blocks,
             NEW at \in 0..PageSize, Write(t, h, b, at)
      PROVE  CacheInv'
  <2>1. at \in Blocks \/ at = None
    BY NumberFacts DEF Blocks
  <2>2. QED
    BY <1>7, <2>1, WriteCache, NoWriteCache
<1>8. ASSUME NEW t \in Threads,
             \/ CreateDone(t) \/ OpenFails(t) \/ TruncateDone(t)
             \/ WriteFails(t) \/ ChangeFails(t)
      PROVE  CacheInv'
  BY <1>8, SizingCache, FailingCache
<1>9. ASSUME NEW t \in Threads, ReadDone(t) \/ WriteDone(t) \/ ChangeDone(t)
      PROVE  CacheInv'
  BY <1>9, ReadDoneCache, WriteDoneCache, ChangeDoneCache
<1>10. CASE ServerStep \/ LoadStep
  BY <1>10, ServedCache, LoadingCache
<1>11. CASE UNCHANGED vars
  <2>1. UNCHANGED <<dir, data, remote, opened, files, cached, sizes, call, stale, unsized, due>>
    BY <1>11 DEF vars, serverVars, tableVars, cacheVars, historyVars
  <2>2. \A u \in Threads : Stays(u)
    BY <2>1 DEF Stays, GoesOn, SameCall
  <2>3. QED
    BY <2>1, <2>2, SteadyCache
<1>12. CASE CallStep
  BY <1>1, <1>2, <1>3, <1>4, <1>5, <1>6, <1>7, <1>8, <1>9, <1>12 DEF CallStep
<1>13. QED
  BY <1>10, <1>11, <1>12 DEF Next

(* The cache of a path that no call will change any more is about to be set by none. *)
LEMMA SettledFacts ==
    ASSUME HandleInv, NEW p \in Paths, Settled(p)
    PROVE  \A t \in Threads : ~SetsSize(t, p) /\ \A b : ~SetsBlock(t, p, b)
<1> SUFFICES ASSUME NEW t \in Threads
             PROVE  ~Moving(call[t], p) /\ ~Sizing(call[t], p) /\ ~Writing(call[t], p)
  BY DEF SetsSize, SetsBlock
<1>1. Shaped(call[t]) /\ (call[t] = NoCall \/ p \notin PathsOf(call[t]))
  BY DEF HandleInv, CallInv, Shapes, Settled
<1>2. p # NoPath
  BY NumberFacts
<1>3. ASSUME Moving(call[t], p) \/ Sizing(call[t], p) PROVE FALSE
  <2>1. call[t].op \in MovingOps \cup {"create", "truncate"} /\ p \in {call[t].p, call[t].q}
    BY <1>3 DEF Moving, Sizing
  <2>2. call[t] # NoCall /\ call[t].h = None
    BY <1>1, <2>1, NoCallFacts DEF Shaped, MovingOps, OpeningOps
  <2>3. QED
    BY <1>1, <1>2, <2>1, <2>2 DEF PathsOf
<1>4. ASSUME Writing(call[t], p) PROVE FALSE
  <2>1. call[t].op = "write" /\ files[call[t].h].path = p
    BY <1>4 DEF Writing
  <2>2. call[t] # NoCall /\ call[t].h # None
    BY <1>1, <2>1, NoCallFacts DEF Shaped, HandleOps
  <2>3. QED
    BY <1>1, <2>1, <2>2 DEF PathsOf
<1>5. QED
  BY <1>3, <1>4

-----------------------------------------------------------------------------

(* The cache is always right, but for what a call under way will set, and what is doubted; *)
(* so is what a load was sent, but for what was changed since. *)
THEOREM CacheInvariance == Spec => [](HandleInv /\ ScanRight /\ CacheInv)
<1>1. Init => ScanRight /\ CacheInv
  BY InitCache
<1>2. HandleInv /\ ScanRight /\ CacheInv /\ [Next]_vars => (ScanRight /\ CacheInv)'
  BY ScanStays, NextCache
<1>3. QED
  BY <1>1, <1>2, HandlesInvariance, PTL DEF Spec

(* The cached size of a path that no call is about to change is the size of the served *)
(* file, whatever calls and loads came before, unless it is one of the doubted sizes. *)
THEOREM SizeServed == Spec => []SizeIsServed
<1>1. HandleInv /\ CacheInv => SizeIsServed
  <2> SUFFICES ASSUME HandleInv, CacheInv, NEW p \in Paths, Settled(p), p \notin unsized, ~due
               PROVE  sizes[p] = IF dir[p] = None THEN Absent ELSE Len(data[dir[p]])
    BY DEF SizeIsServed
  <2>1. SizeRight(p)
    BY DEF CacheInv
  <2>2. QED
    BY <2>1, SettledFacts DEF SizeRight, ServedSize
<1>2. QED
  BY <1>1, CacheInvariance, PTL

(* A cached block of a path that no call is about to change is the served one, unless it *)
(* is one of the doubted blocks: a call that has returned is seen by all threads. *)
THEOREM CacheServed == Spec => []CachedIsServed
<1>1. HandleInv /\ CacheInv => CachedIsServed
  <2> SUFFICES ASSUME HandleInv, CacheInv, NEW p \in Paths, NEW b \in Blocks,
                      cached[p][b] # Unknown, <<p, b>> \notin stale, Settled(p), ~due
               PROVE  /\ dir[p] # None
                      /\ b <= Len(data[dir[p]]) => cached[p][b] = data[dir[p]][b]
    BY DEF CachedIsServed
  <2>1. BlockRight(p, b)
    BY DEF CacheInv
  <2>2. QED
    BY <2>1, SettledFacts DEF BlockRight, Match
<1>2. QED
  BY <1>1, CacheInvariance, PTL
=============================================================================
