------------------------- MODULE ServerFilesProofs -------------------------
(***************************************************************************)
(* Proofs about ServerFiles, for any number of worker threads, handles,    *)
(* reads and writes, and restarts of the server, whatever the client gives *)
(* up and whatever system call fails.                                      *)
(***************************************************************************)
EXTENDS ServerFiles, Naturals, SequencesExt, SequenceTheorems, TLAPS

-----------------------------------------------------------------------------
(* Sequences.                                                              *)

(* Appending adds one element. *)
LEMMA AppendFacts ==
    ASSUME NEW S, NEW s \in Seq(S), NEW e \in S
    PROVE  /\ Append(s, e) \in Seq(S)
           /\ Append(s, e) # <<>>
           /\ ToSet(Append(s, e)) = ToSet(s) \cup {e}
           /\ IsInjective(s) /\ e \notin ToSet(s) => IsInjective(Append(s, e))
<1>1. /\ Append(s, e) \in Seq(S)
      /\ Len(Append(s, e)) = Len(s) + 1
      /\ \A k \in 1..Len(s) : Append(s, e)[k] = s[k]
      /\ Append(s, e)[Len(s) + 1] = e
  OBVIOUS
<1>2. ToSet(Append(s, e)) = ToSet(s) \cup {e}
  BY <1>1 DEF ToSet
<1>3. ASSUME IsInjective(s), e \notin ToSet(s) PROVE IsInjective(Append(s, e))
  BY <1>1, <1>3 DEF ToSet, IsInjective
<1>4. Append(s, e) # <<>>
  BY <1>1, Len(<<>>) = 0
<1>5. QED
  BY <1>1, <1>2, <1>3, <1>4

(* Popping the first element removes it and nothing else. *)
LEMMA TailFacts ==
    ASSUME NEW S, NEW s \in Seq(S), s # <<>>
    PROVE  /\ Head(s) \in S
           /\ Head(s) \in ToSet(s)
           /\ Tail(s) \in Seq(S)
           /\ Len(s) = 1 <=> Tail(s) = <<>>
           /\ ToSet(Tail(s)) \subseteq ToSet(s)
           /\ IsInjective(s) => /\ IsInjective(Tail(s))
                                /\ Head(s) \notin ToSet(Tail(s))
<1>1. /\ Head(s) = s[1]
      /\ Len(s) \in Nat \ {0}
      /\ Tail(s) \in Seq(S)
      /\ Len(Tail(s)) = Len(s) - 1
      /\ \A k \in 1..(Len(s) - 1) : Tail(s)[k] = s[k + 1]
  OBVIOUS
<1>2. /\ Head(s) \in S
      /\ Head(s) \in ToSet(s)
      /\ ToSet(Tail(s)) \subseteq ToSet(s)
  BY <1>1 DEF ToSet
<1>3. ASSUME IsInjective(s)
      PROVE  IsInjective(Tail(s)) /\ Head(s) \notin ToSet(Tail(s))
  BY <1>1, <1>3 DEF ToSet, IsInjective
<1>4. Len(s) = 1 <=> Tail(s) = <<>>
  <2> DEFINE t == Tail(s)
  <2>1. t \in Seq(S) /\ Len(t) = Len(s) - 1 /\ Len(s) \in Nat
    BY <1>1
  <2> HIDE DEF t
  <2>2. Len(s) = 1 <=> t = <<>>
    BY <2>1, EmptySeq
  <2>3. QED
    BY <2>2 DEF t
<1>5. QED
  BY <1>1, <1>2, <1>3, <1>4

(* Popping the first element removes no other. *)
LEMMA HeadOrTail ==
    ASSUME NEW S, NEW s \in Seq(S), s # <<>>
    PROVE  ToSet(s) = {Head(s)} \cup ToSet(Tail(s))
<1> DEFINE t == Tail(s)
<1>1. /\ Head(s) = s[1] /\ Head(s) \in ToSet(s)
      /\ t \in Seq(S) /\ Len(t) = Len(s) - 1
      /\ ToSet(t) \subseteq ToSet(s)
      /\ Len(s) \in Nat \ {0}
      /\ \A k \in 1..(Len(s) - 1) : t[k] = s[k + 1]
  BY TailFacts
<1> HIDE DEF t
<1>2. DOMAIN s = 1..Len(s) /\ DOMAIN t = 1..Len(t)
  BY <1>1
<1>3. ASSUME NEW k \in 1..Len(s), k # 1 PROVE s[k] \in ToSet(t)
  <2>1. k - 1 \in DOMAIN t /\ s[k] = t[k - 1]
    BY <1>1, <1>2, <1>3
  <2>2. QED
    BY <2>1 DEF ToSet
<1>4. \A x \in ToSet(s) : \E k \in 1..Len(s) : x = s[k]
  BY <1>2 DEF ToSet
<1>5. ToSet(s) \subseteq {Head(s)} \cup ToSet(t)
  BY <1>1, <1>3, <1>4
<1>6. QED
  BY <1>1, <1>5 DEF t

-----------------------------------------------------------------------------
(* The inductive invariant, first part: what the client and the queue of   *)
(* requests let the threads have in hand.                                  *)

NotBusy == {"idle", "sleep", "blocked", "ended"}
Busy(t) == pc[t] \notin NotBusy

\* The command is in the queue or a thread executes it.
Live(r) == r \in ToSet(requests) \/ \E t \in Threads : Busy(t) /\ req[t] = r

OpenOf(h) == [op |-> "open", fh |-> h, k |-> 0]
CloseOf(h) == [op |-> "close", fh |-> h, k |-> 0]

\* No command is in two places.
OnePlace ==
    /\ IsInjective(requests)
    /\ \A t \in Threads : Busy(t) => req[t] \notin ToSet(requests)
    /\ \A t, u \in Threads : t # u /\ Busy(t) /\ Busy(u) => req[t] # req[u]

\* While a handle is opened no other command of it is under way.
OpenAlone ==
    \A q, r \in Requests :
        q.op = "open" /\ q.fh = r.fh /\ Live(q) /\ Live(r) => q = r

\* What is under way was sent by the client.
LiveSent ==
    \A r \in Requests : Live(r) =>
        /\ r.op = "open" => client[r.fh] \in {"opening", "done"}
        /\ r.op = "close" => client[r.fh] \in {"closing", "done"}
        /\ r.op = "io" => client[r.fh] \notin {"new", "opening"} /\ r.k <= issued

\* No read and no write is awaited when a handle is closed.
AwaitedSent ==
    \A r \in awaited :
        /\ r.op = "open" => client[r.fh] = "opening"
        /\ r.op = "close" => client[r.fh] = "closing"
        /\ r.op = "io" => client[r.fh] = "open"

LiveAwaited == \A r \in Requests : Live(r) => r \in awaited \/ r.fh \in left

ClientInv == OnePlace /\ OpenAlone /\ LiveSent /\ AwaitedSent /\ LiveAwaited

-----------------------------------------------------------------------------
(* Second part: the table, the descriptors and the threads.                *)

StepOfOp ==
    \A t \in Threads :
        /\ pc[t] \in {"open", "register", "verify"} => req[t].op = "open"
        /\ pc[t] \in {"seek", "transfer"} => req[t].op = "io"
        /\ pc[t] \in {"close", "unlock", "erase"} => req[t].op = "close"

NotYetOpened(h) ==
    \/ client[h] = "new"
    \/ OpenOf(h) \in ToSet(requests)
    \/ \E t \in Threads : pc[t] = "open" /\ req[t].fh = h

\* A handle is in the table after it was opened.
Unopened ==
    \A h \in Handles : NotYetOpened(h) => opened[h] = Absent /\ \A f \in FDs : fds[f] # h

\* process_open: what the thread that opens a handle knows.
OpenSteps ==
    \A t \in Threads :
        /\ pc[t] = "register" => /\ opened[req[t].fh] = Absent
                                 /\ fd[t] \in FDs
                                 /\ fds[fd[t]] = req[t].fh
        /\ pc[t] \in {"lookup", "lockfile", "verify"} /\ req[t].op = "open"
               => /\ opened[req[t].fh] \in FDs
                  /\ fds[opened[req[t].fh]] = req[t].fh

\* Every descriptor is in the table, or about to be.
Tabled ==
    \A f \in FDs :
        fds[f] # Free => \/ opened[fds[f]] = f
                         \/ \E t \in Threads : /\ pc[t] = "register"
                                               /\ req[t].fh = fds[f] /\ fd[t] = f

\* An entry whose descriptor is closed, or is of another file, belongs to a handle
\* whose close command has got that far.
Stale ==
    \A h \in Handles :
        opened[h] # Absent /\ fds[opened[h]] # h =>
            /\ client[h] \in {"closing", "done", "failed"}
            /\ CloseOf(h) \notin ToSet(requests)
            /\ \A t \in Threads : Busy(t) /\ req[t] = CloseOf(h) => pc[t] \in {"unlock", "erase"}

\* What a thread took from the table is still there, except under a read or write
\* that was given up.
Held ==
    \A t \in Threads :
        /\ pc[t] \in {"lockfile", "transfer", "verify"} => fd[t] \in FDs
        /\ /\ pc[t] \in {"lockfile", "verify", "seek", "transfer", "close"}
           /\ fd[t] # NoFd
           /\ req[t].op = "io" => req[t] \in awaited
           => fd[t] = opened[req[t].fh]
        /\ pc[t] = "close" /\ fd[t] = NoFd => opened[req[t].fh] = Absent

\* A valid FileRef holds the mutex of its File.
Locked ==
    \A t \in Threads :
        pc[t] \in {"seek", "transfer", "close"} /\ fd[t] # NoFd
            => fileLock[req[t].fh] = t

\* close() leaves no descriptor of its handle...
ClosedFd ==
    \A t \in Threads :
        pc[t] \in {"unlock", "erase"} => \A f \in FDs : fds[f] # req[t].fh

\* ...and none is opened afterwards.
Finished ==
    \A h \in Handles \ left :
        client[h] \in {"done", "failed"} =>
            /\ \A f \in FDs : fds[f] # h
            /\ client[h] = "done" => opened[h] = Absent

\* Before the first restart: the server knows the handles the client uses.
Known ==
    restarts = 0 =>
        /\ \A h \in Handles : client[h] = "open" \/ Live(CloseOf(h)) => opened[h] # Absent
        /\ \A t \in Threads :
              /\ pc[t] = "seek" /\ req[t] \in awaited => fd[t] # NoFd
              /\ pc[t] = "close" => fd[t] # NoFd
              /\ pc[t] = "unlock" => fileLock[req[t].fh] = t

TableInv ==
    /\ StepOfOp /\ Unopened /\ OpenSteps /\ Tabled /\ Stale
    /\ Held /\ Locked /\ ClosedFd /\ Finished /\ Known

\* No exception leaves a thread before the first restart.
NoCrash == restarts = 0 => AlwaysUp

IInv == TypeOK /\ ClientInv /\ TableInv /\ NoCrash

-----------------------------------------------------------------------------
(* Facts about commands.                                                   *)

(* A command is to open or close a handle, or the k-th read or write of one. *)
LEMMA RequestFacts ==
    /\ \A r \in Requests :
          /\ r.op \in {"open", "io", "close"} /\ r.fh \in Handles /\ r.k \in Nat
          /\ r.op = "open" => r = OpenOf(r.fh) /\ r.k = 0
          /\ r.op = "close" => r = CloseOf(r.fh) /\ r.k = 0
          /\ r.op = "io" => r.k # 0
    /\ \A h \in Handles :
          /\ OpenOf(h) \in Requests /\ OpenOf(h).op = "open" /\ OpenOf(h).fh = h
          /\ CloseOf(h) \in Requests /\ CloseOf(h).op = "close" /\ CloseOf(h).fh = h
    /\ NoRequest \in Requests
  BY ConstantsAssumption DEF Requests, OpenOf, CloseOf, NoRequest, Handles

(* What the type says of commands, handles and descriptors. *)
LEMMA TypeFacts ==
    ASSUME TypeOK
    PROVE  /\ ToSet(requests) \subseteq Requests
           /\ \A t \in Threads : req[t] \in Requests /\ req[t].fh \in Handles
           /\ NoFd \notin FDs /\ Absent \notin FDs /\ Free \notin Handles
           /\ \A r \in Requests : Live(r) <=>
                 r \in ToSet(requests) \/ \E t \in Threads : Busy(t) /\ req[t] = r
  BY RequestFacts, ConstantsAssumption DEF TypeOK, ToSet, FDs, NoFd, Absent, Free, Handles, Live

-----------------------------------------------------------------------------
(* The first part is preserved.                                            *)

\* A step that gives no thread a command and takes none from it.
SameWork ==
    /\ UNCHANGED <<requests, req>>
    /\ \A t \in Threads : Busy(t)' <=> Busy(t)

(* A step within a command changes nothing of what is under way. *)
LEMMA SameWorkClient == ASSUME ClientInv, SameWork, UNCHANGED clientVars PROVE ClientInv'
<1> USE DEF SameWork, clientVars
<1>1. \A r : Live(r)' <=> Live(r)
  BY DEF Live
<1>2. OnePlace' /\ OpenAlone'
  BY <1>1 DEF ClientInv, OnePlace, OpenAlone
<1>3. LiveSent' /\ AwaitedSent' /\ LiveAwaited'
  BY <1>1 DEF ClientInv, LiveSent, AwaitedSent, LiveAwaited
<1>4. QED
  BY <1>2, <1>3 DEF ClientInv

(* A thread that is woken has no command yet. *)
LEMMA PushFacts ==
    ASSUME TypeOK, NEW r \in Requests, Push(r)
    PROVE  /\ requests' = Append(requests, r)
           /\ pc' \in [Threads -> PCs]
           /\ \A t \in Threads : pc'[t] = pc[t] \/ (pc[t] = "blocked" /\ pc'[t] = "idle")
           /\ \A t \in Threads : Busy(t)' <=> Busy(t)
  BY DEF Push, Goto, Busy, NotBusy, TypeOK, PCs

(* A command that is sent when its handle allows it keeps the order of the client. *)
LEMMA IssueClient ==
    ASSUME TypeOK, ClientInv, NEW r \in Requests, ~Live(r), Issue(r),
           r.op = "open" => \A q \in Requests : q.fh = r.fh => ~Live(q) /\ q \notin awaited,
           r.op # "open" => ~Live(OpenOf(r.fh)),
           r.op = "close" => \A q \in awaited : q.fh # r.fh,
           /\ r.op = "open" => client[r.fh] = "new" /\ client'[r.fh] = "opening"
           /\ r.op = "close" => client[r.fh] = "open" /\ client'[r.fh] = "closing"
           /\ r.op = "io" => client[r.fh] = "open" /\ client'[r.fh] = "open" /\ r.k <= issued',
           \A h \in Handles \ {r.fh} : client'[h] = client[h],
           issued' \in Nat, issued <= issued', UNCHANGED left
    PROVE  ClientInv'
<1>1. /\ requests' = Append(requests, r) /\ awaited' = awaited \cup {r}
      /\ UNCHANGED req
      /\ \A t \in Threads : Busy(t)' <=> Busy(t)
  BY PushFacts DEF Issue
<1>2. /\ ToSet(requests') = ToSet(requests) \cup {r}
      /\ r \notin ToSet(requests) /\ IsInjective(requests')
  BY <1>1, AppendFacts DEF TypeOK, Live, ClientInv, OnePlace
<1>3. \A q : Live(q)' <=> Live(q) \/ q = r
  BY <1>1, <1>2 DEF Live
<1>4. OnePlace'
  BY <1>1, <1>2 DEF ClientInv, OnePlace, Live
<1>5. OpenAlone'
  <2> SUFFICES ASSUME NEW q \in Requests, NEW p \in Requests, q.op = "open", q.fh = p.fh,
                      Live(q)', Live(p)'
               PROVE  q = p
    BY DEF OpenAlone
  <2>1. CASE q = r
    BY <2>1, <1>3
  <2>2. CASE q # r /\ p = r
    BY <2>2, <1>3, RequestFacts
  <2>3. CASE q # r /\ p # r
    BY <2>3, <1>3 DEF ClientInv, OpenAlone
  <2>4. QED
    BY <2>1, <2>2, <2>3
<1>6. LiveSent'
  <2> SUFFICES ASSUME NEW q \in Requests, Live(q)'
               PROVE  /\ q.op = "open" => client'[q.fh] \in {"opening", "done"}
                      /\ q.op = "close" => client'[q.fh] \in {"closing", "done"}
                      /\ q.op = "io" => client'[q.fh] \notin {"new", "opening"} /\ q.k <= issued'
    BY DEF LiveSent
  <2>1. CASE q = r
    BY <2>1
  <2>2. CASE q # r
    <3>1. Live(q) /\ q.k \in Nat /\ issued \in Nat /\ q.fh \in Handles
      BY <2>2, <1>3, RequestFacts, ConstantsAssumption DEF TypeOK
    <3>2. /\ q.op = "open" => client[q.fh] \in {"opening", "done"}
          /\ q.op = "close" => client[q.fh] \in {"closing", "done"}
          /\ q.op = "io" => client[q.fh] \notin {"new", "opening"} /\ q.k <= issued
      BY <3>1 DEF ClientInv, LiveSent
    <3>3. q.fh # r.fh => client'[q.fh] = client[q.fh]
      BY <3>1
    <3>4. q.k <= issued => q.k <= issued'
      BY <3>1
    <3>5. r.op \in {"open", "io", "close"}
      BY RequestFacts
    <3>6. CASE q.fh = r.fh
      BY <3>1, <3>2, <3>4, <3>5, <3>6
    <3>7. QED
      BY <3>2, <3>3, <3>4, <3>6
  <2>3. QED
    BY <2>1, <2>2
<1>7. AwaitedSent'
  <2> SUFFICES ASSUME NEW q \in awaited, q # r
               PROVE  /\ q.op = "open" => client'[q.fh] = "opening"
                      /\ q.op = "close" => client'[q.fh] = "closing"
                      /\ q.op = "io" => client'[q.fh] = "open"
    BY <1>1 DEF AwaitedSent
  <2>1. q \in Requests /\ q.fh \in Handles /\ r.op \in {"open", "io", "close"}
    BY RequestFacts DEF TypeOK
  <2>2. /\ q.op = "open" => client[q.fh] = "opening"
        /\ q.op = "close" => client[q.fh] = "closing"
        /\ q.op = "io" => client[q.fh] = "open"
    BY DEF ClientInv, AwaitedSent
  <2>3. CASE q.fh = r.fh
    BY <2>1, <2>2, <2>3
  <2>4. QED
    BY <2>1, <2>2, <2>3
<1>8. LiveAwaited'
  BY <1>1, <1>3 DEF ClientInv, LiveAwaited
<1>9. QED
  BY <1>4, <1>5, <1>6, <1>7, <1>8 DEF ClientInv

(* The client opens a handle that is new. *)
LEMMA OpenClient == ASSUME TypeOK, ClientInv, NEW h \in Handles, Open(h) PROVE ClientInv'
<1> DEFINE r == OpenOf(h)
<1>1. /\ client[h] = "new" /\ client' = [client EXCEPT ![h] = "opening"]
      /\ Issue(r) /\ UNCHANGED <<issued, left>>
  BY DEF Open, OpenOf
<1>2. r \in Requests /\ r.op = "open" /\ r.fh = h
  BY RequestFacts
<1> HIDE DEF r
<1>3. \A q \in Requests : q.fh = r.fh => ~Live(q) /\ q \notin awaited
  BY <1>1, <1>2, RequestFacts DEF ClientInv, LiveSent, AwaitedSent
<1>4. /\ client'[h] = "opening" /\ \A g \in Handles \ {r.fh} : client'[g] = client[g]
      /\ issued' \in Nat /\ issued <= issued'
  BY <1>1, <1>2, ConstantsAssumption DEF TypeOK
<1>5. QED
  BY <1>1, <1>2, <1>3, <1>4, IssueClient

(* The client reads or writes through a handle that is open. *)
LEMMA ReadOrWriteClient ==
    ASSUME TypeOK, ClientInv, NEW h \in Handles, ReadOrWrite(h) PROVE ClientInv'
<1> DEFINE r == [op |-> "io", fh |-> h, k |-> issued']
<1>1. /\ client[h] = "open" /\ issued < MaxIO /\ issued' = issued + 1
      /\ Issue(r) /\ UNCHANGED <<client, left>>
  BY DEF ReadOrWrite
<1>2. /\ r \in Requests /\ r.op = "io" /\ r.fh = h /\ r.k = issued + 1
      /\ issued \in Nat
  BY <1>1, ConstantsAssumption DEF TypeOK, Requests
<1> HIDE DEF r
<1>3. ~Live(r)
  BY <1>2 DEF ClientInv, LiveSent
<1>4. ~Live(OpenOf(h))
  BY <1>1, RequestFacts DEF ClientInv, LiveSent
<1>5. QED
  BY <1>1, <1>2, <1>3, <1>4, IssueClient

(* The client closes a handle of which nothing is awaited. *)
LEMMA CloseClient == ASSUME TypeOK, ClientInv, NEW h \in Handles, Close(h) PROVE ClientInv'
<1> DEFINE r == CloseOf(h)
<1>1. /\ client[h] = "open" /\ client' = [client EXCEPT ![h] = "closing"]
      /\ \A q \in awaited : q.fh # h
      /\ Issue(r) /\ UNCHANGED <<issued, left>>
  BY DEF Close, CloseOf
<1>2. r \in Requests /\ r.op = "close" /\ r.fh = h
  BY RequestFacts
<1> HIDE DEF r
<1>3. ~Live(r) /\ ~Live(OpenOf(h))
  BY <1>1, <1>2, RequestFacts DEF ClientInv, LiveSent
<1>4. /\ client'[h] = "closing" /\ \A g \in Handles \ {r.fh} : client'[g] = client[g]
      /\ issued' \in Nat /\ issued <= issued'
  BY <1>1, <1>2, ConstantsAssumption DEF TypeOK
<1>5. QED
  BY <1>1, <1>2, <1>3, <1>4, IssueClient

(* A command given up stays under way, and its handle is marked. *)
LEMMA AbandonClient ==
    ASSUME TypeOK, ClientInv, NEW r \in awaited, Abandon(r) PROVE ClientInv'
<1>1. /\ awaited' = awaited \ {r} /\ left' = left \cup {r.fh}
      /\ client' = [client EXCEPT ![r.fh] = IF r.k = 0 THEN "done" ELSE client[r.fh]]
      /\ UNCHANGED <<issued, requests, pc, req>>
  BY DEF Abandon, serverVars
<1>2. r \in Requests /\ r.fh \in Handles /\ (r.k = 0 <=> r.op # "io")
  BY RequestFacts DEF TypeOK
<1>3. /\ \A q : Live(q)' <=> Live(q)
      /\ \A t : Busy(t)' <=> Busy(t)
  BY <1>1 DEF Live, Busy
<1>4. /\ r.op = "io" => client'[r.fh] = client[r.fh]
      /\ r.op # "io" => client'[r.fh] = "done" /\ client[r.fh] \in {"opening", "closing"}
      /\ \A h \in Handles \ {r.fh} : client'[h] = client[h]
  BY <1>1, <1>2, RequestFacts DEF TypeOK, ClientInv, AwaitedSent
<1>5. OnePlace' /\ OpenAlone'
  BY <1>1, <1>3 DEF ClientInv, OnePlace, OpenAlone
<1>6. LiveSent'
  BY <1>1, <1>2, <1>3, <1>4, RequestFacts DEF ClientInv, LiveSent
<1>7. AwaitedSent'
  <2> SUFFICES ASSUME NEW q \in awaited, q # r
               PROVE  /\ q.op = "open" => client'[q.fh] = "opening"
                      /\ q.op = "close" => client'[q.fh] = "closing"
                      /\ q.op = "io" => client'[q.fh] = "open"
    BY <1>1 DEF AwaitedSent
  <2>1. q \in Requests
    BY DEF TypeOK
  <2>2. /\ q.op = "open" => client[q.fh] = "opening"
        /\ q.op = "close" => client[q.fh] = "closing"
        /\ q.op = "io" => client[q.fh] = "open"
        /\ r.op = "open" => client[r.fh] = "opening"
        /\ r.op = "close" => client[r.fh] = "closing"
    BY DEF ClientInv, AwaitedSent
  <2>3. r.op # "io" => q.fh # r.fh
    BY <2>1, <2>2, <1>2, RequestFacts
  <2>4. QED
    BY <2>1, <2>2, <2>3, <1>2, <1>4, RequestFacts
<1>8. LiveAwaited'
  BY <1>1, <1>3 DEF ClientInv, LiveAwaited
<1>9. QED
  BY <1>5, <1>6, <1>7, <1>8 DEF ClientInv

(* A command leaves the queue for a thread. *)
LEMMA DispatchClient ==
    ASSUME TypeOK, ClientInv, NEW t \in Threads, Dispatch(t) PROVE ClientInv'
<1> DEFINE r == Head(requests)
<1>1. /\ ~Busy(t) /\ requests # <<>>
      /\ requests' = Tail(requests) /\ req' = [req EXCEPT ![t] = r]
      /\ pc' = [pc EXCEPT ![t] = IF r.op = "open" THEN "open" ELSE "lookup"]
      /\ UNCHANGED clientVars
  BY DEF Dispatch, Goto, Busy, NotBusy
<1>2. /\ r \in Requests /\ r \in ToSet(requests) /\ IsInjective(Tail(requests))
      /\ r \notin ToSet(Tail(requests))
      /\ ToSet(requests) = {r} \cup ToSet(Tail(requests))
  BY <1>1, TailFacts, HeadOrTail DEF TypeOK, ClientInv, OnePlace
<1> HIDE DEF r
<1>3. /\ req'[t] = r /\ Busy(t)'
      /\ \A u \in Threads \ {t} : req'[u] = req[u] /\ (Busy(u)' <=> Busy(u))
  BY <1>1 DEF TypeOK, Busy, NotBusy
<1>4. \A q : Live(q)' <=> Live(q)
  BY <1>1, <1>2, <1>3 DEF Live
<1>5. OnePlace'
  BY <1>1, <1>2, <1>3 DEF ClientInv, OnePlace
<1>6. OpenAlone' /\ LiveSent' /\ AwaitedSent' /\ LiveAwaited'
  BY <1>1, <1>4 DEF ClientInv, OpenAlone, LiveSent, AwaitedSent, LiveAwaited, clientVars
<1>7. QED
  BY <1>5, <1>6 DEF ClientInv

(* A thread replies: its command is no longer under way. *)
LEMMA FinishFacts ==
    ASSUME TypeOK, ClientInv, NEW t \in Threads, Busy(t), NEW reply \in Reply,
           Finish(t, reply), UNCHANGED requests,
           NEW r, r = req[t]
    PROVE  /\ r \in Requests /\ r.fh \in Handles /\ (r.k = 0 <=> r.op # "io") /\ Live(r)
           /\ pc'[t] = "idle" /\ ~Busy(t)' /\ awaited' = awaited \ {r}
           /\ \A u \in Threads \ {t} :
                 /\ pc'[u] = pc[u] /\ req'[u] = req[u] /\ fd'[u] = fd[u]
                 /\ Busy(u)' <=> Busy(u)
                 /\ Busy(u) => req[u] # r
                 /\ Busy(u) /\ "open" \in {req[u].op, r.op} => req[u].fh # r.fh
           /\ \A q : Live(q)' <=> Live(q) /\ q # r
           /\ \A h \in Handles \ {r.fh} : client'[h] = client[h]
           /\ r \notin awaited \/ r.op = "io" => client'[r.fh] = client[r.fh]
           /\ r \in awaited /\ r.op = "open" =>
                 /\ client[r.fh] = "opening"
                 /\ client'[r.fh] = IF reply = "ok" THEN "open" ELSE "failed"
           /\ r \in awaited /\ r.op = "close" =>
                 /\ client[r.fh] = "closing"
                 /\ client'[r.fh] = IF reply = "ok" THEN "done" ELSE "failed"
           /\ UNCHANGED <<issued, left, requests>>
<1>1. /\ pc'[t] = "idle" /\ ~Busy(t)' /\ awaited' = awaited \ {r}
      /\ \A u \in Threads \ {t} :
            /\ pc'[u] = pc[u] /\ req'[u] = req[u] /\ fd'[u] = fd[u]
            /\ Busy(u)' <=> Busy(u)
      /\ client' = IF r \notin awaited \/ r.k # 0 THEN client
                   ELSE [client EXCEPT ![r.fh] =
                           IF reply # "ok" THEN "failed"
                           ELSE IF r.op = "open" THEN "open" ELSE "done"]
      /\ UNCHANGED <<issued, left, requests>>
  BY DEF Finish, Goto, TypeOK, Busy, NotBusy
<1>2. r \in Requests /\ r.fh \in Handles /\ (r.k = 0 <=> r.op # "io") /\ Live(r)
  BY RequestFacts DEF TypeOK, Live
<1>3. \A q : Live(q)' <=> Live(q) /\ q # r
  BY <1>1 DEF Live, ClientInv, OnePlace
<1>4. \A u \in Threads \ {t} : Busy(u) => req[u] # r /\ Live(req[u]) /\ req[u] \in Requests
  BY DEF ClientInv, OnePlace, Live, TypeOK
<1>5. \A u \in Threads \ {t} :
         Busy(u) /\ "open" \in {req[u].op, r.op} => req[u].fh # r.fh
  BY <1>2, <1>4 DEF ClientInv, OpenAlone
<1>6. /\ \A h \in Handles \ {r.fh} : client'[h] = client[h]
      /\ r \notin awaited \/ r.op = "io" => client'[r.fh] = client[r.fh]
      /\ r \in awaited /\ r.op = "open" =>
            /\ client[r.fh] = "opening"
            /\ client'[r.fh] = IF reply = "ok" THEN "open" ELSE "failed"
      /\ r \in awaited /\ r.op = "close" =>
            /\ client[r.fh] = "closing"
            /\ client'[r.fh] = IF reply = "ok" THEN "done" ELSE "failed"
  BY <1>1, <1>2 DEF TypeOK, ClientInv, AwaitedSent
<1>7. QED
  BY <1>1, <1>2, <1>3, <1>4, <1>5, <1>6

(* A thread finishes its command, and the client is told if it still waits. *)
LEMMA FinishClient ==
    ASSUME TypeOK, ClientInv, NEW t \in Threads, Busy(t), NEW reply \in Reply,
           Finish(t, reply), UNCHANGED requests
    PROVE  ClientInv'
<1> DEFINE r == req[t]
<1>1. /\ ~Busy(t)' /\ awaited' = awaited \ {r}
      /\ \A u \in Threads \ {t} : req'[u] = req[u] /\ (Busy(u)' <=> Busy(u))
      /\ UNCHANGED <<issued, left, requests>>
  BY FinishFacts
<1>2. r \in Requests /\ r.fh \in Handles /\ (r.k = 0 <=> r.op # "io") /\ Live(r)
  BY FinishFacts
<1>3. \A q : Live(q)' <=> Live(q) /\ q # r
  BY FinishFacts
<1>4. /\ \A h \in Handles \ {r.fh} : client'[h] = client[h]
      /\ r \notin awaited \/ r.op = "io" => client'[r.fh] = client[r.fh]
      /\ r \in awaited /\ r.op = "open" =>
            client[r.fh] = "opening" /\ client'[r.fh] \in {"open", "failed"}
      /\ r \in awaited /\ r.op = "close" =>
            client[r.fh] = "closing" /\ client'[r.fh] \in {"done", "failed"}
  BY FinishFacts
<1> HIDE DEF r
<1>5. OnePlace' /\ OpenAlone'
  BY <1>1, <1>3 DEF ClientInv, OnePlace, OpenAlone
<1>6. LiveSent'
  <2> SUFFICES ASSUME NEW q \in Requests, Live(q), q # r
               PROVE  /\ q.op = "open" => client'[q.fh] \in {"opening", "done"}
                      /\ q.op = "close" => client'[q.fh] \in {"closing", "done"}
                      /\ q.op = "io" => client'[q.fh] \notin {"new", "opening"} /\ q.k <= issued
    BY <1>1, <1>3 DEF LiveSent
  <2>1. /\ q.op = "open" => client[q.fh] \in {"opening", "done"}
        /\ q.op = "close" => client[q.fh] \in {"closing", "done"}
        /\ q.op = "io" => client[q.fh] \notin {"new", "opening"} /\ q.k <= issued
    BY DEF ClientInv, LiveSent
  <2>2. q.fh \in Handles /\ q.op \in {"open", "io", "close"} /\ r.op \in {"open", "io", "close"}
    BY <1>2, RequestFacts
  <2>3. CASE q.fh # r.fh
    BY <2>1, <2>2, <2>3, <1>4
  <2>4. CASE q.fh = r.fh
    <3>1. q.op # "open" /\ r.op # "open"
      BY <1>2, <2>4 DEF ClientInv, OpenAlone
    <3>2. q.op = "close" => r.op # "close"
      BY <1>2, <2>4, RequestFacts
    <3>3. QED
      BY <2>1, <2>2, <2>4, <3>1, <3>2, <1>4
  <2>5. QED
    BY <2>3, <2>4
<1>7. AwaitedSent'
  <2> SUFFICES ASSUME NEW q \in awaited, q # r
               PROVE  /\ q.op = "open" => client'[q.fh] = "opening"
                      /\ q.op = "close" => client'[q.fh] = "closing"
                      /\ q.op = "io" => client'[q.fh] = "open"
    BY <1>1 DEF AwaitedSent
  <2>1. /\ q \in Requests /\ q.fh \in Handles
        /\ q.op \in {"open", "io", "close"} /\ r.op \in {"open", "io", "close"}
    BY <1>2, RequestFacts DEF TypeOK
  <2>2. /\ q.op = "open" => client[q.fh] = "opening"
        /\ q.op = "close" => client[q.fh] = "closing"
        /\ q.op = "io" => client[q.fh] = "open"
    BY DEF ClientInv, AwaitedSent
  <2>3. q.fh = r.fh /\ r \in awaited => r.op = "io"
    BY <1>2, <1>4, <2>1, <2>2, RequestFacts
  <2>4. QED
    BY <1>4, <2>1, <2>2, <2>3
<1>8. LiveAwaited'
  BY <1>1, <1>3 DEF ClientInv, LiveAwaited
<1>9. QED
  BY <1>5, <1>6, <1>7, <1>8 DEF ClientInv

(* The server is restarted: nothing is under way any more. *)
LEMMA RestartClient == ASSUME TypeOK, ClientInv, Restart PROVE ClientInv'
<1>1. ToSet(<<>>) = {} /\ IsInjective(<<>>)
  BY DEF ToSet, IsInjective
<1>2. /\ UNCHANGED clientVars /\ requests' = <<>>
      /\ \A t \in Threads : ~Busy(t)'
  BY DEF Restart, Busy, NotBusy
<1>3. \A q : ~Live(q)'
  BY <1>1, <1>2 DEF Live
<1>4. QED
  BY <1>1, <1>2, <1>3
     DEF ClientInv, OnePlace, OpenAlone, LiveSent, AwaitedSent, LiveAwaited, clientVars

-----------------------------------------------------------------------------
(* The second part is preserved: the client.                               *)

(* A step that only moves threads without a command. *)
LEMMA QuietTable ==
    ASSUME IInv, SameWork, \A t \in Threads : Busy(t) => pc'[t] = pc[t],
           UNCHANGED <<clientVars, fd, opened, fileLock, fds, restarts>>
    PROVE  TableInv'
<1>1. /\ UNCHANGED <<requests, req, client, awaited, left, fd, opened, fileLock, fds, restarts>>
      /\ \A t \in Threads : \A l \in PCs \ NotBusy : pc'[t] = l <=> pc[t] = l
      /\ \A t \in Threads : Busy(t)' <=> Busy(t)
  BY DEF SameWork, clientVars, Busy
<1>2. {"open", "register", "lookup", "lockfile", "verify", "seek", "transfer", "close", "unlock",
       "erase"} \subseteq PCs \ NotBusy
  BY DEF PCs, NotBusy
<1>3. \A r : Live(r)' <=> Live(r)
  BY <1>1 DEF Live
<1>4. \A h \in Handles : NotYetOpened(h)' <=> NotYetOpened(h)
  BY <1>1, <1>2 DEF NotYetOpened
<1>5. StepOfOp' /\ Unopened' /\ OpenSteps' /\ Tabled'
  BY <1>1, <1>2, <1>4 DEF IInv, TableInv, StepOfOp, Unopened, OpenSteps, Tabled
<1>6. Stale' /\ Held' /\ Locked' /\ ClosedFd'
  BY <1>1, <1>2 DEF IInv, TableInv, Stale, Held, Locked, ClosedFd
<1>7. Finished' /\ Known'
  BY <1>1, <1>2, <1>3 DEF IInv, TableInv, Finished, Known
<1>8. QED
  BY <1>5, <1>6, <1>7 DEF TableInv

(* A command that is sent changes nothing in the table. *)
LEMMA IssueTable ==
    ASSUME IInv, NEW r \in Requests, ~Live(r), Issue(r),
           \/ r.op = "open" /\ client[r.fh] = "new" /\ client'[r.fh] = "opening"
           \/ r.op = "close" /\ client[r.fh] = "open" /\ client'[r.fh] = "closing"
           \/ r.op = "io" /\ client[r.fh] = "open" /\ client'[r.fh] = "open",
           \A h \in Handles \ {r.fh} : client'[h] = client[h], UNCHANGED left
    PROVE  TableInv'
<1>1. /\ requests' = Append(requests, r) /\ awaited' = awaited \cup {r}
      /\ UNCHANGED <<req, fd, opened, fileLock, fds, restarts>>
      /\ \A t \in Threads : \A l \in PCs \ NotBusy : pc'[t] = l <=> pc[t] = l
      /\ \A t \in Threads : Busy(t)' <=> Busy(t)
  BY PushFacts DEF IInv, Issue, NotBusy, processVars
<1>2. {"open", "register", "lookup", "lockfile", "verify", "seek", "transfer", "close", "unlock",
       "erase"} \subseteq PCs \ NotBusy
  BY DEF PCs, NotBusy
<1>3. ToSet(requests') = ToSet(requests) \cup {r}
  BY <1>1, AppendFacts DEF IInv, TypeOK
<1>4. /\ \A q : Live(q)' <=> Live(q) \/ q = r
      /\ \A t \in Threads : pc[t] \in PCs \ NotBusy => req[t] # r
      /\ r.fh \in Handles
  BY <1>1, <1>3, RequestFacts DEF Live, Busy
<1>5. \A h \in Handles : NotYetOpened(h)' => NotYetOpened(h)
  BY <1>1, <1>2, <1>3, RequestFacts DEF NotYetOpened
<1>6. StepOfOp' /\ Unopened' /\ OpenSteps' /\ Tabled'
  BY <1>1, <1>2, <1>5 DEF IInv, TableInv, StepOfOp, Unopened, OpenSteps, Tabled
<1>7. Stale'
  BY <1>1, <1>2, <1>3, <1>4, RequestFacts DEF IInv, TableInv, Stale
<1>8. Held' /\ Locked' /\ ClosedFd'
  BY <1>1, <1>2, <1>4 DEF IInv, TableInv, Held, Locked, ClosedFd
<1>9. Finished'
  BY <1>1, <1>4 DEF IInv, TableInv, Finished
<1>10. Known'
  BY <1>1, <1>2, <1>4, RequestFacts DEF IInv, TableInv, Known
<1>11. QED
  BY <1>6, <1>7, <1>8, <1>9, <1>10 DEF TableInv

(* The client's steps leave table and descriptors alone. *)
LEMMA ClientTable ==
    ASSUME IInv, NEW h \in Handles, Open(h) \/ ReadOrWrite(h) \/ Close(h) PROVE TableInv'
<1>1. CASE Open(h)
  <2>1. /\ client[h] = "new" /\ client'[h] = "opening" /\ Issue(OpenOf(h)) /\ UNCHANGED left
        /\ \A g \in Handles \ {h} : client'[g] = client[g]
    BY <1>1 DEF Open, OpenOf, IInv, TypeOK
  <2>2. ~Live(OpenOf(h))
    BY <2>1, RequestFacts DEF IInv, ClientInv, LiveSent
  <2>3. QED
    BY <2>1, <2>2, RequestFacts, IssueTable
<1>2. CASE ReadOrWrite(h)
  <2> DEFINE r == [op |-> "io", fh |-> h, k |-> issued']
  <2>1. /\ client[h] = "open" /\ UNCHANGED <<client, left>> /\ Issue(r)
        /\ r \in Requests /\ r.op = "io" /\ r.fh = h /\ r.k = issued + 1 /\ issued \in Nat
    BY <1>2, ConstantsAssumption DEF ReadOrWrite, IInv, TypeOK, Requests
  <2> HIDE DEF r
  <2>2. ~Live(r)
    BY <2>1 DEF IInv, ClientInv, LiveSent
  <2>3. QED
    BY <2>1, <2>2, IssueTable
<1>3. CASE Close(h)
  <2>1. /\ client[h] = "open" /\ client'[h] = "closing" /\ Issue(CloseOf(h)) /\ UNCHANGED left
        /\ \A g \in Handles \ {h} : client'[g] = client[g]
    BY <1>3 DEF Close, CloseOf, IInv, TypeOK
  <2>2. ~Live(CloseOf(h))
    BY <2>1, RequestFacts DEF IInv, ClientInv, LiveSent
  <2>3. QED
    BY <2>1, <2>2, RequestFacts, IssueTable
<1>4. QED
  BY <1>1, <1>2, <1>3

(* A handle with a command given up is left out of what is promised. *)
LEMMA AbandonTable == ASSUME IInv, NEW r \in awaited, Abandon(r) PROVE TableInv'
<1>1. /\ awaited' = awaited \ {r} /\ left' = left \cup {r.fh}
      /\ UNCHANGED <<requests, pc, req, fd, opened, fileLock, fds, restarts>>
  BY DEF Abandon, serverVars, processVars
<1>2. /\ \A h \in Handles \ {r.fh} : client'[h] = client[h]
      /\ client'[r.fh] \in {client[r.fh], "done"}
      /\ client'[r.fh] = "done" => client[r.fh] # "new"
      /\ r.fh \in Handles
  BY RequestFacts DEF Abandon, IInv, TypeOK, ClientInv, AwaitedSent
<1>3. \A q : (Live(q)' <=> Live(q)) /\ (Busy(q)' <=> Busy(q))
  BY <1>1 DEF Live, Busy
<1>4. \A h \in Handles : NotYetOpened(h)' => NotYetOpened(h)
  BY <1>1, <1>2 DEF NotYetOpened
<1>5. StepOfOp' /\ Unopened' /\ OpenSteps' /\ Tabled'
  BY <1>1, <1>4 DEF IInv, TableInv, StepOfOp, Unopened, OpenSteps, Tabled
<1>6. Stale'
  BY <1>1, <1>2, <1>3 DEF IInv, TableInv, Stale
<1>7. Held' /\ Locked' /\ ClosedFd'
  BY <1>1 DEF IInv, TableInv, Held, Locked, ClosedFd
<1>8. Finished' /\ Known'
  BY <1>1, <1>2, <1>3 DEF IInv, TableInv, Finished, Known
<1>9. QED
  BY <1>5, <1>6, <1>7, <1>8 DEF TableInv

-----------------------------------------------------------------------------
(* The second part is preserved: the threads.                              *)

(* A thread that gets a command holds nothing yet. *)
LEMMA DispatchTable == ASSUME IInv, NEW t \in Threads, Dispatch(t) PROVE TableInv'
<1> DEFINE r == Head(requests)
<1>1. /\ ~Busy(t) /\ requests # <<>>
      /\ requests' = Tail(requests) /\ req' = [req EXCEPT ![t] = r]
      /\ pc' = [pc EXCEPT ![t] = IF r.op = "open" THEN "open" ELSE "lookup"]
      /\ UNCHANGED <<client, awaited, left, fd, opened, fileLock, fds, restarts>>
  BY DEF Dispatch, Goto, Busy, NotBusy, clientVars, processVars
<1>2. /\ r \in Requests /\ r.fh \in Handles
      /\ ToSet(requests) = {r} \cup ToSet(Tail(requests))
      /\ r.op = "open" => r = OpenOf(r.fh)
  BY <1>1, TailFacts, HeadOrTail, RequestFacts DEF IInv, TypeOK
<1> HIDE DEF r
<1>3. /\ req'[t] = r /\ Busy(t)'
      /\ pc'[t] \in {"open", "lookup"} /\ (r.op = "open" <=> pc'[t] = "open")
      /\ \A u \in Threads \ {t} : req'[u] = req[u] /\ pc'[u] = pc[u] /\ (Busy(u)' <=> Busy(u))
  BY <1>1 DEF IInv, TypeOK, Busy, NotBusy
<1>4. \A q : Live(q)' <=> Live(q)
  BY <1>1, <1>2, <1>3 DEF Live
<1>5. \A h \in Handles : NotYetOpened(h)' => NotYetOpened(h)
  BY <1>1, <1>2, <1>3 DEF NotYetOpened
<1>6. StepOfOp' /\ Unopened' /\ OpenSteps'
  BY <1>1, <1>3, <1>5 DEF IInv, TableInv, StepOfOp, Unopened, OpenSteps
<1>7. Tabled'
  <2>1. pc[t] # "register"
    BY <1>1 DEF Busy, NotBusy
  <2>2. QED
    BY <2>1, <1>1, <1>3 DEF IInv, TableInv, Tabled
<1>8. Stale'
  BY <1>1, <1>2, <1>3 DEF IInv, TableInv, Stale
<1>9. Held' /\ Locked' /\ ClosedFd'
  BY <1>1, <1>3 DEF IInv, TableInv, Held, Locked, ClosedFd
<1>10. Finished' /\ Known'
  BY <1>1, <1>3, <1>4 DEF IInv, TableInv, Finished, Known
<1>11. QED
  BY <1>6, <1>7, <1>8, <1>9, <1>10 DEF TableInv

\* A thread goes on with its command.
Advances(t) ==
    /\ Busy(t) /\ Busy(t)'
    /\ UNCHANGED <<clientVars, requests, req, restarts>>
    /\ \A u \in Threads \ {t} : pc'[u] = pc[u] /\ fd'[u] = fd[u]

(* No other thread has the same command, and none has the handle of a thread that
   opens it. *)
LEMMA AdvanceFacts ==
    ASSUME IInv, NEW t \in Threads, Advances(t)
    PROVE  /\ \A q : Live(q)' <=> Live(q)
           /\ \A u \in Threads : Busy(u)' <=> Busy(u)
           /\ \A u \in Threads \ {t} : Busy(u) => req[u] # req[t]
           /\ \A u \in Threads \ {t} :
                 Busy(u) /\ "open" \in {req[u].op, req[t].op} => req[u].fh # req[t].fh
           /\ req[t] \in Requests /\ req[t].fh \in Handles /\ Live(req[t])
           /\ UNCHANGED <<client, issued, awaited, left>>
<1>1. \A u \in Threads : Busy(u)' <=> Busy(u)
  BY DEF Advances, Busy
<1>2. \A q : Live(q)' <=> Live(q)
  BY <1>1 DEF Advances, Live
<1>3. \A u \in Threads \ {t} : Busy(u) => req[u] # req[t]
  BY DEF Advances, IInv, ClientInv, OnePlace
<1>4. \A u \in Threads : req[u] \in Requests /\ (Busy(u) => Live(req[u]))
  BY DEF IInv, TypeOK, Live
<1>5. \A u \in Threads \ {t} :
         Busy(u) /\ "open" \in {req[u].op, req[t].op} => req[u].fh # req[t].fh
  BY <1>3, <1>4 DEF Advances, IInv, ClientInv, OpenAlone
<1>6. QED
  BY <1>1, <1>2, <1>3, <1>4, <1>5, RequestFacts DEF Advances, clientVars

(* The thread gets a descriptor that was free, for a handle that has no entry yet. *)
LEMMA OpenFileTable == ASSUME IInv, NEW t \in Threads, OpenFile(t) PROVE TableInv'
<1> DEFINE h == req[t].fh
<1>1. PICK f \in FDs : /\ fds[f] = Free
                       /\ fds' = [fds EXCEPT ![f] = h]
                       /\ fd' = [fd EXCEPT ![t] = f]
  BY DEF OpenFile
<1>2. /\ pc[t] = "open" /\ pc'[t] = "register" /\ Advances(t)
      /\ UNCHANGED <<opened, fileLock>>
  BY <1>1 DEF OpenFile, Goto, Advances, Busy, NotBusy, IInv, TypeOK, processVars
<1>3. /\ req[t].op = "open" /\ opened[h] = Absent /\ h \in Handles /\ h # Free
      /\ \A g \in FDs : fds[g] # h
      /\ UNCHANGED <<requests, req, client, awaited, left, restarts>>
  BY <1>2, AdvanceFacts, TypeFacts
     DEF IInv, TableInv, Unopened, NotYetOpened, StepOfOp, Advances
<1>4. /\ fd'[t] = f /\ fds'[f] = h
      /\ \A g \in FDs \ {f} : fds'[g] = fds[g]
      /\ \A u \in Threads \ {t} : pc'[u] = pc[u] /\ fd'[u] = fd[u]
      /\ \A u \in Threads \ {t} : Busy(u) => req[u].fh # h
      /\ \A q : Live(q)' <=> Live(q)
      /\ \A u \in Threads : Busy(u)' <=> Busy(u)
  BY <1>1, <1>2, <1>3, AdvanceFacts DEF Advances, IInv, TypeOK
<1>5. \A u \in Threads : pc[u] \notin NotBusy <=> Busy(u)
  BY DEF Busy
<1>6. \A g \in Handles : opened[g] \in FDs \cup {Absent}
  BY DEF IInv, TypeOK
<1> HIDE DEF h
<1>7. StepOfOp'
  BY <1>2, <1>3, <1>4 DEF IInv, TableInv, StepOfOp
<1>8. Unopened'
  <2>1. \A g \in Handles : NotYetOpened(g)' => NotYetOpened(g) /\ g # h
    <3>1. OpenOf(h) \notin ToSet(requests) /\ client[h] # "new"
      <4>1. Live(req[t]) /\ req[t] = OpenOf(h) /\ req[t] \in Requests
        BY <1>2, <1>3, AdvanceFacts, RequestFacts DEF h
      <4>2. QED
        BY <4>1, <1>2, <1>3 DEF IInv, ClientInv, OnePlace, LiveSent, Advances, h
    <3>2. \A u \in Threads : pc'[u] = "open" => pc[u] = "open" /\ req[u].fh # h
      BY <1>2, <1>4, <1>5 DEF NotBusy
    <3>3. QED
      BY <3>1, <3>2, <1>3 DEF NotYetOpened
  <2>2. QED
    BY <2>1, <1>1, <1>2, <1>4 DEF IInv, TableInv, Unopened
<1>9. OpenSteps'
  BY <1>1, <1>2, <1>3, <1>4, <1>5, <1>6, TypeFacts DEF IInv, TableInv, OpenSteps, h
<1>10. Tabled'
  BY <1>2, <1>3, <1>4, TypeFacts DEF IInv, TableInv, Tabled, h
<1>11. Stale'
  BY <1>1, <1>2, <1>3, <1>4, <1>6, TypeFacts DEF IInv, TableInv, Stale
<1>12. Held' /\ Locked'
  BY <1>2, <1>3, <1>4 DEF IInv, TableInv, Held, Locked
<1>13. ClosedFd'
  BY <1>2, <1>3, <1>4, <1>5 DEF IInv, TableInv, ClosedFd, NotBusy
<1>14. Finished'
  <2>1. h \in Handles \ left => client[h] = "opening"
    <3>1. Live(req[t]) /\ req[t] \in Requests /\ req[t].op = "open"
      BY <1>2, <1>3, AdvanceFacts
    <3>2. QED
      BY <3>1 DEF IInv, ClientInv, LiveAwaited, AwaitedSent, h
  <2>2. QED
    BY <2>1, <1>2, <1>3, <1>4 DEF IInv, TableInv, Finished
<1>15. Known'
  BY <1>2, <1>3, <1>4 DEF IInv, TableInv, Known
<1>16. QED
  BY <1>7, <1>8, <1>9, <1>10, <1>11, <1>12, <1>13, <1>14, <1>15 DEF TableInv

(* The handle gets the entry it did not have. *)
LEMMA RegisterTable == ASSUME IInv, NEW t \in Threads, Register(t) PROVE TableInv'
<1> DEFINE h == req[t].fh
<1>1. /\ pc[t] = "register" /\ pc'[t] = "lookup" /\ Advances(t)
      /\ opened' = [opened EXCEPT ![h] = fd[t]]
      /\ UNCHANGED <<fd, fds, fileLock, requests, req, client, awaited, left, restarts>>
  BY DEF Register, Goto, Advances, Busy, NotBusy, IInv, TypeOK, processVars, clientVars
<1>2. /\ req[t].op = "open" /\ fd[t] \in FDs /\ fds[fd[t]] = h
      /\ h \in Handles /\ ~NotYetOpened(h)
  <2>1. /\ req[t].op = "open" /\ opened[h] = Absent /\ fd[t] \in FDs /\ fds[fd[t]] = h
        /\ h \in Handles
    BY <1>1, AdvanceFacts DEF IInv, TableInv, StepOfOp, OpenSteps
  <2>2. QED
    BY <2>1 DEF IInv, TableInv, Unopened
<1>3. /\ opened'[h] = fd[t] /\ fds[opened'[h]] = h
      /\ \A g \in Handles \ {h} : opened'[g] = opened[g]
      /\ \A u \in Threads \ {t} : pc'[u] = pc[u]
      /\ \A u \in Threads \ {t} : Busy(u) => req[u].fh # h
      /\ \A q : Live(q)' <=> Live(q)
      /\ \A u \in Threads : Busy(u)' <=> Busy(u)
      /\ \A u \in Threads : req[u].fh \in Handles
  BY <1>1, <1>2, AdvanceFacts, TypeFacts DEF Advances, IInv, TypeOK
<1>4. \A u \in Threads : pc[u] \notin NotBusy <=> Busy(u)
  BY DEF Busy
<1>5. StepOfOp'
  BY <1>1, <1>2, <1>3 DEF IInv, TableInv, StepOfOp
<1>6. Unopened'
  <2>1. \A g \in Handles : NotYetOpened(g)' => NotYetOpened(g)
    BY <1>1, <1>3 DEF NotYetOpened
  <2>2. QED
    BY <2>1, <1>1, <1>2, <1>3 DEF IInv, TableInv, Unopened
<1>7. OpenSteps'
  BY <1>1, <1>2, <1>3, <1>4 DEF IInv, TableInv, OpenSteps, NotBusy
<1>8. Tabled'
  <2> SUFFICES ASSUME NEW f \in FDs, fds[f] # Free
               PROVE  \/ opened'[fds[f]] = f
                      \/ \E u \in Threads : /\ pc'[u] = "register"
                                            /\ req[u].fh = fds[f] /\ fd[u] = f
    BY <1>1 DEF Tabled
  <2>1. fds[f] \in Handles
    BY DEF IInv, TypeOK
  <2>2. CASE \E u \in Threads : pc[u] = "register" /\ req[u].fh = fds[f] /\ fd[u] = f
    BY <2>2, <1>3
  <2>3. CASE opened[fds[f]] = f
    <3>1. fds[f] # h
      BY <2>3, <1>1, TypeFacts DEF IInv, TableInv, OpenSteps
    <3>2. QED
      BY <2>1, <2>3, <3>1, <1>3
  <2>4. QED
    BY <2>2, <2>3 DEF IInv, TableInv, Tabled
<1>9. Stale'
  BY <1>1, <1>2, <1>3 DEF IInv, TableInv, Stale
<1>10. Held'
  BY <1>1, <1>3, <1>4 DEF IInv, TableInv, Held, NotBusy
<1>11. Locked' /\ ClosedFd'
  BY <1>1, <1>3 DEF IInv, TableInv, Locked, ClosedFd
<1>12. Finished'
  <2>1. h \in Handles \ left => client[h] = "opening"
    <3>1. Live(req[t]) /\ req[t] \in Requests /\ req[t].op = "open"
      BY <1>1, <1>2, AdvanceFacts
    <3>2. QED
      BY <3>1 DEF IInv, ClientInv, LiveAwaited, AwaitedSent
  <2>2. QED
    BY <2>1, <1>1, <1>3 DEF IInv, TableInv, Finished
<1>13. Known'
  BY <1>1, <1>2, <1>3, TypeFacts DEF IInv, TableInv, Known
<1>14. QED
  BY <1>5, <1>6, <1>7, <1>8, <1>9, <1>10, <1>11, <1>12, <1>13 DEF TableInv

(* The steps that change neither table nor descriptors: what the thread must know
   afterwards is the only thing to show. *)
LEMMA StayTable ==
    ASSUME IInv, NEW t \in Threads, Advances(t), UNCHANGED <<opened, fds>>,
           pc[t] \in {"lookup", "lockfile", "seek"},
           pc'[t] \in {"lockfile", "verify", "seek", "transfer", "close"},
           \A u \in Threads \ {t} : \A h \in Handles : fileLock[h] = u => fileLock'[h] = u,
           /\ pc'[t] = "verify" => req[t].op = "open"
           /\ pc'[t] \in {"seek", "transfer"} => req[t].op = "io"
           /\ pc'[t] = "close" => req[t].op = "close",
           /\ pc'[t] \in {"lockfile", "transfer", "verify"} => fd'[t] \in FDs
           /\ fd'[t] # NoFd /\ (req[t].op = "io" => req[t] \in awaited)
                 => fd'[t] = opened[req[t].fh]
           /\ pc'[t] = "close" /\ fd'[t] = NoFd => opened[req[t].fh] = Absent,
           pc'[t] \in {"seek", "transfer", "close"} /\ fd'[t] # NoFd
                 => fileLock'[req[t].fh] = t,
           restarts = 0 =>
              /\ pc'[t] = "seek" /\ req[t] \in awaited => fd'[t] # NoFd
              /\ pc'[t] = "close" => fd'[t] # NoFd
    PROVE  TableInv'
<1>1. /\ UNCHANGED <<requests, req, client, awaited, left, restarts, opened, fds>>
      /\ \A u \in Threads \ {t} : pc'[u] = pc[u] /\ fd'[u] = fd[u]
      /\ \A q : Live(q)' <=> Live(q)
      /\ \A u \in Threads : Busy(u)' <=> Busy(u)
      /\ \A u \in Threads : req[u].fh \in Handles
  BY AdvanceFacts, TypeFacts DEF Advances, IInv
<1>2. \A h \in Handles : NotYetOpened(h)' => NotYetOpened(h)
  BY <1>1 DEF NotYetOpened
<1>3. StepOfOp' /\ Unopened'
  BY <1>1, <1>2 DEF IInv, TableInv, StepOfOp, Unopened
<1>4. OpenSteps'
  BY <1>1 DEF IInv, TableInv, StepOfOp, OpenSteps
<1>5. Tabled'
  BY <1>1 DEF IInv, TableInv, Tabled
<1>6. Stale'
  <2>1. pc[t] \notin {"unlock", "erase"}
    OBVIOUS
  <2>2. QED
    BY <2>1, <1>1 DEF IInv, TableInv, Stale
<1>7. Held'
  BY <1>1 DEF IInv, TableInv, Held
<1>8. Locked'
  BY <1>1 DEF IInv, TableInv, Locked
<1>9. ClosedFd' /\ Finished'
  BY <1>1 DEF IInv, TableInv, ClosedFd, Finished
<1>10. Known'
  BY <1>1 DEF IInv, TableInv, Known
<1>11. QED
  BY <1>3, <1>4, <1>5, <1>6, <1>7, <1>8, <1>9, <1>10 DEF TableInv

(* The thread takes the entry as it is, with the mutex of the table. *)
LEMMA LookupTable == ASSUME IInv, NEW t \in Threads, Lookup(t) PROVE TableInv'
<1>1. /\ pc[t] = "lookup" /\ pc'[t] = "lockfile" /\ Advances(t)
      /\ UNCHANGED <<opened, fds, fileLock, restarts, req>>
      /\ fd'[t] = opened[req[t].fh] /\ opened[req[t].fh] # Absent
  BY DEF Lookup, Goto, Advances, Busy, NotBusy, IInv, TypeOK, processVars
<1>2. fd'[t] \in FDs
  BY <1>1, TypeFacts DEF IInv, TypeOK
<1>3. QED
  BY <1>1, <1>2, StayTable

(* The thread takes the mutex of the File. *)
LEMMA LockFileTable == ASSUME IInv, NEW t \in Threads, LockFile(t) PROVE TableInv'
<1> DEFINE h == req[t].fh
<1>1. /\ pc[t] = "lockfile" /\ pc'[t] = AfterLookup(req[t].op) /\ Advances(t)
      /\ UNCHANGED <<opened, fds, fd, restarts, req>>
      /\ fileLock[h] = None /\ fileLock' = [fileLock EXCEPT ![h] = t]
  BY DEF LockFile, Goto, Advances, Busy, NotBusy, IInv, TypeOK, processVars, AfterLookup
<1>2. h \in Handles /\ req[t].op \in {"open", "io", "close"}
  BY RequestFacts, TypeFacts DEF IInv
<1>3. /\ fileLock'[h] = t
      /\ \A u \in Threads \ {t} : \A g \in Handles : fileLock[g] = u => fileLock'[g] = u
  BY <1>1, <1>2, ConstantsAssumption DEF IInv, TypeOK
<1>4. /\ req[t].op = "open" <=> pc'[t] = "verify"
      /\ req[t].op = "close" <=> pc'[t] = "close"
      /\ req[t].op = "io" <=> pc'[t] = "seek"
      /\ pc'[t] \in {"verify", "seek", "close"}
  BY <1>1, <1>2 DEF AfterLookup
<1>5. /\ fd[t] \in FDs /\ fd[t] # NoFd
      /\ (req[t].op = "io" => req[t] \in awaited) => fd[t] = opened[h]
  BY <1>1, TypeFacts DEF IInv, TableInv, Held
<1>6. QED
  BY <1>1, <1>3, <1>4, <1>5, StayTable

(* An open handle is in the table, so the thread that opens it finds it; before the
   first restart so do all others. *)
LEMMA LookupUnknownTable == ASSUME IInv, NEW t \in Threads, LookupUnknown(t) PROVE TableInv'
<1> DEFINE h == req[t].fh
<1>1. /\ pc[t] = "lookup" /\ pc'[t] = AfterLookup(req[t].op) /\ Advances(t)
      /\ UNCHANGED <<opened, fds, fileLock, restarts, req>>
      /\ opened[h] = Absent /\ fd'[t] = NoFd
  BY DEF LookupUnknown, Goto, Advances, Busy, NotBusy, IInv, TypeOK, processVars, AfterLookup
<1>2. h \in Handles /\ req[t].op \in {"open", "io", "close"} /\ Absent \notin FDs
  BY RequestFacts, TypeFacts DEF IInv
<1>3. req[t].op # "open"
  BY <1>1, <1>2 DEF IInv, TableInv, OpenSteps
<1>4. /\ req[t].op = "close" <=> pc'[t] = "close"
      /\ req[t].op = "io" <=> pc'[t] = "seek"
      /\ pc'[t] \in {"seek", "close"}
  BY <1>1, <1>2, <1>3 DEF AfterLookup
<1>5. restarts = 0 => pc'[t] # "close" /\ (pc'[t] = "seek" => req[t] \notin awaited)
  <2>1. req[t].op = "close" => Live(CloseOf(h))
    BY <1>1, AdvanceFacts, RequestFacts
  <2>2. req[t] \in awaited /\ req[t].op = "io" => client[h] = "open"
    BY DEF IInv, ClientInv, AwaitedSent
  <2>3. QED
    BY <1>1, <1>2, <1>4, <2>1, <2>2 DEF IInv, TableInv, Known
<1>6. \A u \in Threads \ {t} : \A g \in Handles : fileLock[g] = u => fileLock'[g] = u
  BY <1>1
<1>7. QED
  BY <1>1, <1>3, <1>4, <1>5, <1>6, StayTable

(* lseek is made with the mutex held. *)
LEMMA SeekTable == ASSUME IInv, NEW t \in Threads, Seek(t) PROVE TableInv'
<1>1. /\ pc[t] = "seek" /\ pc'[t] = "transfer" /\ Advances(t)
      /\ UNCHANGED <<opened, fds, fd, fileLock, restarts, req>>
      /\ fd[t] # NoFd
  BY DEF Seek, IsOpen, Goto, Advances, Busy, NotBusy, IInv, TypeOK, processVars
<1>2. req[t].op = "io" /\ fd[t] \in FDs
  BY <1>1 DEF IInv, TableInv, StepOfOp, TypeOK
<1>3. /\ (req[t].op = "io" => req[t] \in awaited) => fd[t] = opened[req[t].fh]
      /\ fileLock[req[t].fh] = t
  BY <1>1 DEF IInv, TableInv, Held, Locked
<1>4. \A u \in Threads \ {t} : \A g \in Handles : fileLock[g] = u => fileLock'[g] = u
  BY <1>1
<1>5. QED
  BY <1>1, <1>2, <1>3, <1>4, StayTable

(* close() frees the descriptor of its own handle, and only a thread that was
   given up can have it. *)
LEMMA CloseFdTable == ASSUME IInv, NEW t \in Threads, CloseFd(t) PROVE TableInv'
<1> DEFINE h == req[t].fh
<1>1. /\ pc[t] = "close" /\ pc'[t] = "unlock" /\ Advances(t)
      /\ UNCHANGED <<opened, fileLock, restarts, req, requests, client, awaited, left>>
      /\ fds' = [f \in FDs |-> IF f = fd[t] THEN Free ELSE fds[f]]
  BY DEF CloseFd, Goto, Advances, Busy, NotBusy, IInv, TypeOK, processVars, clientVars
<1>2. /\ req[t] = CloseOf(h) /\ req[t].op = "close" /\ h \in Handles
      /\ Live(CloseOf(h)) /\ CloseOf(h) \in Requests /\ Absent \notin FDs /\ Free \notin Handles
      /\ \A u \in Threads : req[u] \in Requests /\ req[u].fh \in Handles
  BY <1>1, AdvanceFacts, RequestFacts, TypeFacts DEF IInv, TableInv, StepOfOp
<1>3. fd[t] # NoFd => fd[t] = opened[h] /\ fds[fd[t]] = h
  <2>1. fd[t] # NoFd => fd[t] = opened[h] /\ fd[t] \in FDs
    BY <1>1, <1>2 DEF IInv, TableInv, Held, TypeOK
  <2>2. opened[h] # Absent => fds[opened[h]] = h
    BY <1>1, <1>2 DEF IInv, TableInv, Stale, Advances
  <2>3. QED
    BY <1>2, <2>1, <2>2
<1>4. fd[t] = NoFd => opened[h] = Absent
  BY <1>1 DEF IInv, TableInv, Held
<1>5. /\ \A u \in Threads \ {t} : pc'[u] = pc[u] /\ fd'[u] = fd[u]
      /\ \A u \in Threads \ {t} : Busy(u) => req[u] # CloseOf(h)
      /\ \A u \in Threads \ {t} : Busy(u) /\ req[u].op = "open" => req[u].fh # h
      /\ \A q : Live(q)' <=> Live(q)
      /\ \A u \in Threads : Busy(u)' <=> Busy(u)
      /\ CloseOf(h) \notin ToSet(requests)
      /\ client[h] \in {"closing", "done"}
  BY <1>1, <1>2, AdvanceFacts
     DEF Advances, IInv, ClientInv, OnePlace, LiveSent
<1>6. \A u \in Threads : pc[u] \notin NotBusy <=> Busy(u)
  BY DEF Busy
<1>7. \A f \in FDs : fds'[f] = h => FALSE
  <2> SUFFICES ASSUME NEW f \in FDs, fds[f] = h, f # fd[t] PROVE FALSE
    BY <1>1, <1>2
  <2>1. \/ opened[h] = f
        \/ \E u \in Threads : pc[u] = "register" /\ req[u].fh = h
    BY <1>2 DEF IInv, TableInv, Tabled
  <2>2. CASE opened[h] = f
    BY <2>2, <1>2, <1>3, <1>4
  <2>3. ASSUME NEW u \in Threads, pc[u] = "register", req[u].fh = h PROVE FALSE
    BY <2>3, <1>1, <1>5, <1>6 DEF NotBusy, IInv, TableInv, StepOfOp
  <2>4. QED
    BY <2>1, <2>2, <2>3
<1>8. \A f \in FDs : fds'[f] \in {fds[f], Free} /\ (fds[f] # h => fds'[f] = fds[f])
  BY <1>1, <1>3, TypeFacts DEF IInv
<1> HIDE DEF h
<1>9. StepOfOp'
  BY <1>1, <1>2, <1>5 DEF IInv, TableInv, StepOfOp, h
<1>10. Unopened'
  <2>1. \A g \in Handles : NotYetOpened(g)' => NotYetOpened(g)
    BY <1>1, <1>5 DEF NotYetOpened
  <2>2. QED
    BY <2>1, <1>1, <1>2, <1>8 DEF IInv, TableInv, Unopened
<1>11. OpenSteps'
  BY <1>1, <1>2, <1>5, <1>6, <1>8 DEF IInv, TableInv, StepOfOp, OpenSteps, NotBusy, h
<1>12. Tabled'
  BY <1>1, <1>5, <1>8 DEF IInv, TableInv, Tabled
<1>13. Stale'
  <2> SUFFICES ASSUME NEW g \in Handles, opened[g] # Absent, fds'[opened[g]] # g
               PROVE  /\ client[g] \in {"closing", "done", "failed"}
                      /\ CloseOf(g) \notin ToSet(requests)
                      /\ \A u \in Threads : Busy(u)' /\ req[u] = CloseOf(g)
                                               => pc'[u] \in {"unlock", "erase"}
    BY <1>1 DEF Stale
  <2>1. CASE g = h
    BY <2>1, <1>1, <1>5
  <2>2. CASE g # h
    <3>1. opened[g] \in FDs
      BY DEF IInv, TypeOK
    <3>2. fds[opened[g]] # g
      BY <2>2, <3>1, <1>8
    <3>3. QED
      BY <3>2, <2>2, <1>1, <1>5 DEF IInv, TableInv, Stale
  <2>3. QED
    BY <2>1, <2>2
<1>14. Held' /\ Locked'
  BY <1>1, <1>5 DEF IInv, TableInv, Held, Locked
<1>15. ClosedFd'
  BY <1>1, <1>2, <1>5, <1>7, <1>8 DEF IInv, TableInv, ClosedFd, h
<1>16. Finished'
  BY <1>1, <1>2, <1>8 DEF IInv, TableInv, Finished
<1>17. Known'
  <2>1. restarts = 0 => fileLock[h] = t
    BY <1>1, <1>2 DEF IInv, TableInv, Known, Locked, h
  <2>2. QED
    BY <2>1, <1>1, <1>5 DEF IInv, TableInv, Known, h
<1>18. QED
  BY <1>9, <1>10, <1>11, <1>12, <1>13, <1>14, <1>15, <1>16, <1>17 DEF TableInv

(* A thread that replies leaves the table in order, if an open or close command has
   done what it says. *)
LEMMA FinishTable ==
    ASSUME IInv, NEW t \in Threads, Busy(t), NEW reply \in Reply, Finish(t, reply),
           UNCHANGED <<requests, fds, restarts>>,
           NEW h, h = req[t].fh,
           \A u \in Threads \ {t} : \A g \in Handles : fileLock[g] = u => fileLock'[g] = u,
           \A g \in Handles :
               \/ opened'[g] = opened[g]
               \/ req[t] = CloseOf(g) /\ opened'[g] = Absent,
           req[t].op = "open" => /\ pc[t] \in {"open", "verify"}
                                 /\ reply = "ok" => opened[h] \in FDs
                                 /\ reply # "ok" => \A f \in FDs : fds[f] # h,
           req[t].op = "close" => /\ pc[t] # "register"
                                  /\ \A f \in FDs : fds[f] # h
                                  /\ reply = "ok" => opened'[h] = Absent
    PROVE  TableInv'
<1> DEFINE r == req[t]
<1>1. /\ r \in Requests /\ h \in Handles /\ Live(r)
      /\ r.op \in {"open", "io", "close"}
      /\ \A g \in Handles : CloseOf(g).fh = g /\ CloseOf(g).op = "close" /\ CloseOf(g) \in Requests
      /\ r.op = "close" => r = CloseOf(h)
      /\ \A u \in Threads : req[u] \in Requests /\ req[u].fh \in Handles
      /\ Absent \notin FDs
  BY FinishFacts, RequestFacts, TypeFacts DEF IInv
<1>2. /\ pc'[t] = "idle" /\ ~Busy(t)' /\ awaited' = awaited \ {r}
      /\ \A u \in Threads \ {t} :
            /\ pc'[u] = pc[u] /\ req'[u] = req[u] /\ fd'[u] = fd[u]
            /\ Busy(u)' <=> Busy(u)
            /\ Busy(u) => req[u] # r
            /\ Busy(u) /\ "open" \in {req[u].op, r.op} => req[u].fh # h
      /\ \A q : Live(q)' <=> Live(q) /\ q # r
      /\ UNCHANGED <<left, requests, fds, restarts>>
  BY FinishFacts DEF IInv
<1>3. /\ \A g \in Handles \ {h} : client'[g] = client[g]
      /\ r \notin awaited \/ r.op = "io" => client'[h] = client[h]
      /\ r \in awaited /\ r.op = "open" =>
            client[h] = "opening" /\ client'[h] = IF reply = "ok" THEN "open" ELSE "failed"
      /\ r \in awaited /\ r.op = "close" =>
            client[h] = "closing" /\ client'[h] = IF reply = "ok" THEN "done" ELSE "failed"
  BY FinishFacts DEF IInv
<1>4. /\ r.op = "close" => client[h] \in {"closing", "done"}
      /\ r.op = "io" => client[h] \notin {"new", "opening"}
      /\ r.op = "open" => client[h] \in {"opening", "done"}
      /\ r \in awaited \/ h \in left
  BY <1>1 DEF IInv, ClientInv, LiveSent, LiveAwaited
<1>5. /\ \A g \in Handles \ {h} : opened'[g] = opened[g]
      /\ r.op # "close" => opened'[h] = opened[h]
      /\ r.op = "close" => opened'[h] \in {opened[h], Absent}
  BY <1>1
<1>6. \A u \in Threads : pc[u] \notin NotBusy <=> Busy(u)
  BY DEF Busy
<1>7. \A u \in Threads \ {t} :
         Busy(u) /\ req[u].fh = h =>
            opened'[h] = opened[h] \/ (req[u].op = "io" /\ req[u] \notin awaited)
  <2> SUFFICES ASSUME NEW u \in Threads \ {t}, Busy(u), req[u].fh = h, r.op = "close"
               PROVE  req[u].op = "io" /\ req[u] \notin awaited
    BY <1>2, <1>5
  <2>1. req[u].op # "close"
    BY <1>1, <1>2, RequestFacts
  <2>2. req[u].op = "io"
    BY <1>1, <1>2, <2>1, RequestFacts
  <2>3. QED
    BY <2>2, <1>4 DEF IInv, ClientInv, AwaitedSent
<1>8. \A g \in Handles : opened'[g] # Absent => opened'[g] = opened[g]
  BY <1>5
<1> HIDE DEF r
<1>9. StepOfOp'
  BY <1>2 DEF IInv, TableInv, StepOfOp
<1>10. Unopened'
  <2>1. \A g \in Handles : NotYetOpened(g)' => NotYetOpened(g)
    BY <1>1, <1>2, <1>3, <1>4 DEF NotYetOpened
  <2>2. QED
    BY <2>1, <1>2, <1>8 DEF IInv, TableInv, Unopened
<1>11. OpenSteps'
  BY <1>1, <1>2, <1>5, <1>6, <1>7 DEF IInv, TableInv, StepOfOp, OpenSteps, NotBusy
<1>12. Tabled'
  <2> SUFFICES ASSUME NEW f \in FDs, fds[f] # Free
               PROVE  \/ opened'[fds[f]] = f
                      \/ \E u \in Threads : /\ pc'[u] = "register"
                                            /\ req'[u].fh = fds[f] /\ fd'[u] = f
    BY <1>2 DEF Tabled
  <2>1. pc[t] # "register"
    BY <1>1 DEF r, IInv, TableInv, StepOfOp
  <2>2. fds[f] \in Handles
    BY DEF IInv, TypeOK
  <2>3. opened[fds[f]] = f => opened'[fds[f]] = f
    BY <2>2, <1>5 DEF r
  <2>4. QED
    BY <2>1, <2>3, <1>2 DEF IInv, TableInv, Tabled
<1>13. Stale'
  BY <1>1, <1>2, <1>3, <1>4, <1>8 DEF IInv, TableInv, Stale
<1>14. Held'
  BY <1>1, <1>2, <1>5, <1>6, <1>7 DEF IInv, TableInv, Held, NotBusy
<1>15. Locked' /\ ClosedFd'
  BY <1>1, <1>2 DEF IInv, TableInv, Locked, ClosedFd
<1>16. Finished'
  BY <1>1, <1>2, <1>3, <1>4, <1>5, <1>8 DEF IInv, TableInv, Finished, r
<1>17. Known'
  BY <1>1, <1>2, <1>3, <1>4, <1>5 DEF IInv, TableInv, Known, r
<1>18. QED
  BY <1>9, <1>10, <1>11, <1>12, <1>13, <1>14, <1>15, <1>16, <1>17 DEF TableInv

(* A thread that is done gives back what it held. *)
LEMMA FinishesTable ==
    ASSUME IInv, NEW t \in Threads,
           OpenError(t) \/ Verified(t) \/ SeekFails(t) \/ Transfer(t) \/ Erase(t)
    PROVE  TableInv'
<1> DEFINE h == req[t].fh
<1>1. /\ h \in Handles /\ Absent \notin FDs /\ {"ok", "errno"} \subseteq Reply
      /\ req[t].op = "close" => req[t] = CloseOf(h)
  BY RequestFacts, TypeFacts DEF IInv, Reply
<1>2. Unlock(t) => \A u \in Threads \ {t} : \A g \in Handles : fileLock[g] = u => fileLock'[g] = u
  BY DEF Unlock
<1>3. CASE OpenError(t)
  <2>1. /\ pc[t] = "open" /\ Busy(t) /\ Finish(t, "errno")
        /\ UNCHANGED <<requests, opened, fileLock, fds, restarts>>
    BY <1>3 DEF OpenError, Busy, NotBusy, processVars
  <2>2. req[t].op = "open" /\ \A f \in FDs : fds[f] # h
    BY <2>1, <1>1 DEF IInv, TableInv, StepOfOp, Unopened, NotYetOpened
  <2>3. QED
    BY <2>1, <2>2, <1>1, FinishTable
<1>4. CASE Verified(t)
  <2>1. /\ pc[t] = "verify" /\ Busy(t) /\ Finish(t, "ok") /\ Unlock(t)
        /\ UNCHANGED <<requests, opened, fds, restarts>>
    BY <1>4 DEF Verified, Busy, NotBusy, processVars
  <2>2. req[t].op = "open" /\ opened[h] \in FDs
    BY <2>1 DEF IInv, TableInv, StepOfOp, OpenSteps
  <2>3. QED
    BY <2>1, <2>2, <1>1, <1>2, FinishTable
<1>5. CASE SeekFails(t) \/ Transfer(t)
  <2>1. /\ pc[t] \in {"seek", "transfer"} /\ Busy(t) /\ Unlock(t)
        /\ \E reply \in Reply : Finish(t, reply)
        /\ UNCHANGED <<requests, opened, fds, restarts>>
    BY <1>5 DEF SeekFails, Transfer, Busy, NotBusy, processVars, Reply
  <2>2. req[t].op = "io"
    BY <2>1 DEF IInv, TableInv, StepOfOp
  <2>3. QED
    BY <2>1, <2>2, <1>1, <1>2, FinishTable
<1>6. CASE Erase(t)
  <2>1. /\ pc[t] = "erase" /\ Busy(t) /\ Finish(t, "ok")
        /\ opened' = [opened EXCEPT ![h] = Absent]
        /\ UNCHANGED <<requests, fileLock, fds, restarts>>
    BY <1>6 DEF Erase, Busy, NotBusy, processVars
  <2>2. req[t].op = "close" /\ \A f \in FDs : fds[f] # h
    BY <2>1 DEF IInv, TableInv, StepOfOp, ClosedFd
  <2>3. opened'[h] = Absent /\ \A g \in Handles \ {h} : opened'[g] = opened[g]
    BY <2>1, <1>1 DEF IInv, TypeOK
  <2>4. \A g \in Handles :
           \/ opened'[g] = opened[g]
           \/ req[t] = CloseOf(g) /\ opened'[g] = Absent
    BY <2>2, <2>3, <1>1
  <2>5. \A u \in Threads \ {t} : \A g \in Handles : fileLock[g] = u => fileLock'[g] = u
    BY <2>1
  <2>6. QED
    BY <2>1, <2>2, <2>3, <2>4, <2>5, <1>1, FinishTable
<1>7. QED
  BY <1>3, <1>4, <1>5, <1>6

(* The mutex of the File is released before its entry goes. *)
LEMMA CloseUnlockTable == ASSUME IInv, NEW t \in Threads, CloseUnlock(t) PROVE TableInv'
<1> DEFINE h == req[t].fh
<1>1. /\ pc[t] = "unlock" /\ Busy(t) /\ req[t].op = "close" /\ req[t] = CloseOf(h)
      /\ \A f \in FDs : fds[f] # h
      /\ UNCHANGED <<requests, opened, fds, restarts>>
  <2>1. pc[t] = "unlock" /\ UNCHANGED <<requests, opened, fds, restarts>>
    BY DEF CloseUnlock
  <2>2. QED
    BY <2>1, RequestFacts DEF Busy, NotBusy, IInv, TypeOK, TableInv, StepOfOp, ClosedFd
<1>2. CASE fileLock[h] # t
  <2>1. UNCHANGED <<clientVars, pc, req, fd, fileLock>>
    BY <1>2 DEF CloseUnlock
  <2>2. QED
    BY <2>1, <1>1, QuietTable DEF SameWork, Busy
<1>3. CASE fileLock[h] = t /\ fd[t] = NoFd
  <2>1. Finish(t, "errno") /\ Unlock(t)
    BY <1>3 DEF CloseUnlock
  <2>2. \A u \in Threads \ {t} : \A g \in Handles : fileLock[g] = u => fileLock'[g] = u
    BY <2>1 DEF Unlock
  <2>3. "errno" \in Reply
    BY DEF Reply
  <2>4. QED
    BY <2>1, <2>2, <2>3, <1>1, FinishTable
<1>4. CASE fileLock[h] = t /\ fd[t] # NoFd
  <2>1. /\ pc' = [pc EXCEPT ![t] = "erase"] /\ Unlock(t)
        /\ UNCHANGED <<clientVars, req, fd>>
    BY <1>4 DEF CloseUnlock, Goto
  <2>2. /\ pc'[t] = "erase" /\ Advances(t)
    BY <2>1, <1>1 DEF Advances, Busy, NotBusy, IInv, TypeOK
  <2>3. /\ UNCHANGED <<requests, req, client, awaited, left, restarts, opened, fds>>
        /\ \A u \in Threads \ {t} : pc'[u] = pc[u] /\ fd'[u] = fd[u]
        /\ \A u \in Threads \ {t} : \A g \in Handles : fileLock[g] = u => fileLock'[g] = u
        /\ \A q : Live(q)' <=> Live(q)
        /\ \A u \in Threads : Busy(u)' <=> Busy(u)
        /\ \A u \in Threads : req[u].fh \in Handles
    BY <1>1, <2>1, <2>2, AdvanceFacts, TypeFacts DEF Unlock, Advances, IInv
  <2>4. \A g \in Handles : NotYetOpened(g)' => NotYetOpened(g)
    BY <2>2, <2>3 DEF NotYetOpened
  <2>5. StepOfOp' /\ Unopened' /\ OpenSteps' /\ Tabled'
    BY <2>2, <2>3, <2>4, <1>1 DEF IInv, TableInv, StepOfOp, Unopened, OpenSteps, Tabled
  <2>6. Stale' /\ Held' /\ Locked'
    BY <2>2, <2>3, <1>1 DEF IInv, TableInv, Stale, Held, Locked
  <2>7. ClosedFd' /\ Finished' /\ Known'
    BY <2>2, <2>3, <1>1 DEF IInv, TableInv, ClosedFd, Finished, Known
  <2>8. QED
    BY <2>5, <2>6, <2>7 DEF TableInv
<1>5. QED
  BY <1>2, <1>3, <1>4

(* The server is restarted: table, descriptors and mutexes are new. *)
LEMMA RestartTable == ASSUME IInv, Restart PROVE TableInv'
<1>1. /\ \A t \in Threads : pc'[t] = "idle" /\ ~Busy(t)'
      /\ \A h \in Handles : opened'[h] = Absent
      /\ \A f \in FDs : fds'[f] = Free
      /\ ToSet(requests') = {}
      /\ restarts' # 0
  BY ConstantsAssumption DEF Restart, Busy, NotBusy, ToSet, IInv, TypeOK
<1>2. Free \notin Handles
  BY TypeFacts DEF IInv
<1>3. StepOfOp' /\ Unopened' /\ OpenSteps' /\ Tabled'
  BY <1>1, <1>2 DEF StepOfOp, Unopened, OpenSteps, Tabled
<1>4. Stale' /\ Held' /\ Locked' /\ ClosedFd' /\ Finished' /\ Known'
  BY <1>1, <1>2 DEF Stale, Held, Locked, ClosedFd, Finished, Known
<1>5. QED
  BY <1>3, <1>4 DEF TableInv

-----------------------------------------------------------------------------
(* The types, and what the client may rely on until the first restart.     *)

(* The invariant holds at first: no handle was used. *)
LEMMA InitInv == ASSUME Init PROVE IInv
<1>1. TypeOK
  <2>1. /\ <<>> \in Seq(Requests) /\ NoRequest \in Requests
        /\ 0 \in 0..MaxIO /\ 0 \in 0..MaxRestarts
        /\ "ok" \in Reply /\ "idle" \in PCs
    BY RequestFacts, ConstantsAssumption DEF Reply, PCs
  <2>2. QED
    BY <2>1 DEF Init, TypeOK
<1>2. ToSet(<<>>) = {} /\ IsInjective(<<>>)
  BY DEF ToSet, IsInjective
<1>3. /\ \A r : ~Live(r)
      /\ \A t \in Threads : pc[t] = "idle" /\ ~Busy(t)
  BY <1>2 DEF Init, Live, Busy, NotBusy
<1>4. ClientInv
  BY <1>2, <1>3
     DEF Init, ClientInv, OnePlace, OpenAlone, LiveSent, AwaitedSent, LiveAwaited
<1>5. /\ \A h \in Handles : opened[h] = Absent /\ client[h] = "new"
      /\ \A f \in FDs : fds[f] = Free
      /\ Free \notin Handles
  BY <1>1, TypeFacts DEF Init
<1>6. TableInv
  BY <1>3, <1>5
     DEF TableInv, StepOfOp, Unopened, OpenSteps, Tabled, Stale, Held, Locked, ClosedFd,
         Finished, Known
<1>7. NoCrash
  BY DEF Init, NoCrash, AlwaysUp
<1>8. QED
  BY <1>1, <1>4, <1>6, <1>7 DEF IInv

(* The reply of a thread is typed, and so is all that it resets. *)
LEMMA FinishType ==
    ASSUME TypeOK, NEW t \in Threads, NEW reply \in Reply, Finish(t, reply)
    PROVE  /\ client' \in [Handles -> {"new", "opening", "open", "closing", "done", "failed"}]
           /\ issued' \in 0..MaxIO /\ awaited' \in SUBSET Requests
           /\ pc' \in [Threads -> PCs] /\ req' \in [Threads -> Requests]
           /\ fd' \in [Threads -> FDs \cup {NoFd}] /\ left' \in SUBSET Handles
<1>1. NoRequest \in Requests /\ "idle" \in PCs
  BY RequestFacts DEF PCs
<1>2. client' \in [Handles -> {"new", "opening", "open", "closing", "done", "failed"}]
  BY DEF Finish, TypeOK
<1>3. QED
  BY <1>1, <1>2 DEF Finish, Goto, TypeOK

(* The steps of the client keep the type. *)
LEMMA ClientType ==
    ASSUME TypeOK, \/ \E h \in Handles : Open(h) \/ ReadOrWrite(h) \/ Close(h)
                   \/ \E r \in awaited : Abandon(r)
    PROVE  TypeOK'
<1>1. ASSUME NEW r \in Requests, Issue(r),
             client' \in [Handles -> {"new", "opening", "open", "closing", "done", "failed"}],
             issued' \in 0..MaxIO, UNCHANGED left
      PROVE  TypeOK'
  <2>1. requests' = Append(requests, r) /\ pc' \in [Threads -> PCs]
    BY <1>1, PushFacts DEF Issue
  <2>2. requests' \in Seq(Requests)
    BY <2>1, AppendFacts DEF TypeOK
  <2>3. QED
    BY <1>1, <2>1, <2>2 DEF Issue, TypeOK, processVars
<1>2. ASSUME NEW h \in Handles, Open(h) PROVE TypeOK'
  <2>1. Issue(OpenOf(h)) /\ OpenOf(h) \in Requests
    BY <1>2, RequestFacts DEF Open, OpenOf
  <2>2. QED
    BY <1>1, <1>2, <2>1 DEF Open, TypeOK
<1>3. ASSUME NEW h \in Handles, ReadOrWrite(h) PROVE TypeOK'
  <2>1. issued' \in 1..MaxIO
    BY <1>3, ConstantsAssumption DEF ReadOrWrite, TypeOK
  <2>2. [op |-> "io", fh |-> h, k |-> issued'] \in Requests
    BY <2>1 DEF Requests
  <2>3. issued' \in 0..MaxIO
    BY <2>1, ConstantsAssumption
  <2>4. QED
    BY <1>1, <1>3, <2>2, <2>3 DEF ReadOrWrite, TypeOK
<1>4. ASSUME NEW h \in Handles, Close(h) PROVE TypeOK'
  <2>1. Issue(CloseOf(h)) /\ CloseOf(h) \in Requests
    BY <1>4, RequestFacts DEF Close, CloseOf
  <2>2. QED
    BY <1>1, <1>4, <2>1 DEF Close, TypeOK
<1>5. ASSUME NEW r \in awaited, Abandon(r) PROVE TypeOK'
  <2>1. r.fh \in Handles
    BY RequestFacts DEF TypeOK
  <2>2. client' \in [Handles -> {"new", "opening", "open", "closing", "done", "failed"}]
    BY <1>5, <2>1 DEF Abandon, TypeOK
  <2>3. QED
    BY <1>5, <2>1, <2>2 DEF Abandon, TypeOK, serverVars, processVars
<1>6. QED
  BY <1>2, <1>3, <1>4, <1>5

(* The steps of a thread keep the type. *)
LEMMA WorkType == ASSUME IInv, NEW t \in Threads, Work(t) PROVE TypeOK'
<1> USE DEF IInv, Goto, clientVars, processVars
<1>1. /\ {"idle", "ended", "sleep", "blocked", "open", "register", "lookup", "lockfile", "verify",
          "seek", "transfer", "close", "unlock", "erase"} \subseteq PCs
      /\ {"ok", "errno"} \subseteq Reply
      /\ req[t].fh \in Handles /\ NoFd \notin FDs /\ Absent \notin FDs
      /\ \A op : AfterLookup(op) \in {"verify", "close", "seek"}
  BY TypeFacts DEF PCs, Reply, AfterLookup
<1>2. CASE Sleep(t) \/ Block(t) \/ QuitThread(t)
  BY <1>1, <1>2 DEF Sleep, Block, QuitThread, TypeOK
<1>3. CASE Dispatch(t)
  <2>1. Head(requests) \in Requests /\ Tail(requests) \in Seq(Requests)
    BY <1>3, TailFacts DEF Dispatch, TypeOK
  <2>2. QED
    BY <1>1, <1>3, <2>1 DEF Dispatch, TypeOK
<1>4. CASE OpenFile(t)
  BY <1>1, <1>4 DEF OpenFile, TypeOK
<1>5. CASE Register(t)
  <2>1. fd[t] \in FDs
    BY <1>5 DEF Register, TableInv, OpenSteps
  <2>2. QED
    BY <1>1, <1>5, <2>1 DEF Register, TypeOK
<1>6. CASE Lookup(t)
  <2>1. opened[req[t].fh] \in FDs
    BY <1>1, <1>6 DEF Lookup, TypeOK
  <2>2. QED
    BY <1>1, <1>6, <2>1 DEF Lookup, TypeOK
<1>7. CASE LookupUnknown(t) \/ LockFile(t) \/ Seek(t)
  <2>1. CASE LookupUnknown(t)
    <3>1. /\ fd' = [fd EXCEPT ![t] = NoFd] /\ pc' = [pc EXCEPT ![t] = AfterLookup(req[t].op)]
          /\ UNCHANGED <<clientVars, requests, req, opened, tableLock, fileLock, fds,
                         processVars>>
      BY <2>1 DEF LookupUnknown
    <3>2. QED
      BY <1>1, <3>1 DEF TypeOK
  <2>2. CASE LockFile(t)
    BY <1>1, <2>2 DEF LockFile, TypeOK
  <2>3. CASE Seek(t)
    BY <1>1, <2>3 DEF Seek, TypeOK
  <2>4. QED
    BY <1>7, <2>1, <2>2, <2>3
<1>8. CASE CloseFd(t)
  BY <1>1, <1>8 DEF CloseFd, TypeOK
<1>9. Unlock(t) => fileLock' \in [Handles -> Threads \cup {None}]
  BY DEF Unlock, TypeOK
<1>10. CASE OpenError(t) \/ Erase(t)
  BY <1>1, <1>10, FinishType DEF OpenError, Erase, TypeOK
<1>11. CASE Verified(t) \/ SeekFails(t) \/ Transfer(t)
  BY <1>1, <1>9, <1>11, FinishType DEF Verified, SeekFails, Transfer, TypeOK
<1>12. CASE CloseUnlock(t)
  BY <1>1, <1>9, <1>12, FinishType DEF CloseUnlock, TypeOK
<1>13. QED
  BY <1>2, <1>3, <1>4, <1>5, <1>6, <1>7, <1>8, <1>10, <1>11, <1>12 DEF Work

(* Stop and restart keep the type. *)
LEMMA ServerType == ASSUME TypeOK, Stop \/ Restart \/ UNCHANGED vars PROVE TypeOK'
<1>1. CASE Stop
  BY <1>1 DEF Stop, TypeOK, clientVars, PCs
<1>2. CASE Restart
  <2>1. <<>> \in Seq(Requests) /\ NoRequest \in Requests /\ "idle" \in PCs
    BY RequestFacts DEF PCs
  <2>2. restarts + 1 \in 0..MaxRestarts
    BY <1>2, ConstantsAssumption DEF Restart, TypeOK
  <2>3. QED
    BY <1>2, <2>1, <2>2 DEF Restart, TypeOK, clientVars
<1>3. CASE UNCHANGED vars
  BY <1>3 DEF vars, clientVars, TypeOK
<1>4. QED
  BY <1>1, <1>2, <1>3

(* The exception of process_close needs a handle that the server does not know. *)
LEMMA StepKnown == ASSUME IInv, [Next]_vars PROVE NoCrash'
<1> USE DEF NoCrash, AlwaysUp
<1>1. CASE UNCHANGED <<crashed, restarts>>
  BY <1>1 DEF IInv
<1>2. ASSUME NEW t \in Threads, CloseUnlock(t) PROVE NoCrash'
  <2>1. pc[t] = "unlock" /\ restarts' = restarts
    BY <1>2 DEF CloseUnlock
  <2>2. restarts = 0 => fileLock[req[t].fh] = t
    BY <2>1 DEF IInv, TableInv, Known
  <2>3. fileLock[req[t].fh] = t => crashed' = crashed
    BY <1>2 DEF CloseUnlock
  <2>4. QED
    BY <2>1, <2>2, <2>3 DEF IInv
<1>3. CASE Restart
  <2>1. restarts' # 0
    BY <1>3, ConstantsAssumption DEF Restart, IInv, TypeOK
  <2>2. QED
    BY <2>1
<1>4. ASSUME NEW t \in Threads, Work(t) PROVE NoCrash'
  <2>1. CASE \/ Sleep(t) \/ Block(t) \/ Dispatch(t) \/ QuitThread(t)
             \/ OpenFile(t) \/ Register(t) \/ Lookup(t) \/ LookupUnknown(t) \/ LockFile(t)
             \/ Seek(t) \/ CloseFd(t) \/ OpenError(t) \/ Verified(t) \/ SeekFails(t)
             \/ Transfer(t) \/ Erase(t)
    BY <2>1, <1>1
       DEF Sleep, Block, Dispatch, QuitThread, OpenFile, Register, Lookup, LookupUnknown,
           LockFile, Seek, CloseFd, OpenError, Verified, SeekFails, Transfer, Erase, processVars
  <2>2. QED
    BY <1>2, <1>4, <2>1 DEF Work
<1>5. CASE \/ \E h \in Handles : Open(h) \/ ReadOrWrite(h) \/ Close(h)
           \/ \E r \in awaited : Abandon(r)
           \/ Stop \/ UNCHANGED vars
  BY <1>5, <1>1
     DEF Open, ReadOrWrite, Close, Issue, Abandon, Stop, vars, serverVars, processVars
<1>6. QED
  BY <1>3, <1>4, <1>5 DEF Next, Done

(* Every step keeps the invariant. *)
LEMMA StepInv == IInv /\ [Next]_vars => IInv'
<1> SUFFICES ASSUME IInv, [Next]_vars PROVE IInv'
  OBVIOUS
<1>1. ASSUME NEW h \in Handles, Open(h) \/ ReadOrWrite(h) \/ Close(h) PROVE IInv'
  <2>1. TypeOK'
    BY <1>1, ClientType DEF IInv
  <2>2. ClientInv'
    BY <1>1, OpenClient, ReadOrWriteClient, CloseClient DEF IInv
  <2>3. TableInv'
    BY <1>1, ClientTable
  <2>4. QED
    BY <2>1, <2>2, <2>3, StepKnown DEF IInv
<1>2. ASSUME NEW r \in awaited, Abandon(r) PROVE IInv'
  <2>1. TypeOK'
    BY <1>2, ClientType DEF IInv
  <2>2. ClientInv' /\ TableInv'
    BY <1>2, AbandonClient, AbandonTable DEF IInv
  <2>3. QED
    BY <2>1, <2>2, StepKnown DEF IInv
<1>3. ASSUME NEW t \in Threads, Work(t) PROVE IInv'
  <2>1. TypeOK'
    BY <1>3, WorkType
  <2>2. ClientInv' /\ TableInv'
    <3>1. CASE Sleep(t) \/ Block(t) \/ QuitThread(t)
      <4>1. /\ SameWork /\ \A u \in Threads : Busy(u) => pc'[u] = pc[u]
            /\ UNCHANGED <<clientVars, fd, opened, fileLock, fds, restarts>>
        BY <3>1 DEF Sleep, Block, QuitThread, SameWork, Busy, NotBusy, Goto, processVars,
                    IInv, TypeOK
      <4>2. QED
        BY <4>1, SameWorkClient, QuietTable DEF IInv
    <3>2. CASE Dispatch(t)
      BY <3>2, DispatchClient, DispatchTable DEF IInv
    <3>3. CASE \/ OpenFile(t) \/ Register(t) \/ Lookup(t) \/ LookupUnknown(t) \/ LockFile(t)
               \/ Seek(t) \/ CloseFd(t)
      <4>1. Busy(t) /\ Busy(t)' /\ \A u \in Threads \ {t} : pc'[u] = pc[u]
        BY <3>3 DEF OpenFile, Register, Lookup, LookupUnknown, LockFile, Seek, CloseFd, Goto,
                    AfterLookup, Busy, NotBusy, IInv, TypeOK
      <4>2. UNCHANGED <<clientVars, requests, req>>
        BY <3>3 DEF OpenFile, Register, Lookup, LookupUnknown, LockFile, Seek, CloseFd
      <4>3. SameWork
        BY <4>1, <4>2 DEF SameWork, Busy
      <4>4. ClientInv'
        BY <4>2, <4>3, SameWorkClient DEF IInv
      <4>5. QED
        BY <3>3, <4>4, OpenFileTable, RegisterTable, LookupTable, LookupUnknownTable,
           LockFileTable, SeekTable, CloseFdTable
    <3>4. CASE OpenError(t) \/ Verified(t) \/ SeekFails(t) \/ Transfer(t) \/ Erase(t)
      <4>1. /\ Busy(t) /\ UNCHANGED requests
            /\ \E reply \in Reply : Finish(t, reply)
        BY <3>4 DEF OpenError, Verified, SeekFails, Transfer, Erase, Busy, NotBusy, Reply
      <4>2. ClientInv'
        BY <4>1, FinishClient DEF IInv
      <4>3. QED
        BY <3>4, <4>2, FinishesTable
    <3>5. CASE CloseUnlock(t)
      <4>1. pc[t] = "unlock" /\ Busy(t) /\ UNCHANGED requests /\ "errno" \in Reply
        BY <3>5 DEF CloseUnlock, Busy, NotBusy, Reply
      <4>2. \/ Finish(t, "errno")
            \/ UNCHANGED <<clientVars, req, pc>>
            \/ UNCHANGED <<clientVars, req>> /\ pc' = [pc EXCEPT ![t] = "erase"]
        BY <3>5 DEF CloseUnlock, Goto
      <4>3. ASSUME Finish(t, "errno") PROVE ClientInv'
        BY <4>1, <4>3, FinishClient DEF IInv
      <4>4. ASSUME UNCHANGED <<clientVars, req>>, pc' \in {pc, [pc EXCEPT ![t] = "erase"]}
            PROVE  ClientInv'
        <5>1. SameWork
          BY <4>1, <4>4 DEF SameWork, Busy, NotBusy, IInv, TypeOK
        <5>2. QED
          BY <4>4, <5>1, SameWorkClient DEF IInv
      <4>5. ClientInv'
        BY <4>2, <4>3, <4>4
      <4>6. QED
        BY <3>5, <4>5, CloseUnlockTable
    <3>6. QED
      BY <1>3, <3>1, <3>2, <3>3, <3>4, <3>5 DEF Work
  <2>3. QED
    BY <2>1, <2>2, StepKnown DEF IInv
<1>4. CASE Stop \/ UNCHANGED vars
  <2>1. /\ SameWork /\ \A t \in Threads : Busy(t) => pc'[t] = pc[t]
        /\ UNCHANGED <<clientVars, fd, opened, fileLock, fds, restarts>>
    BY <1>4 DEF Stop, vars, SameWork, Busy, NotBusy, clientVars
  <2>2. TypeOK' /\ ClientInv' /\ TableInv'
    BY <1>4, <2>1, ServerType, SameWorkClient, QuietTable DEF IInv
  <2>3. QED
    BY <2>2, StepKnown DEF IInv
<1>5. CASE Restart
  BY <1>5, ServerType, RestartClient, RestartTable, StepKnown DEF IInv
<1>6. QED
  BY <1>1, <1>2, <1>3, <1>4, <1>5 DEF Next, Done

-----------------------------------------------------------------------------
(* The theorems.                                                           *)

(* The inductive invariant holds in every reachable state: the commands under way
   are those the client may have sent, and the table, the descriptors and what the
   threads hold agree. *)
THEOREM Invariance == Spec => []IInv
<1>1. Init => IInv
  BY InitInv
<1>2. QED
  BY <1>1, StepInv, PTL DEF Spec

(* The state of the open files keeps its type. *)
THEOREM TypeCorrect == Spec => []TypeOK
<1>1. IInv => TypeOK
  BY DEF IInv
<1>2. QED
  BY <1>1, Invariance, PTL

(* Neither assert of process_open can fail, whatever other threads open and close
   meanwhile. *)
THEOREM AssertsHold == Spec => []OpenAsserts
<1>1. ASSUME IInv PROVE OpenAsserts
  <2> SUFFICES ASSUME NEW t \in Threads
               PROVE  /\ pc[t] = "register" => opened[req[t].fh] = Absent
                      /\ pc[t] = "verify" => fd[t] # NoFd /\ fds[fd[t]] = req[t].fh
    BY DEF OpenAsserts
  <2>1. CASE pc[t] = "register"
    BY <1>1, <2>1 DEF IInv, TableInv, OpenSteps
  <2>2. CASE pc[t] = "verify"
    <3>1. req[t].op = "open" /\ fd[t] \in FDs /\ NoFd \notin FDs
      BY <1>1, <2>2, TypeFacts DEF IInv, TableInv, StepOfOp, Held
    <3>2. fd[t] = opened[req[t].fh] /\ fds[opened[req[t].fh]] = req[t].fh
      BY <1>1, <2>2, <3>1 DEF IInv, TableInv, Held, OpenSteps
    <3>3. QED
      BY <2>2, <3>1, <3>2
  <2>3. QED
    BY <2>1, <2>2
<1>2. QED
  BY <1>1, Invariance, PTL

(* A command of a handle of which nothing was given up is one the client waits for,
   and what its thread took from the table is there and of the same file. *)
LEMMA HeldIsCurrent ==
    ASSUME IInv, NEW t \in Threads,
           pc[t] \in {"lockfile", "verify", "seek", "transfer", "close"},
           fd[t] # NoFd, req[t].fh \notin left
    PROVE  /\ fd[t] \in FDs /\ fd[t] = opened[req[t].fh]
           /\ fds[fd[t]] = req[t].fh
<1> DEFINE h == req[t].fh
           r == req[t]
<1>1. /\ h \in Handles /\ r \in Requests /\ Busy(t) /\ Live(r) /\ fd[t] \in FDs
      /\ Absent \notin FDs /\ r.op \in {"open", "io", "close"}
      /\ r.op = "close" => r = CloseOf(h)
  BY TypeFacts, RequestFacts DEF IInv, TypeOK, Busy, NotBusy, Live
<1>2. r \in awaited
  BY <1>1 DEF IInv, ClientInv, LiveAwaited
<1>3. fd[t] = opened[h]
  BY <1>2 DEF IInv, TableInv, Held
<1>4. CASE r.op = "open"
  <2>1. pc[t] \in {"lockfile", "verify"}
    BY <1>4 DEF IInv, TableInv, StepOfOp
  <2>2. QED
    BY <1>1, <1>3, <1>4, <2>1 DEF IInv, TableInv, OpenSteps
<1>5. CASE r.op = "io"
  <2>1. client[h] = "open"
    BY <1>2, <1>5 DEF IInv, ClientInv, AwaitedSent
  <2>2. QED
    BY <1>1, <1>3, <2>1 DEF IInv, TableInv, Stale
<1>6. CASE r.op = "close"
  BY <1>1, <1>3, <1>6 DEF IInv, TableInv, Stale
<1>7. QED
  BY <1>1, <1>3, <1>4, <1>5, <1>6

(* A thread does its I/O, and its close(), on the file of the handle it was asked
   for. *)
THEOREM RightDescriptor == Spec => []IOHitsItsFile
<1>1. ASSUME IInv PROVE IOHitsItsFile
  BY <1>1, HeldIsCurrent DEF IOHitsItsFile
<1>2. QED
  BY <1>1, Invariance, PTL

(* process_close erases no File that a thread has locked or refers to. *)
THEOREM NoDanglingRef == Spec => []RefsAlive
<1>1. ASSUME IInv PROVE RefsAlive
  BY <1>1, HeldIsCurrent, TypeFacts DEF RefsAlive, IInv
<1>2. QED
  BY <1>1, Invariance, PTL

(* At most one thread is between lseek and read or write of a descriptor: the mutex
   of the File excludes the threads of one handle, and two handles never share a
   descriptor. *)
THEOREM OneIOAtATime == Spec => []SerializedIO
<1>1. ASSUME IInv PROVE SerializedIO
  <2> SUFFICES ASSUME NEW s \in Threads, NEW t \in Threads, s # t,
                      pc[s] = "transfer", pc[t] = "transfer",
                      req[s].fh \notin left, req[t].fh \notin left, fd[s] = fd[t]
               PROVE  FALSE
    BY DEF SerializedIO
  <2>1. fd[s] # NoFd /\ fd[t] # NoFd
    BY <1>1, TypeFacts DEF IInv, TableInv, Held
  <2>2. req[s].fh = req[t].fh
    BY <1>1, <2>1, HeldIsCurrent
  <2>3. fileLock[req[s].fh] = s /\ fileLock[req[t].fh] = t
    BY <1>1, <2>1 DEF IInv, TableInv, Locked
  <2>4. QED
    BY <2>2, <2>3
<1>2. QED
  BY <1>1, Invariance, PTL

(* Until it is restarted, the server knows the handles its client uses: no exception
   ends it, and a command that is awaited has an open descriptor. *)
THEOREM KnownHandles == Spec => []HandlesKnown
<1>1. ASSUME IInv PROVE HandlesKnown
  <2>1. restarts = 0 => AlwaysUp
    BY <1>1 DEF IInv, NoCrash
  <2>2. ASSUME restarts = 0, NEW t \in Threads, req[t] \in awaited,
               pc[t] \in {"seek", "transfer", "close"}
        PROVE  IsOpen(fd[t])
    <3> DEFINE h == req[t].fh
    <3>1. /\ h \in Handles /\ Free \notin Handles /\ NoFd \notin FDs
          /\ Busy(t) /\ req[t] \in Requests
      BY <1>1, <2>2, TypeFacts, RequestFacts DEF IInv, Busy, NotBusy, TypeOK, FDs, NoFd
    <3>2. req[t].op = (IF pc[t] = "close" THEN "close" ELSE "io")
      BY <1>1, <2>2 DEF IInv, TableInv, StepOfOp
    <3>3. fd[t] # NoFd
      BY <1>1, <2>2, <3>1 DEF IInv, TableInv, Known, Held
    <3>4. fd[t] \in FDs /\ fd[t] = opened[h]
      BY <1>1, <2>2, <3>2, <3>3 DEF IInv, TableInv, Held, TypeOK
    <3>5. opened[h] # Absent
      BY <1>1, <3>4, TypeFacts DEF IInv
    <3>6. fds[fd[t]] = h
      <4>1. CASE pc[t] = "close"
        <5>1. req[t] = CloseOf(h)
          BY <3>1, <3>2, <4>1, RequestFacts
        <5>2. QED
          BY <1>1, <3>1, <3>4, <3>5, <4>1, <5>1 DEF IInv, TableInv, Stale
      <4>2. CASE pc[t] # "close"
        <5>1. client[h] = "open"
          BY <1>1, <2>2, <3>2, <4>2 DEF IInv, ClientInv, AwaitedSent
        <5>2. QED
          BY <1>1, <3>1, <3>4, <3>5, <5>1 DEF IInv, TableInv, Stale
      <4>3. QED
        BY <4>1, <4>2
    <3>7. QED
      BY <3>1, <3>3, <3>6 DEF IsOpen
  <2>3. QED
    BY <2>1, <2>2 DEF HandlesKnown
<1>2. QED
  BY <1>1, Invariance, PTL

(* When all handles are closed and nothing is under way, no descriptor is open and
   the table is empty, but for what was given up and failed closes. *)
THEOREM EverythingClosed == Spec => []NoFdLeak
<1>1. ASSUME IInv PROVE NoFdLeak
  BY <1>1 DEF NoFdLeak, Quiet, IInv, TableInv, Finished, Unopened, NotYetOpened
<1>2. QED
  BY <1>1, Invariance, PTL
=============================================================================
