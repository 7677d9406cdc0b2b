---------------------------- MODULE ClientFiles ----------------------------
(***************************************************************************)
(* The open files of the client: the calls of CachedVfs on files, its      *)
(* table of opened files, the cached content and sizes of their paths, and *)
(* the files and handles of the server, changed by several FUSE threads.   *)
(* The cache lock is not held during commands to the server, so a call is  *)
(* two steps or more: what the server does, then what the client keeps of  *)
(* it, under the lock.  Before its first command a call looks at nothing   *)
(* that other calls change.  A read the cache answers changes nothing.     *)
(* A load is two steps as well, and a command may be executed after the    *)
(* call that sent it has failed.                                           *)
(*                                                                         *)
(* A file is a short sequence of blocks, a block the number of the write   *)
(* that wrote it.  The kernel reads a page of PageSize blocks at a time,   *)
(* and a write is of one block, which the server writes or not: FileIO is  *)
(* about the fragments of a longer one.                                    *)
(* What blocks the cache has of a path is a function here; module Content  *)
(* is about the lists of bytes it keeps for that, and CachedTree about     *)
(* directories, and what their calls and loads do to them.                 *)
(***************************************************************************)
EXTENDS Naturals, Sequences, FiniteSets

CONSTANTS
    Threads,     \* FUSE threads
    Paths,
    NoPath,
    PageSize,    \* bound: blocks of a file; the kernel reads all of them
    MaxCalls,    \* bound: calls, those with a late command included
    MaxEdits,    \* bound: files changed on the server by others
    CanFail      \* a command may fail, and it or its answer be late

ASSUME ConstantsAssumption ==
    /\ IsFiniteSet(Threads) /\ IsFiniteSet(Paths)
    /\ NoPath \notin Paths
    /\ PageSize \in Nat \ {0}
    /\ {MaxCalls, MaxEdits} \subseteq Nat
    /\ CanFail \in BOOLEAN

Blocks == 1..PageSize
None == 0        \* no file, no handle

Inodes == 1..(MaxCalls + 1)
Handles == 1..(MaxCalls + 2)
Versions == 0..(MaxCalls + MaxEdits + 1)
Zeros == 0                            \* a block of a hole
Garbage == MaxCalls + MaxEdits + 2    \* a buffer behind what was read into it
Unknown == MaxCalls + MaxEdits + 3    \* a block that is not cached
Absent == PageSize + 1                \* size of a path the cached tree has not

Content == UNION {[1..n -> Versions] : n \in 0..PageSize}

VARIABLES
    dir,      \* served paths: the file each names
    data,     \* content of the files
    remote,   \* Worker::m_opened_files: the file of each handle
    issued,   \* number of handles RemoteVfs has dispensed
    opened,   \* CachedVfs::m_opened_files: path and handle of the server
    files,    \* the kernel's open files: what was opened, and its path by now
    opens,    \* number of handles CachedVfs has dispensed
    cached,   \* Cache::m_content: blocks of each path
    sizes,    \* Cache::m_tree: st_size of each path
    call,     \* what each thread does
    calls,
    edits,
    load,     \* where the BackgroundLoader is
    scan,     \* the sizes of the tree it was sent
    behind,   \* history: paths whose file on the server changed since it was scanned
    stale,    \* history: cached blocks that need not be what is served
    unsized,  \* history: paths whose cached size need not be the one served
    lost,     \* history: handles of the server that the client forgot
    moved,    \* history: handles opened late, when their path named another file
    due       \* history: since the last load, a file was changed by others, or late

serverVars == <<dir, data, remote, issued>>
tableVars == <<opened, files, opens>>
cacheVars == <<cached, sizes>>
loadVars == <<load, scan, behind>>
historyVars == <<stale, unsized, lost, moved, due>>
vars == <<serverVars, tableVars, cacheVars, call, calls, edits, loadVars, historyVars>>

NotOpen == [path |-> NoPath, sub |-> None]
NoFile == [path |-> NoPath, file |-> None]

Ops == {"create", "open", "close", "fetch", "read", "write", "truncate", "unlink",
        "rename", "rename directory", "exchange"}

\* p, q: the paths; h, sub: the handles of client and server; b: the block written;
\* got: the blocks read or written; overtaken: the file was changed since,
\* or the tree loaded.
Call == [op : Ops \cup {"none"}, p : Paths \cup {NoPath}, q : Paths \cup {NoPath},
         h : Handles \cup {None}, sub : Handles \cup {None}, b : Blocks \cup {0},
         got : Content, overtaken : BOOLEAN]

NoCall == [op |-> "none", p |-> NoPath, q |-> NoPath, h |-> None, sub |-> None,
           b |-> 0, got |-> <<>>, overtaken |-> FALSE]

FilesTypeOK ==
    /\ dir \in [Paths -> Inodes \cup {None}]
    /\ data \in [Inodes -> Content]
    /\ remote \in [Handles -> Inodes \cup {None}]
    /\ {issued, opens} \subseteq Handles \cup {None}
    /\ opened \in [Handles -> [path : Paths \cup {NoPath}, sub : Handles \cup {None}]]
    /\ files \in [Handles -> [path : Paths \cup {NoPath}, file : Inodes \cup {None}]]
    /\ cached \in [Paths -> [Blocks -> Versions \cup {Garbage, Unknown}]]
    /\ sizes \in [Paths -> 0..Absent]
    /\ call \in [Threads -> Call]
    /\ calls \in 0..MaxCalls
    /\ edits \in 0..MaxEdits
    /\ stale \subseteq Paths \X Blocks
    /\ unsized \subseteq Paths
    /\ lost \cup moved \subseteq Handles
    /\ due \in BOOLEAN

LoadTypeOK ==
    /\ load \in {"idle", "populate", "preload"}
    /\ scan \in [Paths -> 0..Absent]
    /\ behind \subseteq Paths

TypeOK == FilesTypeOK /\ LoadTypeOK

Nothing == [b \in Blocks |-> Unknown]
NoTree == [p \in Paths |-> Absent]

\* What a read into a page makes of what it got.
Page(got) == [b \in Blocks |-> IF b \in DOMAIN got THEN got[b] ELSE Garbage]

\* A file of one block or more that a program has open for writing, for reading, both, or
\* not at all.
Init ==
    /\ \E p \in Paths, n \in Blocks, subs \in {<<>>, <<1>>, <<None>>, <<1, None>>} :
        /\ dir = [q \in Paths |-> IF q = p THEN 1 ELSE None]
        /\ data = [i \in Inodes |-> IF i = 1 THEN [b \in 1..n |-> 1] ELSE <<>>]
        /\ sizes = [q \in Paths |-> IF q = p THEN n ELSE Absent]
        /\ issued = IF 1 \in {subs[h] : h \in DOMAIN subs} THEN 1 ELSE 0
        /\ remote = [h \in Handles |-> IF h = issued THEN 1 ELSE None]
        /\ opens = Len(subs)
        /\ opened = [h \in Handles |-> IF h \in DOMAIN subs THEN [path |-> p, sub |-> subs[h]]
                                        ELSE NotOpen]
        /\ files = [h \in Handles |-> IF h \in DOMAIN subs THEN [path |-> p, file |-> 1]
                                       ELSE NoFile]
    /\ cached = [p \in Paths |-> Nothing]
    /\ call = [t \in Threads |-> NoCall]
    /\ calls = 0
    /\ edits = 0
    /\ load = "idle"
    /\ scan = NoTree
    /\ behind = {}
    /\ stale = {}
    /\ unsized = {}
    /\ lost = {}
    /\ moved = {}
    /\ due = FALSE

-----------------------------------------------------------------------------
(* The kernel and libfuse: which calls are made, and which wait for others. *)

\* A call that names no handle works on its paths, the others on the file's.
PathsOf(c) == IF c.h # None THEN {files[c.h].path} ELSE {c.p, c.q} \ {NoPath}

Namespace == {"create", "unlink", "rename", "rename directory", "exchange"}

\* Locks of paths, of the inode, and of the page.
Conflict(c, d) ==
    /\ PathsOf(c) \cap PathsOf(d) # {}
    /\ \/ {c.op, d.op} \cap Namespace # {}
       \/ {c.op, d.op} \subseteq {"write", "truncate"}
       \/ {c.op, d.op} \in {{"write", "read"}, {"write", "fetch"}}

\* A thread begins a call; its first command is executed.
Begin(t, c) ==
    /\ call[t] = NoCall
    /\ calls < MaxCalls
    /\ \A u \in Threads : call[u] # NoCall => ~Conflict(c, call[u])
    /\ calls' = calls + 1
    /\ UNCHANGED <<cacheVars, edits, due>>

\* The call in thread t has returned.
Return(t) == call' = [call EXCEPT ![t] = NoCall]

PathsTo(file) == {p \in Paths : dir[p] = file}

\* A file is changed: the calls under way on it, or on its path, are overtaken.
Overtaken(cs, file) ==
    [t \in Threads |-> IF \/ cs[t].sub # None /\ remote[cs[t].sub] = file
                          \/ {cs[t].p, cs[t].q} \cap PathsTo(file) # {}
                       THEN [cs[t] EXCEPT !.overtaken = TRUE] ELSE cs[t]]

IsOpen(h) == files[h] # NoFile /\ \A t \in Threads : call[t].op = "close" => call[t].h # h

\* libfuse renames an open file instead of removing it.
Unused(p) == \A h \in Handles : files[h].path # p

NextVersion == calls + edits + 2
NextFile == calls + 2

-----------------------------------------------------------------------------
(* create, open and close.                                                 *)

\* The server opens file.
Opening(file) ==
    /\ issued' = issued + 1
    /\ remote' = [remote EXCEPT ![issued'] = file]

\* An entry for the handle the call returns.
NewEntry(p, sub, file) ==
    /\ opens' = opens + 1
    /\ opened' = [opened EXCEPT ![opens'] = [path |-> p, sub |-> sub]]
    /\ files' = [files EXCEPT ![opens'] = [path |-> p, file |-> file]]

\* CachedVfs::create, the command: O_CREAT opens a file that is there.
Create(t, p) ==
    LET c == [NoCall EXCEPT !.op = "create", !.p = p, !.sub = issued + 1]
        file == IF dir[p] = None THEN NextFile ELSE dir[p]
    IN  /\ Begin(t, c)
        /\ sizes[p] = Absent
        /\ dir' = [dir EXCEPT ![p] = file]
        /\ Opening(file)
        /\ call' = [call EXCEPT ![t] = c]
        /\ UNCHANGED <<data, tableVars, stale, unsized, lost, moved>>

\* open of a file for reading only: nothing is sent.
OpenLater(t, p) ==
    /\ Begin(t, [NoCall EXCEPT !.op = "open", !.p = p])
    /\ sizes[p] # Absent
    /\ NewEntry(p, None, dir[p])
    /\ UNCHANGED <<serverVars, call, stale, unsized, lost, moved>>

\* open for writing, with O_TRUNC or not; the content stays in the cache, and the size.
OpenNow(t, p, trunc) ==
    LET c == [NoCall EXCEPT !.op = "open", !.p = p, !.sub = issued + 1]
    IN  /\ Begin(t, c)
        /\ sizes[p] # Absent
        /\ dir[p] # None
        /\ Opening(dir[p])
        /\ IF trunc
           THEN /\ data' = [data EXCEPT ![dir[p]] = <<>>]
                /\ call' = Overtaken([call EXCEPT ![t] = c], dir[p])
                /\ stale' = stale \cup ({p} \X Blocks)
                /\ unsized' = unsized \cup {p}
           ELSE /\ call' = [call EXCEPT ![t] = c]
                /\ UNCHANGED <<data, stale, unsized>>
        /\ UNCHANGED <<dir, tableVars, lost, moved>>

\* The end of open.
OpenDone(t) ==
    /\ call[t].op = "open"
    /\ NewEntry(call[t].p, call[t].sub, remote[call[t].sub])
    /\ Return(t)
    /\ UNCHANGED <<serverVars, cacheVars, calls, edits, historyVars>>

\* The end of create: the attributes of the path, then make_node, which throws if the
\* cached tree has the path.
CreateDone(t) ==
    LET c == call[t]
    IN  /\ c.op = "create"
        /\ dir[c.p] # None /\ sizes[c.p] = Absent
        /\ sizes' = [sizes EXCEPT ![c.p] = Len(data[dir[c.p]])]
        /\ NewEntry(c.p, c.sub, remote[c.sub])
        /\ Return(t)
        /\ UNCHANGED <<serverVars, cached, calls, edits, historyVars>>

\* The handle of the server is forgotten.
OpenFails(t) ==
    LET c == call[t]
    IN  /\ c.op \in {"create", "open"}
        /\ CanFail \/ (c.op = "create" /\ sizes[c.p] # Absent)
        /\ lost' = lost \cup {c.sub}
        /\ unsized' = IF c.op = "create" THEN unsized \cup {c.p} ELSE unsized
        /\ Return(t)
        /\ UNCHANGED <<serverVars, tableVars, cacheVars, calls, edits, stale, moved, due>>

\* Mutant of Close: only the entry goes.
CloseLocally(t, h) ==
    LET c == [NoCall EXCEPT !.op = "close", !.h = h]
    IN  /\ Begin(t, c)
        /\ IsOpen(h)
        /\ \A u \in Threads : call[u].h # h
        /\ call' = [call EXCEPT ![t] = c]
        /\ UNCHANGED <<serverVars, tableVars, stale, unsized, lost, moved>>

\* CachedVfs::close, when no call on the handle is under way: the handle is looked up,
\* and closed on the server if it is open there.
Close(t, h) ==
    LET c == [NoCall EXCEPT !.op = "close", !.h = h]
    IN  /\ Begin(t, c)
        /\ IsOpen(h)
        /\ \A u \in Threads : call[u].h # h
        /\ call' = [call EXCEPT ![t] = c]
        /\ remote' = [s \in Handles |-> IF s = opened[h].sub THEN None ELSE remote[s]]
        /\ UNCHANGED <<dir, data, issued, tableVars, stale, unsized, lost, moved>>

\* The entry is erased, unless the command failed: then it stays for ever.
CloseDone(t) ==
    LET h == call[t].h
    IN  /\ call[t].op = "close"
        /\ \/ opened' = [opened EXCEPT ![h] = NotOpen]
           \/ CanFail /\ opened[h].sub # None /\ UNCHANGED opened
        /\ files' = [files EXCEPT ![h] = NoFile]
        /\ Return(t)
        /\ UNCHANGED <<serverVars, opens, cacheVars, calls, edits, historyVars>>

\* No answer comes to the command, which is executed later or never: the file is closed,
\* and the entry stays.
CloseTimesOut(t, h) ==
    /\ Begin(t, [NoCall EXCEPT !.op = "close", !.h = h])
    /\ CanFail
    /\ IsOpen(h) /\ opened[h].sub # None
    /\ \A u \in Threads : call[u].h # h
    /\ files' = [files EXCEPT ![h] = NoFile]
    /\ UNCHANGED <<serverVars, opened, opens, call, stale, unsized, lost, moved>>

-----------------------------------------------------------------------------
(* read and write.                                                         *)

\* A read of an entry without a handle opens the path it was opened by.
ReadOpen(t, h) ==
    LET p == opened[h].path
        c == [NoCall EXCEPT !.op = "fetch", !.h = h, !.sub = issued + 1]
    IN  /\ Begin(t, c)
        /\ IsOpen(h)
        /\ \E b \in Blocks : cached[p][b] = Unknown
        /\ opened[h].sub = None
        /\ dir[p] # None
        /\ sizes[files[h].path] # 0
        /\ Opening(dir[p])
        /\ call' = [call EXCEPT ![t] = c]
        /\ moved' = IF dir[p] = files[h].file THEN moved ELSE moved \cup {h}
        /\ UNCHANGED <<dir, data, tableVars, stale, unsized, lost>>

\* RemoteVfs::read, after the open...
Fetch(t) ==
    /\ call[t].op = "fetch"
    /\ call' = [call EXCEPT ![t].op = "read", ![t].got = data[remote[call[t].sub]],
                            ![t].overtaken = FALSE]
    /\ UNCHANGED <<serverVars, tableVars, cacheVars, calls, edits, historyVars>>

\* ...or with the handle of the entry.
Read(t, h) ==
    LET c == [NoCall EXCEPT !.op = "read", !.h = h, !.sub = opened[h].sub,
                            !.got = data[remote[opened[h].sub]]]
    IN  /\ IsOpen(h)
        /\ opened[h].sub # None
        /\ Begin(t, c)
        /\ \E b \in Blocks : cached[opened[h].path][b] = Unknown
        /\ sizes[files[h].path] # 0
        /\ call' = [call EXCEPT ![t] = c]
        /\ UNCHANGED <<serverVars, tableVars, stale, unsized, lost, moved>>

\* A call caches blocks that may be wrong: those of another file, or of before a change.
Doubtful(c, p) == remote[c.sub] # dir[p] \/ c.overtaken

\* Mutant of ReadDone: the handle is closed, but kept.
ReadDoneCloses(t) ==
    LET c == call[t]
        p == opened[c.h].path
    IN  /\ c.op = "read"
        /\ opened' = [opened EXCEPT ![c.h].sub = c.sub]
        /\ lost' = lost \cup ({opened[c.h].sub} \ {None, c.sub})
        /\ remote' = IF opened[c.h].sub = None THEN [remote EXCEPT ![c.sub] = None] ELSE remote
        /\ cached' = [cached EXCEPT ![p] = Page(c.got)]
        /\ stale' = {s \in stale : s[1] # p}
                        \cup ({p} \X IF Doubtful(c, p) THEN Blocks ELSE Blocks \ DOMAIN c.got)
        /\ Return(t)
        /\ UNCHANGED <<dir, data, issued, files, opens, sizes, calls, edits, unsized, moved, due>>

\* The end of read: the handle is kept, over one that another read opened, and the
\* whole buffer is cached.
ReadDone(t) ==
    LET c == call[t]
        p == opened[c.h].path
    IN  /\ c.op = "read"
        /\ opened' = [opened EXCEPT ![c.h].sub = c.sub]
        /\ lost' = lost \cup ({opened[c.h].sub} \ {None, c.sub})
        /\ cached' = [cached EXCEPT ![p] = Page(c.got)]
        /\ stale' = {s \in stale : s[1] # p}
                        \cup ({p} \X IF Doubtful(c, p) THEN Blocks ELSE Blocks \ DOMAIN c.got)
        /\ Return(t)
        /\ UNCHANGED <<serverVars, files, opens, sizes, calls, edits, unsized, moved, due>>

\* A read that fails forgets the handle it opened.
ReadFails(t) ==
    LET c == call[t]
    IN  /\ CanFail
        /\ c.op \in {"fetch", "read"}
        /\ lost' = lost \cup ({c.sub} \ {opened[c.h].sub})
        /\ Return(t)
        /\ UNCHANGED <<serverVars, tableVars, cacheVars, calls, edits, stale, unsized, moved, due>>

\* Mutant of Put: the block behind is written.
PutBehind(content, b, version) ==
    [k \in 1..(IF b >= Len(content) THEN b + 1 ELSE Len(content)) |->
        IF k = b + 1 THEN version ELSE IF k <= Len(content) THEN content[k] ELSE Zeros]

\* The block of a file is written; a gap before it is zero.
Put(content, b, version) ==
    [k \in 1..(IF b > Len(content) THEN b ELSE Len(content)) |->
        IF k = b THEN version ELSE IF k <= Len(content) THEN content[k] ELSE Zeros]

\* Where a block meant for b lands: there, nowhere, or at the end of a file opened to
\* append to, which need not be the end that the kernel knows.
Landings(content, b) == {b, None} \cup ({Len(content) + 1} \cap Blocks)

\* CachedVfs::write, the command.  The cache is only told of the path of the entry, and
\* not where the block landed.
Write(t, h, b, at) ==
    LET file == remote[opened[h].sub]
        c == [NoCall EXCEPT !.op = "write", !.h = h, !.sub = opened[h].sub, !.b = b,
                            !.got = <<NextVersion>>, !.overtaken = at # b]
        own == {opened[h].path} \cap {files[h].path}
    IN  /\ IsOpen(h)
        /\ opened[h].sub # None
        /\ Begin(t, c)
        /\ at \in Landings(data[file], b)
        /\ IF at = None
           THEN /\ call' = [call EXCEPT ![t] = c]
                /\ UNCHANGED <<data, stale, unsized>>
           ELSE /\ data' = [data EXCEPT ![file] = Put(@, at, NextVersion)]
                /\ call' = [Overtaken(call, file) EXCEPT ![t] = c]
                /\ stale' = stale \cup ((PathsTo(file) \ (IF at = b THEN own ELSE {})) \X {at})
                /\ unsized' = unsized \cup (PathsTo(file) \ own)
        /\ UNCHANGED <<dir, remote, issued, tableVars, lost, moved>>

\* The size of p is set: a call that is to move the size of p is overtaken.
Renaming(p) ==
    [t \in Threads |-> IF call[t].op \in Namespace /\ p \in {call[t].p, call[t].q}
                       THEN [call[t] EXCEPT !.overtaken = TRUE] ELSE call[t]]

\* The end of write, under the lock: the attributes of the path, its node, its content,
\* all of it wherever the server put it.
WriteDone(t) ==
    LET c == call[t]
        p == opened[c.h].path
    IN  /\ c.op = "write"
        /\ dir[p] # None /\ sizes[p] # Absent
        /\ sizes' = [sizes EXCEPT ![p] = Len(data[dir[p]])]
        /\ unsized' = unsized \ {p}
        /\ cached' = [cached EXCEPT ![p][c.b] = c.got[1]]
        /\ stale' = IF Doubtful(c, p) THEN stale \cup {<<p, c.b>>} ELSE stale \ {<<p, c.b>>}
        /\ call' = [Renaming(p) EXCEPT ![t] = NoCall]
        /\ UNCHANGED <<serverVars, tableVars, calls, edits, lost, moved, due>>

\* There are no attributes, or no node: the write fails although it was made.
WriteFails(t) ==
    LET c == call[t]
        p == opened[c.h].path
        ps == PathsTo(remote[c.sub])
    IN  /\ c.op = "write"
        /\ CanFail \/ dir[p] = None \/ sizes[p] = Absent
        /\ stale' = stale \cup (ps \X {c.b})
        /\ unsized' = unsized \cup ps
        /\ Return(t)
        /\ UNCHANGED <<serverVars, tableVars, cacheVars, calls, edits, lost, moved, due>>

-----------------------------------------------------------------------------
(* Calls on paths.                                                         *)

Resized(content, n) == [k \in 1..n |-> IF k <= Len(content) THEN content[k] ELSE Zeros]

\* CachedVfs::truncate, the command; what is behind the new end stays in the cache.
Truncate(t, p, n) ==
    LET c == [NoCall EXCEPT !.op = "truncate", !.p = p]
    IN  /\ Begin(t, c)
        /\ sizes[p] # Absent
        /\ dir[p] # None
        /\ data' = [data EXCEPT ![dir[p]] = Resized(@, n)]
        /\ call' = Overtaken([call EXCEPT ![t] = c], dir[p])
        /\ stale' = stale \cup ({p} \X (Blocks \ 1..n))
        /\ UNCHANGED <<dir, remote, issued, tableVars, unsized, lost, moved>>

\* Mutant of TruncateDone: the attributes are asked for before the command.
TruncateDoneKeepsSize(t) ==
    LET p == call[t].p
    IN  /\ call[t].op = "truncate"
        /\ dir[p] # None /\ sizes[p] # Absent
        /\ unsized' = unsized \ {p}
        /\ Return(t)
        /\ UNCHANGED <<serverVars, tableVars, cacheVars, calls, edits, stale, lost, moved, due>>

TruncateDone(t) ==
    LET p == call[t].p
    IN  /\ call[t].op = "truncate"
        /\ dir[p] # None /\ sizes[p] # Absent
        /\ sizes' = [sizes EXCEPT ![p] = Len(data[dir[p]])]
        /\ unsized' = unsized \ {p}
        /\ Return(t)
        /\ UNCHANGED <<serverVars, tableVars, cached, calls, edits, stale, lost, moved, due>>

\* Path r after p and q were renamed or exchanged.
Renamed(op, p, q, r) ==
    IF r = p THEN q ELSE IF r = q /\ op = "exchange" THEN p ELSE r

\* unlink, rename and exchange of files, and rename of a directory above them: the command.
Execute(op, p, q) ==
    /\ dir[p] # None
    /\ CASE op = "unlink" -> q = p
         [] op = "rename" -> q # p
         [] op = "rename directory" -> q # p /\ dir[q] = None
         [] op = "exchange" -> q # p /\ dir[q] # None
    /\ dir' = [r \in Paths |->
                 CASE op # "unlink" /\ r = q -> dir[p]
                   [] r = p -> IF op = "exchange" THEN dir[q] ELSE None
                   [] OTHER -> dir[r]]

Change(t, op, p, q) ==
    LET c == [NoCall EXCEPT !.op = op, !.p = p, !.q = q]
    IN  /\ Begin(t, c)
        /\ sizes[p] # Absent
        /\ op \in {"unlink", "rename"} => Unused(q)
        /\ op = "rename directory" => sizes[q] = Absent
        /\ op = "exchange" => sizes[q] # Absent
        /\ Execute(op, p, q)
        /\ call' = [call EXCEPT ![t] = c]
        /\ UNCHANGED <<data, remote, issued, tableVars, stale, unsized, lost, moved>>

CanRepeat(c) ==
    /\ sizes[c.p] # Absent
    /\ c.op \in {"rename", "rename directory"} => sizes[c.q] = Absent
    /\ c.op = "exchange" => sizes[c.q] # Absent

\* Mutant of Deleted: the old path only.
DeletedOld(c) == IF c.op = "rename directory" THEN {} ELSE {c.p}

\* The paths whose content goes: those the call names, not what is in a directory.
Deleted(c) == IF c.op = "rename directory" THEN {} ELSE {c.p, c.q}

\* Cache::remove_single, rename and exchange.  Then the kernel knows the new paths.
ChangeDone(t) ==
    LET c == call[t]
    IN  /\ c.op \in {"unlink", "rename", "rename directory", "exchange"}
        /\ CanRepeat(c)
        /\ sizes' = [r \in Paths |->
                       CASE c.op # "unlink" /\ r = c.q -> sizes[c.p]
                         [] r = c.p -> IF c.op = "exchange" THEN sizes[c.q] ELSE Absent
                         [] OTHER -> sizes[r]]
        /\ cached' = [r \in Paths |-> IF r \in Deleted(c) THEN Nothing ELSE cached[r]]
        /\ stale' = IF c.op = "rename directory" THEN stale \cup ({c.p, c.q} \X Blocks)
                    ELSE {s \in stale : s[1] \notin {c.p, c.q}}
        /\ unsized' = IF c.overtaken THEN unsized \cup {c.p, c.q}
                      ELSE IF c.op = "unlink" THEN unsized \ {c.p}
                      ELSE {Renamed(c.op, c.p, c.q, r) : r \in unsized}
        /\ files' = [h \in Handles |->
                       [files[h] EXCEPT !.path = Renamed(c.op, c.p, c.q, @)]]
        /\ Return(t)
        /\ UNCHANGED <<serverVars, opened, opens, calls, edits, lost, moved, due>>

\* The cached tree is not as expected, or no answer came: the content stays.
ChangeFails(t) ==
    LET c == call[t]
        ps == {c.p, c.q} \ {NoPath}
    IN  /\ \/ /\ c.op \in {"unlink", "rename", "rename directory", "exchange"}
              /\ CanFail \/ ~CanRepeat(c)
           \/ /\ c.op = "truncate"
              /\ CanFail \/ dir[c.p] = None \/ sizes[c.p] = Absent
        /\ stale' = stale \cup (ps \X Blocks)
        /\ unsized' = unsized \cup ps
        /\ Return(t)
        /\ UNCHANGED <<serverVars, tableVars, cacheVars, calls, edits, lost, moved, due>>

-----------------------------------------------------------------------------
(* Changes on the server, and commands that are executed late.             *)

\* A file is changed, and no call under way will tell the cache.
Unnoticed == due' = TRUE /\ UNCHANGED <<tableVars, cacheVars, stale, unsized, moved>>

\* Somebody writes or truncates a file on the server.
Edit(p, n) ==
    /\ Unnoticed
    /\ edits < MaxEdits
    /\ edits' = edits + 1
    /\ dir[p] # None
    /\ data' = [data EXCEPT ![dir[p]] = [k \in 1..n |-> NextVersion]]
    /\ call' = Overtaken(call, dir[p])
    /\ UNCHANGED <<dir, remote, issued, calls, lost>>

\* The command of a call that has failed, and had changed nothing: the call ended before.
Late ==
    /\ CanFail
    /\ Unnoticed
    /\ calls < MaxCalls
    /\ calls' = calls + 1
    /\ UNCHANGED edits

\* A write, by a handle that may have been closed in the cache meanwhile.
LateWrite(s, b) ==
    /\ Late
    /\ remote[s] # None
    /\ data' = [data EXCEPT ![remote[s]] = Put(@, b, NextVersion)]
    /\ call' = Overtaken(call, remote[s])
    /\ UNCHANGED <<dir, remote, issued, lost>>

LateTruncate(p, n) ==
    /\ Late
    /\ dir[p] # None
    /\ data' = [data EXCEPT ![dir[p]] = Resized(@, n)]
    /\ call' = Overtaken(call, dir[p])
    /\ UNCHANGED <<dir, remote, issued, lost>>

\* An open, or the open of a read, with O_TRUNC or not; its handle is not known any more.
LateOpen(p, trunc) ==
    /\ Late
    /\ dir[p] # None
    /\ Opening(dir[p])
    /\ lost' = lost \cup {issued'}
    /\ IF trunc
       THEN data' = [data EXCEPT ![dir[p]] = <<>>] /\ call' = Overtaken(call, dir[p])
       ELSE UNCHANGED <<data, call>>
    /\ UNCHANGED dir

\* A call that is about to rename p or q is overtaken.
Rerouted(p, q) ==
    [t \in Threads |-> IF call[t].op \in Namespace /\ {p, q} \cap {call[t].p, call[t].q} # {}
                       THEN [call[t] EXCEPT !.overtaken = TRUE] ELSE call[t]]

\* A create of a path that is not there.
LateCreate(p) ==
    /\ Late
    /\ dir[p] = None
    /\ dir' = [dir EXCEPT ![p] = NextFile]
    /\ Opening(NextFile)
    /\ lost' = lost \cup {issued'}
    /\ call' = Rerouted(p, p)
    /\ UNCHANGED data

LateChange(op, p, q) ==
    /\ Late
    /\ Execute(op, p, q)
    /\ call' = Rerouted(p, q)
    /\ UNCHANGED <<data, remote, issued, lost>>

\* A close: the entry was left in the table.
LateClose(h) ==
    /\ files[h] = NoFile /\ opened[h].sub # None
    /\ remote[opened[h].sub] # None
    /\ remote' = [remote EXCEPT ![opened[h].sub] = None]
    /\ UNCHANGED <<dir, data, issued, tableVars, cacheVars, call, calls, edits, historyVars>>

-----------------------------------------------------------------------------
(* Loads.                                                                  *)

\* process_read_tree.
Scan ==
    /\ load = "idle"
    /\ load' = "populate"
    /\ scan' = [p \in Paths |-> IF dir[p] = None THEN Absent ELSE Len(data[dir[p]])]
    /\ UNCHANGED <<serverVars, tableVars, cacheVars, call, calls, edits, historyVars>>

\* BackgroundLoader::populate_tree: the cache is reset and gets the tree.  The nodes of an
\* exchange under way will be exchanged again.
Populate ==
    /\ load = "populate"
    /\ load' = "preload"
    /\ scan' = NoTree
    /\ sizes' = scan
    /\ cached' = [p \in Paths |-> Nothing]
    /\ stale' = {}
    /\ unsized' = behind
    /\ due' = FALSE
    /\ call' = [t \in Threads |->
                  [call[t] EXCEPT !.overtaken = @ \/ call[t].op = "exchange"]]
    /\ UNCHANGED <<serverVars, tableVars, calls, edits, lost, moved>>

\* The tree does not come in time: the cache stays as it was.
LoadFails ==
    /\ CanFail
    /\ load = "populate"
    /\ load' = "idle"
    /\ scan' = NoTree
    /\ UNCHANGED <<serverVars, tableVars, cacheVars, call, calls, edits, historyVars>>

\* preload_files, of a file or more: it is asked for as much as the cached tree says there
\* is, and a page is filled up with zeros.  The cache lock is held meanwhile, so that this
\* is one step, at the time the file is read.
Preload(p) ==
    LET file == IF dir[p] = None THEN <<>> ELSE data[dir[p]]
        got == [b \in 1..(IF sizes[p] < Len(file) THEN sizes[p] ELSE Len(file)) |-> file[b]]
    IN  /\ load = "preload"
        /\ sizes[p] # Absent
        /\ got # <<>>
        /\ cached' = [cached EXCEPT ![p] = [b \in Blocks |-> IF b \in DOMAIN got THEN got[b]
                                                             ELSE Zeros]]
        /\ stale' = {s \in stale : s[1] # p} \cup ({p} \X (Blocks \ DOMAIN got))
        /\ UNCHANGED <<serverVars, tableVars, sizes, call, calls, edits>>
        /\ UNCHANGED <<load, scan, unsized, lost, moved, due>>

LoadEnds ==
    /\ load = "preload"
    /\ load' = "idle"
    /\ UNCHANGED <<serverVars, tableVars, cacheVars, call, calls, edits, scan, historyVars>>

-----------------------------------------------------------------------------
CallStep ==
    \/ \E t \in Threads, p \in Paths :
        \/ Create(t, p) \/ OpenLater(t, p)
        \/ \E trunc \in BOOLEAN : OpenNow(t, p, trunc)
        \/ \E n \in 0..PageSize : Truncate(t, p, n)
        \/ \E op \in Namespace \ {"create"}, q \in Paths : Change(t, op, p, q)
    \/ \E t \in Threads, h \in Handles :
        \/ Close(t, h) \/ CloseTimesOut(t, h)
        \/ ReadOpen(t, h) \/ Read(t, h)
        \/ \E b \in Blocks, at \in 0..PageSize : Write(t, h, b, at)
    \/ \E t \in Threads :
        \/ OpenDone(t) \/ CreateDone(t) \/ OpenFails(t) \/ CloseDone(t)
        \/ Fetch(t) \/ ReadDone(t) \/ ReadFails(t)
        \/ WriteDone(t) \/ WriteFails(t)
        \/ TruncateDone(t) \/ ChangeDone(t) \/ ChangeFails(t)

ServerStep ==
    \/ \E p \in Paths, n \in 0..PageSize : Edit(p, n) \/ LateTruncate(p, n)
    \/ \E s \in Handles, b \in Blocks : LateWrite(s, b)
    \/ \E p \in Paths : LateCreate(p) \/ \E trunc \in BOOLEAN : LateOpen(p, trunc)
    \/ \E op \in Namespace \ {"create"}, p, q \in Paths : LateChange(op, p, q)
    \/ \E h \in Handles : LateClose(h)

LoadStep == Scan \/ Populate \/ LoadFails \/ (\E p \in Paths : Preload(p)) \/ LoadEnds

\* Paths whose file another one replaces in this step, or that is changed.
Changed == {p \in Paths : dir'[p] # dir[p] \/ (dir[p] # None /\ data'[dir[p]] # data[dir[p]])}

Next ==
    /\ \/ (CallStep \/ ServerStep) /\ UNCHANGED <<load, scan>>
       \/ LoadStep
    /\ behind' = IF load' = "populate" /\ load = "populate" THEN behind \cup Changed ELSE {}

Spec == Init /\ [][Next]_vars

-----------------------------------------------------------------------------
(* Properties.                                                             *)

\* No call that will still change the cache of the path is under way.
Settled(p) ==
    \A t \in Threads : call[t] # NoCall =>
        p \notin PathsOf(call[t]) \cup {opened[h].path : h \in {call[t].h} \ {None}}

\* What the cache has of a path is what the server has, for all threads and handles,
\* from the time a call has returned (CachedVfs::read, write; preload_files), a block that
\* is stale excepted, and until the next load if somebody else, or a command that came late,
\* changed a file.
CachedIsServed ==
    \A p \in Paths, b \in Blocks :
        cached[p][b] # Unknown /\ <<p, b>> \notin stale /\ Settled(p) /\ ~due =>
            /\ dir[p] # None
            /\ b <= Len(data[dir[p]]) => cached[p][b] = data[dir[p]][b]

\* The cached size of a path is the size of the file (CachedVfs::write, truncate, rename;
\* populate_tree), although a load scans it first and stores it later, under the same
\* conditions, and unless the size is doubted: the file changed behind the scan, was opened
\* with O_TRUNC, or its call failed.
SizeIsServed ==
    \A p \in Paths :
        Settled(p) /\ p \notin unsized /\ ~due =>
            sizes[p] = IF dir[p] = None THEN Absent ELSE Len(data[dir[p]])

\* A handle the server has open is known to the client: it is in the table, or in the
\* hands of a call, or was lost (by an open or create that failed or was executed late, a
\* read that failed after it opened, or the second of two reads that opened).
NoHandleLeak ==
    \A s \in Handles :
        remote[s] # None =>
            \/ s \in lost
            \/ \E h \in Handles : opened[h].sub = s
            \/ \E t \in Threads : call[t].sub = s

\* An open file is used through a handle of the server that is open for that file.
RightFile ==
    \A h \in Handles :
        IsOpen(h) /\ opened[h].sub # None /\ h \notin moved =>
            remote[opened[h].sub] = files[h].file
=============================================================================
