----------------------------- MODULE CachedTree -----------------------------
(***************************************************************************)
(* The directory tree in the client's cache and the one on the server:     *)
(* the calls of CachedVfs that change the tree first ask the server to do  *)
(* it, then for the new attributes, and at last repeat the change in the   *)
(* cache; the BackgroundLoader replaces the whole cached tree meanwhile.   *)
(* Answers may be late, and a command be executed after its call has       *)
(* failed; a load may fail as well.                                        *)
(*                                                                         *)
(* A tree is a function from the paths that exist to their attributes; a   *)
(* path is the sequence of its names.  A stamp stands for the mode, size   *)
(* and modification time of a file: every change gives a new one.  (The    *)
(* ctime is left out: the cache keeps the old one after chmod or rename.)  *)
(* "utimens" stands for truncate, too: both ask for the attributes of the  *)
(* file and for nothing else.                                              *)
(***************************************************************************)
EXTENDS Naturals, Sequences, FiniteSets, SequencesExt

CONSTANTS
    Threads,    \* FUSE threads
    Names,
    Ops,        \* the calls that are made
    MaxEvents,  \* bound: calls, changes made on the server and loads, together
    CanFail,    \* a command may fail, or its answer be late
    CanReplace  \* rename may replace a file

AllOps == {"mkdir", "symlink", "create", "rmdir", "unlink", "utimens", "chmod",
           "rename", "exchange"}

ASSUME ConstantsAssumption ==
    /\ IsFiniteSet(Threads) /\ IsFiniteSet(Names)
    /\ Ops \subseteq AllOps
    /\ MaxEvents \in Nat
    /\ {CanFail, CanReplace} \subseteq BOOLEAN

Root == <<>>
Paths == BoundedSeq(Names, 2)   \* bound: calls name paths of two levels
Stat == [dir : BOOLEAN, link : BOOLEAN, stamp : Nat]
NoStat == [dir |-> TRUE, link |-> FALSE, stamp |-> 0]
IsTree(t) == DOMAIN t \subseteq Seq(Names) /\ \A p \in DOMAIN t : t[p] \in Stat

Call == [op : AllOps, path : Paths, to : Paths]

VARIABLES
    disk,    \* the served tree
    mirror,  \* Cache::m_tree
    call,    \* the call of each thread
    step,    \* and how far it is
    st,      \* attributes of the path it asked for
    pst,     \* attributes of the parent
    late,    \* commands of calls that have failed, which the server may still execute
    events,
    changes, \* made to the served tree
    load,    \* where the BackgroundLoader is
    snapshot,\* the tree it was sent
    due,     \* history: something changed on the server since the last load began
    tainted, \* history: what only the next load puts right has happened (see Taint)
    dirsStale \* history: since the last load, a call left attributes of a directory alone

callVars == <<call, step, st, pst>>
counters == <<events, changes>>
loadVars == <<load, snapshot>>
historyVars == <<due, tainted, dirsStale>>
vars == <<disk, mirror, callVars, late, counters, loadVars, historyVars>>

TypeOK ==
    /\ IsTree(disk)
    /\ IsTree(mirror)
    /\ call \in [Threads -> Call]
    /\ step \in [Threads -> {"idle", "remote", "stat", "parent", "update"}]
    /\ st \in [Threads -> Stat]
    /\ pst \in [Threads -> Stat]
    /\ late \in SUBSET Call
    /\ events \in 0..MaxEvents
    /\ changes \in Nat
    /\ load \in {"idle", "populate"}
    /\ IsTree(snapshot)
    /\ due \in BOOLEAN
    /\ tainted \in BOOLEAN
    /\ dirsStale \in BOOLEAN

-----------------------------------------------------------------------------
(* Trees.                                                                  *)

Parent(p) == Front(p)
Under(t, p) == {q \in DOMAIN t : IsPrefix(p, q)}
HasChildren(t, p) == Under(t, p) # {p}
IsDir(t, p) == p \in DOMAIN t /\ t[p].dir

Set(t, p, stat) == [q \in DOMAIN t \cup {p} |-> IF q = p THEN stat ELSE t[q]]
Drop(t, p) == [q \in DOMAIN t \ {p} |-> t[q]]

\* The path q of the subtree of p, as a path of the subtree of r.
Rebase(q, p, r) == r \o SubSeq(q, Len(p) + 1, Len(q))

Move(t, from, to) ==
    LET moved == {Rebase(q, from, to) : q \in Under(t, from)}
    IN  [q \in (DOMAIN t \ Under(t, from)) \cup moved |->
            IF q \in moved THEN t[Rebase(q, to, from)] ELSE t[q]]

Swap(t, p, q) ==
    LET Other(r) == IF IsPrefix(p, r) THEN Rebase(r, p, q)
                    ELSE IF IsPrefix(q, r) THEN Rebase(r, q, p) ELSE r
    IN  [r \in {Other(x) : x \in DOMAIN t} |-> t[Other(r)]]

Apart(p, q) == ~IsPrefix(p, q) /\ ~IsPrefix(q, p)

-----------------------------------------------------------------------------
(* The server: what a system call does to the tree, and when it may.       *)

Moves == {"rename", "exchange"}
Makes == {"mkdir", "symlink", "create"}
Removes == {"rmdir", "unlink"}

Allowed(c, t) ==
    CASE c.op \in Makes -> c.path \notin DOMAIN t /\ IsDir(t, Parent(c.path))
      [] c.op \in Removes ->
            /\ c.path \in DOMAIN t
            /\ t[c.path].dir <=> c.op = "rmdir"
            /\ ~HasChildren(t, c.path)
      [] c.op = "rename" ->
            /\ c.path \in DOMAIN t /\ IsDir(t, Parent(c.to))
            /\ ~IsPrefix(c.path, c.to)
            /\ c.to \in DOMAIN t =>
                /\ CanReplace
                /\ t[c.path].dir = t[c.to].dir
                /\ ~HasChildren(t, c.to)
      [] c.op = "exchange" -> {c.path, c.to} \subseteq DOMAIN t /\ Apart(c.path, c.to)
      [] OTHER -> c.path \in DOMAIN t

Stamped(t, ps, stamp) ==
    [q \in DOMAIN t |-> IF q \in ps THEN [t[q] EXCEPT !.stamp = stamp] ELSE t[q]]

\* A path and its parent or parents get a new stamp.
Done(c, t, stamp) ==
    LET parents == {Parent(c.path)} \cup (IF c.op \in Moves THEN {Parent(c.to)} ELSE {})
        node == [dir |-> c.op = "mkdir", link |-> c.op = "symlink", stamp |-> stamp]
    IN  CASE c.op \in Makes -> Stamped(Set(t, c.path, node), parents, stamp)
          [] c.op \in Removes -> Stamped(Drop(t, c.path), parents, stamp)
          [] c.op = "rename" ->
                Stamped(Move(IF c.to \in DOMAIN t THEN Drop(t, c.to) ELSE t, c.path, c.to),
                        parents, stamp)
          [] c.op = "exchange" -> Stamped(Swap(t, c.path, c.to), parents, stamp)
          [] OTHER -> Stamped(t, {c.path}, stamp)

\* utimensat follows a symbolic link, to a path of the tree or out of it.
Follows(c, t) == c.op = "utimens" /\ t[c.path].link
Followed(t, stamp) == {t} \cup {Stamped(t, {q}, stamp) : q \in {r \in DOMAIN t : ~t[r].link}}

-----------------------------------------------------------------------------
(* The cache: whether it can repeat a change the server made, and what it  *)
(* then holds.                                                             *)

CanUpdate(c, m) ==
    CASE c.op \in Makes -> c.path \notin DOMAIN m /\ Parent(c.path) \in DOMAIN m
      [] c.op \in Removes -> c.path \in DOMAIN m /\ ~HasChildren(m, c.path)
      [] c.op = "rename" ->
            /\ {c.path, Parent(c.to)} \subseteq DOMAIN m
            /\ c.to \notin DOMAIN m
      [] c.op = "exchange" -> {c.path, c.to} \subseteq DOMAIN m
      [] OTHER -> c.path \in DOMAIN m

\* Mutant of Updated: rename leaves the old node.
UpdatedRenameKeeps(c, m, stat, parent) ==
    CASE c.op = "create" -> Set(m, c.path, stat)
      [] c.op \in {"mkdir", "symlink"} -> Set(Set(m, c.path, stat), Parent(c.path), parent)
      [] c.op \in Removes -> Set(Drop(m, c.path), Parent(c.path), parent)
      [] c.op = "rename" -> Move(m, c.path, c.to) @@ m
      [] c.op = "exchange" -> Swap(m, c.path, c.to)
      [] OTHER -> Set(m, c.path, stat)

\* create, rename and exchange leave the attributes of the parents alone.
Updated(c, m, stat, parent) ==
    CASE c.op = "create" -> Set(m, c.path, stat)
      [] c.op \in {"mkdir", "symlink"} -> Set(Set(m, c.path, stat), Parent(c.path), parent)
      [] c.op \in Removes -> Set(Drop(m, c.path), Parent(c.path), parent)
      [] c.op = "rename" -> Move(m, c.path, c.to)
      [] c.op = "exchange" -> Swap(m, c.path, c.to)
      [] OTHER -> Set(m, c.path, stat)

\* What is left of an update that throws: mkdir sets the parent first.
HalfUpdated(c, m, parent) ==
    IF c.op = "mkdir" /\ Parent(c.path) \in DOMAIN m
    THEN Set(m, Parent(c.path), parent)
    ELSE m

-----------------------------------------------------------------------------
Init ==
    /\ \E n \in Names :
        disk = [q \in {Root, <<n>>, <<n, n>>} |->
                    [dir |-> q # <<n, n>>, link |-> FALSE, stamp |-> 0]]
    /\ mirror = disk
    /\ call = [t \in Threads |-> [op |-> "chmod", path |-> Root, to |-> Root]]
    /\ step = [t \in Threads |-> "idle"]
    /\ st = [t \in Threads |-> NoStat]
    /\ pst = [t \in Threads |-> NoStat]
    /\ late = {}
    /\ events = 0
    /\ changes = 0
    /\ load = "idle"
    /\ snapshot = mirror
    /\ due = FALSE
    /\ tainted = FALSE
    /\ dirsStale = FALSE

\* One more event.
Count ==
    /\ events < MaxEvents
    /\ events' = events + 1

\* One more change: the served tree becomes t.
Change(t) ==
    /\ disk' = t
    /\ changes' = changes + 1

\* The cache is no longer what the calls make of the served tree: a call overlapped a load,
\* failed after its change was made, or changed another path; or a load failed.
Taint == tainted' = TRUE

Namespace == Makes \cup Removes \cup Moves

\* They leave the attributes of the parents alone in the cache.
Partial == Moves \cup {"create"}

\* Every file system call there is.
Calls ==
    [op : Ops \ Moves, path : Paths, to : {Root}]
        \cup [op : Ops \cap Moves, path : Paths \ {Root}, to : Paths \ {Root}]

\* The kernel asks for a call only what the cached tree lets it look up.
Looked(c) ==
    /\ c.op \in Namespace => c.path # Root /\ IsDir(mirror, Parent(c.path))
    /\ c.path \in DOMAIN mirror <=> c.op \notin Makes
    /\ c.op \in Removes => (mirror[c.path].dir <=> c.op = "rmdir")
    /\ c.op = "chmod" => ~mirror[c.path].link
    /\ c.op \in Moves =>
        /\ IsDir(mirror, Parent(c.to))
        /\ Apart(c.path, c.to)
        /\ IF c.op = "exchange" THEN c.to \in DOMAIN mirror
           ELSE CanReplace \/ c.to \notin DOMAIN mirror

\* The inodes a call locks in the kernel, and the paths it locks in libfuse.
Locked(c) ==
    {c.path} \cup (IF c.op \in Namespace THEN {Parent(c.path)} ELSE {})
        \cup (IF c.op \in Moves THEN {c.to, Parent(c.to)} ELSE {})

Conflict(c, d) ==
    \/ Locked(c) \cap Locked(d) # {}
    \/ \E p \in Locked(c), q \in Locked(d) :
        \/ c.op \in Removes \cup Moves /\ p \in {c.path, c.to} \ {Root} /\ IsPrefix(p, q)
        \/ d.op \in Removes \cup Moves /\ q \in {d.path, d.to} \ {Root} /\ IsPrefix(q, p)

Goto(t, s) == step' = [step EXCEPT ![t] = s]

\* A thread calls the file system.
Begin(t, c) ==
    /\ Count
    /\ step[t] = "idle"
    /\ Looked(c)
    /\ \A u \in Threads : step[u] # "idle" => ~Conflict(c, call[u])
    /\ call' = [call EXCEPT ![t] = c]
    /\ Goto(t, "remote")
    /\ tainted' = (tainted \/ load # "idle")
    /\ UNCHANGED <<disk, mirror, st, pst, late, changes, loadVars, due, dirsStale>>

\* Mutant of After: unlink and rmdir do not ask for the parent.
AfterSkipsParent(c) ==
    IF c.op \in Makes \cup {"utimens"} THEN "stat" ELSE "update"

\* Mutant of After: a call that needs no attributes has no step for the cache.
AfterWithoutCache(c) ==
    CASE c.op \in Makes \cup {"utimens"} -> "stat"
      [] c.op \in Removes -> "parent"
      [] OTHER -> "returned"

\* Where a call goes after the server has done it: to its attributes, those of
\* the parent, or the cache.
After(c) ==
    CASE c.op \in Makes \cup {"utimens"} -> "stat"
      [] c.op \in Removes -> "parent"
      [] OTHER -> "update"

\* The server executes the command; chmod knows the new mode without asking.
Remote(t) ==
    LET c == call[t]
    IN  /\ step[t] = "remote"
        /\ Allowed(c, disk) /\ ~Follows(c, disk)
        /\ Change(Done(c, disk, changes + 1))
        /\ dirsStale' = (dirsStale \/ c.op \in Partial)
        /\ st' = IF c.op = "chmod" THEN [st EXCEPT ![t] = disk'[c.path]] ELSE st
        /\ Goto(t, After(c))
        /\ UNCHANGED <<mirror, call, pst, late, events, loadVars, due, tainted>>

\* The path is a symbolic link: the call goes on with the attributes of the link.
RemoteFollows(t) ==
    LET c == call[t]
    IN  /\ step[t] = "remote"
        /\ Allowed(c, disk) /\ Follows(c, disk)
        /\ \E u \in Followed(disk, changes + 1) : Change(u)
        /\ Taint
        /\ Goto(t, After(c))
        /\ UNCHANGED <<mirror, call, st, pst, late, events, loadVars, due, dirsStale>>

\* The server answers with an error.
RemoteFails(t) ==
    /\ step[t] = "remote"
    /\ CanFail \/ ~Allowed(call[t], disk)
    /\ Goto(t, "idle")
    /\ UNCHANGED <<disk, mirror, call, st, pst, late, counters, loadVars, historyVars>>

\* No answer comes in time: the call fails, and the server executes the command later or never.
RemoteTimesOut(t) ==
    /\ CanFail
    /\ step[t] = "remote"
    /\ Goto(t, "idle")
    /\ late' = late \cup {call[t]}
    /\ UNCHANGED <<disk, mirror, call, st, pst, counters, loadVars, historyVars>>

\* It does, whatever calls and loads came in between (or did, and its answer was late).
RemoteLate(c) ==
    /\ c \in late
    /\ Allowed(c, disk)
    /\ \E u \in IF Follows(c, disk) THEN Followed(disk, changes + 1)
                ELSE {Done(c, disk, changes + 1)} : Change(u)
    /\ late' = late \ {c}
    /\ Taint
    /\ UNCHANGED <<mirror, callVars, events, loadVars, due, dirsStale>>

GetStat(t) ==
    /\ step[t] = "stat"
    /\ call[t].path \in DOMAIN disk
    /\ st' = [st EXCEPT ![t] = disk[call[t].path]]
    /\ Goto(t, IF call[t].op \in {"mkdir", "symlink"} THEN "parent" ELSE "update")
    /\ UNCHANGED <<disk, mirror, call, pst, late, counters, loadVars, historyVars>>

GetParent(t) ==
    /\ step[t] = "parent"
    /\ Parent(call[t].path) \in DOMAIN disk
    /\ pst' = [pst EXCEPT ![t] = disk[Parent(call[t].path)]]
    /\ Goto(t, "update")
    /\ UNCHANGED <<disk, mirror, call, st, late, counters, loadVars, historyVars>>

\* The attributes cannot be had: the call fails although its change was made.
GetFails(t) ==
    /\ \/ step[t] = "stat" /\ (CanFail \/ call[t].path \notin DOMAIN disk)
       \/ step[t] = "parent" /\ (CanFail \/ Parent(call[t].path) \notin DOMAIN disk)
    /\ Goto(t, "idle")
    /\ Taint
    /\ UNCHANGED <<disk, mirror, call, st, pst, late, counters, loadVars, due, dirsStale>>

\* Under the lock of the cache.
Update(t) ==
    /\ step[t] = "update"
    /\ CanUpdate(call[t], mirror)
    /\ mirror' = Updated(call[t], mirror, st[t], pst[t])
    /\ Goto(t, "idle")
    /\ UNCHANGED <<disk, call, st, pst, late, counters, loadVars, historyVars>>

\* The cache throws, and the call fails although its change was made.
UpdateThrows(t) ==
    /\ step[t] = "update"
    /\ ~CanUpdate(call[t], mirror)
    /\ mirror' = HalfUpdated(call[t], mirror, pst[t])
    /\ Goto(t, "idle")
    /\ Taint
    /\ UNCHANGED <<disk, call, st, pst, late, counters, loadVars, due, dirsStale>>

-----------------------------------------------------------------------------
(* Changes made on the server, and loads.                                  *)

Edit(c) ==
    /\ Count
    /\ c.op \in Namespace => c.path # Root
    /\ Allowed(c, disk)
    /\ Change(Done(c, disk, changes + 1))
    /\ due' = TRUE
    /\ UNCHANGED <<mirror, callVars, late, loadVars, tainted, dirsStale>>

\* process_read_tree; when a load is due is the subject of TreeLoader.
Scan ==
    /\ Count
    /\ load = "idle"
    /\ load' = "populate"
    /\ snapshot' = disk
    /\ due' = FALSE
    /\ dirsStale' = FALSE
    /\ tainted' = \E t \in Threads : step[t] # "idle"
    /\ UNCHANGED <<disk, mirror, callVars, late, changes>>

\* Mutant of Populate: the cache is not reset first.
PopulateNoReset ==
    /\ load = "populate"
    /\ load' = "idle"
    /\ mirror' = snapshot @@ mirror
    /\ UNCHANGED <<disk, callVars, late, counters, snapshot, historyVars>>

\* m_cache.reset and populate_tree, under the lock of the cache.
Populate ==
    /\ load = "populate"
    /\ load' = "idle"
    /\ mirror' = snapshot
    /\ UNCHANGED <<disk, callVars, late, counters, snapshot, historyVars>>

\* The scanned tree does not come in time: the loader keeps the old one and gives up.
LoadFails ==
    /\ CanFail
    /\ load = "populate"
    /\ load' = "idle"
    /\ Taint
    /\ UNCHANGED <<disk, mirror, callVars, late, counters, snapshot, due, dirsStale>>

CallStep(t) ==
    \/ \E c \in Calls : Begin(t, c)
    \/ Remote(t) \/ RemoteFollows(t) \/ RemoteFails(t) \/ RemoteTimesOut(t)
    \/ GetStat(t) \/ GetParent(t) \/ GetFails(t)
    \/ Update(t) \/ UpdateThrows(t)

Next ==
    \/ \E t \in Threads : CallStep(t)
    \/ \E c \in late : RemoteLate(c)
    \/ \E c \in Calls : Edit(c)
    \/ Scan \/ Populate \/ LoadFails

Spec == Init /\ [][Next]_vars

-----------------------------------------------------------------------------
(* Properties.                                                             *)

Quiet == load = "idle" /\ \A t \in Threads : step[t] = "idle"

SameFiles ==
    /\ DOMAIN mirror = DOMAIN disk
    /\ \A p \in DOMAIN disk :
        /\ mirror[p].dir = disk[p].dir
        /\ ~disk[p].dir => mirror[p] = disk[p]

\* When no call and no load is under way, the cache holds the served tree: the
\* same paths, kinds, and attributes of files, although several threads change
\* server and cache in separate steps (CachedVfs::mkdir to truncate).  This is so until a
\* change on the server waits for its load, or one of the events of Taint: then until the
\* next load that no call overlaps.
SameTree == Quiet /\ ~due /\ ~tainted => SameFiles

\* The attributes of directories are the same too, unless a call left them alone.
SameDirectories == Quiet /\ ~due /\ ~tainted /\ ~dirsStale => mirror = disk

Replaces(c) == c.op = "rename" /\ c.to \in DOMAIN mirror

\* A change the server made for a call can be repeated in the cache, so that no
\* call fails in the cache after its work is done (make_node, remove_single, rename,
\* exchange of cache::Tree), under the same conditions, and unless it replaces a file.
UpdatePossible ==
    ~due /\ ~tainted =>
        \A t \in Threads :
            step[t] = "update" /\ ~Replaces(call[t]) => CanUpdate(call[t], mirror)
=============================================================================
