------------------------------ MODULE Watcher ------------------------------
(***************************************************************************)
(* The server's Watcher thread: it tells the client that somebody changed  *)
(* the served tree on the server.  Changes the workers make for the client *)
(* raise the same inotify events; a worker lists their paths in            *)
(* TemporalIgnores first, and the watcher drops an event on a listed path. *)
(*                                                                         *)
(* The tree is the paths that exist.  An item of TemporalIgnores is erased *)
(* by a check that comes Duration after the time it was listed for; the    *)
(* worker read that time before it got the lock, Skew earlier at most.     *)
(***************************************************************************)
EXTENDS Integers, Sequences, FiniteSets

CONSTANTS
    Paths,
    MaxEdits,     \* bound: changes made on the server
    MaxOps,       \* bound: commands of the client that change the tree
    MaxOthers,    \* bound: commands that list a path and raise no event
    MaxTime,      \* bound: time passes
    Duration,     \* TemporalIgnores::m_ignore_duration
    Skew,         \* bound: time from steady_clock::now() to the lock in add
    CanFail       \* watching the tree may fail, and the server be stopped

ASSUME ConstantsAssumption ==
    /\ IsFiniteSet(Paths) /\ Paths # {}
    /\ {MaxEdits, MaxOps, MaxOthers, MaxTime, Skew} \subseteq Nat
    /\ Duration \in Nat /\ Duration >= Skew
    /\ CanFail \in BOOLEAN

VARIABLES
    tree,       \* paths that exist in the served tree
    edits,
    ops,
    clock,      \* steady_clock
    op,         \* the command a worker executes
    others,
    items,      \* TemporalIgnores::m_items
    watching,   \* inotify is initialised and watches the tree
    events,     \* inotify events not yet taken
    event,      \* the event the watcher works on
    watcher,    \* where the watcher thread is
    fingerprint,
    quit,       \* Watcher::m_quit
    unseen,     \* history: paths changed on the server under watch, not yet notified
    missed      \* history: the same, made unwatched or dropped with an ignored event

serverVars == <<tree, edits, ops, clock, op, others, items>>
historyVars == <<unseen, missed>>
watcherVars == <<watching, events, event, watcher, fingerprint, quit>>
vars == <<serverVars, watcherVars, historyVars>>

Times == 0..MaxTime
Never == -1

\* The paths to list and those to change; the time read for the next path, and the time
\* at which the command began.
NoOp == [list |-> <<>>, todo |-> <<>>, now |-> Never, at |-> 0]

\* IN_IGNORED comes with the removal of a watched directory, before or after the
\* event of its parent.
Event == [path : Paths, ignored : BOOLEAN, by : {"local", "client"}, at : Times]

Item == [path : Paths, time : Times]

NoPrint == {Paths}
PC == {"init", "watch", "wait", "check", "print", "notify", "done"}

TypeOK ==
    /\ tree \in SUBSET Paths
    /\ edits \in 0..MaxEdits
    /\ ops \in 0..MaxOps
    /\ clock \in Times
    /\ op \in [list : Seq(Paths), todo : Seq(Paths), now : Times \cup {Never}, at : Times]
    /\ others \in 0..MaxOthers
    /\ items \in Seq(Item)
    /\ watching \in BOOLEAN
    /\ events \in Seq(Event)
    /\ event \in Event
    /\ watcher \in PC
    /\ fingerprint \in (SUBSET Paths) \cup {NoPrint}
    /\ quit \in BOOLEAN
    /\ unseen \in SUBSET Paths
    /\ missed \in SUBSET Paths

\* The server has started and watches the tree; clients connect afterwards.
Init ==
    /\ tree = {}
    /\ edits = 0
    /\ ops = 0
    /\ clock = 0
    /\ op = NoOp
    /\ others = 0
    /\ items = <<>>
    /\ watching = TRUE
    /\ events = <<>>
    /\ event \in [path : Paths, ignored : {FALSE}, by : {"local"}, at : {0}]
    /\ watcher = "wait"
    /\ fingerprint = NoPrint
    /\ quit = FALSE
    /\ unseen = {}
    /\ missed = {}

-----------------------------------------------------------------------------
(* Changes of the tree.                                                    *)

\* A changed path appears, goes, or changes its content or attributes only.
Touch(p, by, at) ==
    /\ tree' \in {tree, tree \cup {p}, tree \ {p}}
    /\ LET change == [path |-> p, ignored |-> FALSE, by |-> by, at |-> at]
           removal == [change EXCEPT !.ignored = TRUE]
       IN  events' \in IF ~watching THEN {events}
                       ELSE IF p \in tree \ tree'
                       THEN {events \o <<change, removal>>, events \o <<removal, change>>}
                       ELSE {Append(events, change)}

\* Somebody changes a path on the server.
Edit(p) ==
    /\ edits < MaxEdits
    /\ edits' = edits + 1
    /\ Touch(p, "local", 0)
    /\ IF watching
       THEN unseen' = unseen \cup {p} /\ UNCHANGED missed
       ELSE missed' = missed \cup {p} /\ UNCHANGED unseen
    /\ UNCHANGED <<ops, others, clock, op, items, watching, event, watcher, fingerprint, quit>>

\* The paths of a command, one for every event it raises.
Commands == {<<p>> : p \in Paths} \cup {c \in Paths \X Paths : c[1] # c[2]}

\* A worker gets a command, and reads the clock (Worker::temporal_ignore).
Begin(c) ==
    /\ ops < MaxOps
    /\ op = NoOp
    /\ ops' = ops + 1
    /\ op' = [list |-> c, todo |-> c, now |-> clock, at |-> clock]
    /\ UNCHANGED <<tree, edits, others, clock, items, watcherVars, historyVars>>

\* For a second path it reads it again.
ReadClock ==
    /\ op.list # <<>>
    /\ op.now = Never
    /\ op' = [op EXCEPT !.now = clock]
    /\ UNCHANGED <<tree, edits, ops, others, clock, items, watcherVars, historyVars>>

\* Mutant of Add: one item for all paths of the command.
AddJoined ==
    /\ op.now # Never
    /\ items' = Append(items, [path |-> op.list, time |-> op.now])
    /\ op' = [op EXCEPT !.now = Never, !.list = <<>>]
    /\ UNCHANGED <<tree, edits, ops, others, clock, watcherVars, historyVars>>

\* TemporalIgnores::add lists the path, when the worker has the lock.
Add ==
    /\ op.now # Never
    /\ items' = Append(items, [path |-> Head(op.list), time |-> op.now])
    /\ op' = [op EXCEPT !.now = Never, !.list = Tail(@)]
    /\ UNCHANGED <<tree, edits, ops, others, clock, watcherVars, historyVars>>

\* Another worker lists a path, and the command changes nothing: a file is closed, or the
\* system call fails.  It read the clock up to Skew before.
AddOther(p, time) ==
    /\ others < MaxOthers
    /\ others' = others + 1
    /\ time <= clock /\ clock <= time + Skew
    /\ items' = Append(items, [path |-> p, time |-> time])
    /\ UNCHANGED <<tree, edits, ops, clock, op, watcherVars, historyVars>>

\* All paths are listed, and the system call changes the next.
Execute ==
    LET rest == Tail(op.todo)
    IN  /\ op.list = <<>> /\ op.todo # <<>>
        /\ op' = IF rest = <<>> THEN NoOp ELSE [op EXCEPT !.todo = rest]
        /\ Touch(Head(op.todo), "client", op.at)
        /\ UNCHANGED <<edits, ops, others, clock, items, historyVars>>
        /\ UNCHANGED <<watching, event, watcher, fingerprint, quit>>

\* The system call fails.
ExecuteFails ==
    /\ op.list = <<>> /\ op.todo # <<>>
    /\ op' = NoOp
    /\ UNCHANGED <<tree, edits, ops, others, clock, items, watcherVars, historyVars>>

\* When the commands began that are executed, or whose events the watcher has to look at.
Pending ==
    {x.at : x \in {op} \ {NoOp}}
        \cup {events[i].at : i \in {j \in DOMAIN events :
                                    watcher = "wait" /\ events[j].by = "client"}}
        \cup {x.at : x \in {y \in {event} : watcher = "check" /\ y.by = "client"}}

\* Time passes.  A worker that read the clock gets the lock in time, and the watcher
\* looks at the event of a command in a second, but for what two workers are apart.
Tick ==
    /\ clock < MaxTime
    /\ op.now # Never => clock < op.now + Skew
    /\ \A at \in Pending : clock < at + Duration - Skew
    /\ clock' = clock + 1
    /\ UNCHANGED <<tree, edits, ops, others, op, items, watcherVars, historyVars>>

-----------------------------------------------------------------------------
(* The watcher thread.                                                     *)

\* Leaving the scope drops the events not yet taken, and watches nothing more.
Leave(to) ==
    /\ watcher' = to
    /\ watching' = FALSE
    /\ events' = <<>>

Initialize ==
    /\ watcher = "init"
    /\ \/ /\ ~quit
          /\ watcher' = "watch"
       \/ /\ quit \/ CanFail
          /\ watcher' = "done"
    /\ UNCHANGED <<serverVars, watching, events, event, fingerprint, quit, historyVars>>

Watch ==
    /\ watcher = "watch"
    /\ watching' = TRUE
    /\ watcher' = "wait"
    /\ UNCHANGED <<serverVars, events, event, fingerprint, quit, historyVars>>

\* Too many directories to watch, or another error, which is retried.
WatchFails ==
    /\ CanFail
    /\ watcher = "watch"
    /\ \E to \in {"init", "done"} : Leave(to)
    /\ UNCHANGED <<serverVars, event, fingerprint, quit, historyVars>>

\* The loop skips IN_IGNORED.
Take ==
    /\ watcher = "wait"
    /\ ~quit
    /\ events # <<>>
    /\ event' = Head(events)
    /\ events' = Tail(events)
    /\ watcher' = IF Head(events).ignored THEN "wait" ELSE "check"
    /\ UNCHANGED <<serverVars, watching, fingerprint, quit, historyVars>>

\* std::lower_bound on times that need not be sorted: where its binary search, in the
\* len items behind the first ones, ends.
LowerBound(s, time) ==
    LET search[len \in 0..Len(s)] ==
            [first \in 0..(Len(s) - len) |->
                LET half == len \div 2
                IN  IF len = 0 THEN first
                    ELSE IF s[first + half + 1].time < time
                    THEN search[len - half - 1][first + half + 1]
                    ELSE search[half][first]]
    IN  search[Len(s)][0]

\* Mutant of Kept: erase the first item, if it is obsolete.
KeptButFirst ==
    IF items # <<>> /\ items[1].time < clock - Duration THEN Tail(items) ELSE items

\* TemporalIgnores::check erases the items of before a second ago.
Kept == SubSeq(items, LowerBound(items, clock - Duration) + 1, Len(items))

Listed(p) == \E i \in DOMAIN Kept : Kept[i].path = p

\* Mutant of Ignore: check erases the items it finds.
IgnoreOnce ==
    /\ watcher = "check"
    /\ Listed(event.path)
    /\ items' = SelectSeq(Kept, LAMBDA i : i.path # event.path)
    /\ Leave("init")
    /\ missed' = missed \cup unseen
    /\ unseen' = {}
    /\ UNCHANGED <<tree, edits, ops, others, clock, op, event, fingerprint, quit>>

\* The event is on a listed path: start again.
Ignore ==
    /\ watcher = "check"
    /\ Listed(event.path)
    /\ items' = Kept
    /\ Leave("init")
    /\ missed' = missed \cup unseen
    /\ unseen' = {}
    /\ UNCHANGED <<tree, edits, ops, others, clock, op, event, fingerprint, quit>>

Accept ==
    /\ watcher = "check"
    /\ ~Listed(event.path)
    /\ items' = Kept
    /\ watcher' = "print"
    /\ fingerprint' = NoPrint
    /\ UNCHANGED <<tree, edits, ops, others, clock, op, watching, events, event, quit, historyVars>>

\* Mutant of Stabilize: wait for a second change instead of for stability.
StabilizeUntilChange ==
    /\ watcher = "print"
    /\ ~quit
    /\ fingerprint' = tree
    /\ watcher' = IF fingerprint \notin {NoPrint, tree} THEN "notify" ELSE "print"
    /\ UNCHANGED <<serverVars, watching, events, event, quit, historyVars>>

\* Compare the tree with the last fingerprint, a second later, until it is stable.
Stabilize ==
    /\ watcher = "print"
    /\ ~quit
    /\ fingerprint' = tree
    /\ watcher' = IF fingerprint = tree THEN "notify" ELSE "print"
    /\ UNCHANGED <<serverVars, watching, events, event, quit, historyVars>>

\* Only a path that vanished meanwhile is tolerated: any other error ends the thread.
StabilizeThrows ==
    /\ CanFail
    /\ watcher = "print"
    /\ Leave("done")
    /\ UNCHANGED <<serverVars, event, fingerprint, quit, historyVars>>

\* Tell the client, which loads the whole tree, then leave the scope.
Notify ==
    /\ watcher = "notify"
    /\ Leave("init")
    /\ unseen' = {}
    /\ missed' = {}
    /\ UNCHANGED <<serverVars, event, fingerprint, quit>>

Break ==
    /\ quit
    /\ watcher \in {"wait", "print"}
    /\ Leave("done")
    /\ UNCHANGED <<serverVars, event, fingerprint, quit, historyVars>>

Stop ==
    /\ CanFail
    /\ ~quit
    /\ quit' = TRUE
    /\ UNCHANGED <<serverVars, watching, events, event, watcher, fingerprint, historyVars>>

WatcherStep ==
    \/ Initialize \/ Watch \/ Take \/ Ignore \/ Accept \/ Stabilize \/ Notify \/ Break

WatcherNext == WatcherStep \/ WatchFails \/ StabilizeThrows

Next ==
    \/ \E p \in Paths : Edit(p)
    \/ \E c \in Commands : Begin(c)
    \/ ReadClock \/ Add \/ Execute \/ ExecuteFails
    \/ \E p \in Paths, time \in Times : AddOther(p, time)
    \/ Tick
    \/ WatcherNext \/ Stop

Spec == Init /\ [][Next]_vars

\* The watcher thread runs; nothing makes it fail.
FairSpec == Spec /\ WF_vars(WatcherStep)

-----------------------------------------------------------------------------
(* Properties.                                                             *)

\* The watcher has nothing more to look at.
Idle == watcher = "wait" /\ events = <<>>

\* A client is not told of its own changes: only a change made on the server
\* makes the watcher fingerprint the tree and notify (Worker::temporal_ignore,
\* TemporalIgnores::check), whatever the order in which events are taken and
\* the watches renewed.
NoEcho == watcher \in {"print", "notify"} => event.by = "local"

\* No path stays listed for longer than a second and what two workers are apart, when
\* the watcher looks at an event: then a change made there is not taken for the client's,
\* although the times of the items are not sorted.
ForgottenInTime ==
    [][items' # items /\ watcher = "check" /\ watcher' # "check" =>
        \A i \in DOMAIN items' : items'[i].time >= clock - Duration - Skew]_vars

\* No command of a client is under way, no event of one is left, and no path was listed
\* within the last second.
ClientsQuiet ==
    /\ op = NoOp
    /\ \A i \in DOMAIN events : events[i].by = "local"
    /\ watcher = "check" => event.by = "local"
    /\ \A i \in DOMAIN items : items[i].time < clock - Duration

\* A change made on the server under watch is dealt with in the end, although the watcher
\* waits for the tree to be stable first, unless the thread ends: the client is notified
\* of it, or the watcher drops it with an event on a listed path (then it is missed).
\* It is the former if the clients are quiet from then on.
EditsReachClient ==
    /\ (unseen # {}) ~> (unseen = {} \/ watcher = "done")
    /\ (unseen # {} /\ []ClientsQuiet) ~> (unseen \cup missed = {} \/ watcher = "done")

\* When the watcher is idle, every change made on the server was notified, those of which
\* the watcher dropped the event (watcher.cpp:147) included.
AllEditsReported == Idle => unseen \cup missed = {}
=============================================================================
