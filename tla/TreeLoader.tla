----------------------------- MODULE TreeLoader -----------------------------
(***************************************************************************)
(* How the client's tree cache follows the served tree: the tree_loader    *)
(* thread of BackgroundLoader, the two threads that tell it to load (the   *)
(* transport's reader, for a NotifyChanged frame, and the Heartbeat, when  *)
(* a connection begins), and the cache lock the loader shares with the     *)
(* file system calls.                                                      *)
(*                                                                         *)
(* The served tree is its version.  The watcher of the server promises     *)
(* what module Watcher is about: a notification after a change.            *)
(***************************************************************************)
EXTENDS Naturals, Sequences

CONSTANTS
    MaxChanges,   \* bound: changes of the served tree
    MaxRestarts,  \* bound: restarts of the server
    MaxWrites,    \* bound: CachedVfs::write calls
    MaxLosses,    \* bound: lost frames and late answers while the server runs
    Stopping      \* the client may be told to stop

ASSUME ConstantsAssumption ==
    /\ {MaxChanges, MaxRestarts, MaxWrites, MaxLosses} \subseteq Nat
    /\ Stopping \in BOOLEAN

VARIABLES
    served,     \* version of the served tree
    up,         \* the server runs
    restarts,
    unreported, \* the watcher has a change to report
    disturbed,  \* history: since the last scan for the loader, the tree changed
                \* during a load, the load failed, a notification was lost, or
                \* the server stopped
    losses,     \* number of frames lost and deadlines missed while the server ran
    rpc,        \* command of each caller: where it is
    scanned,    \* version of the tree the server read for the loader
    frames,     \* frames on their way to the client, and not yet processed
    notifier,   \* where each thread is in invalidate_tree
    connected,  \* Heartbeat::m_connected
    ping,       \* the ping of the Heartbeat
    flag,       \* BackgroundLoader::m_tree_invalidated
    lock,       \* owner of the cache mutex
    loader,     \* where the tree_loader thread is
    mirror,     \* version the cache's tree was populated from; 0 before
    writes,
    quit        \* BackgroundLoader::m_quit

serverVars == <<served, up, restarts, unreported, disturbed, losses>>
callVars == <<rpc, scanned>>
loaderVars == <<flag, lock, loader, mirror, writes, quit>>
vars == <<serverVars, callVars, frames, notifier, connected, ping, loaderVars>>

Versions == 0..(MaxChanges + 1)
Callers == {"loader", "user"}
Notifiers == {"reader", "heartbeat"}
NotifyFrame == "all"
\* A reply goes to the caller that has its identifier, or to nobody any more.
Frame == Callers \cup {"nobody", NotifyFrame}
CallState == {"none", "sent", "read", "replied", "answered", "lost"}
LoaderPC == {"start", "test", "sleep", "blocked", "waking", "load", "await",
             "preload", "prewait", "clear", "done"}

TypeOK ==
    /\ served \in Versions
    /\ up \in BOOLEAN
    /\ restarts \in 0..MaxRestarts
    /\ unreported \in BOOLEAN
    /\ disturbed \in BOOLEAN
    /\ losses \in 0..MaxLosses
    /\ rpc \in [Callers -> CallState]
    /\ scanned \in Versions
    /\ frames \in Seq(Frame)
    /\ notifier \in [Notifiers -> {"idle", "raise", "signal"}]
    /\ connected \in BOOLEAN
    /\ ping \in {"none", "sent", "lost"}
    /\ flag \in BOOLEAN
    /\ lock \in Callers \cup {"free"}
    /\ loader \in LoaderPC
    /\ mirror \in Versions
    /\ writes \in 0..MaxWrites
    /\ quit \in BOOLEAN

Init ==
    /\ served = 1
    /\ up = TRUE
    /\ restarts = 0
    /\ unreported = FALSE
    /\ disturbed = FALSE
    /\ losses = 0
    /\ rpc = [c \in Callers |-> "none"]
    /\ scanned = 0
    /\ frames = <<>>
    /\ notifier = [n \in Notifiers |-> "idle"]
    /\ connected = FALSE
    /\ ping = "none"
    /\ flag = FALSE
    /\ lock = "free"
    /\ loader = "start"
    /\ mirror = 0
    /\ writes = 0
    /\ quit = FALSE

Lossy == losses < MaxLosses /\ losses' = losses + 1

Loading == loader \in {"load", "await", "preload", "prewait", "clear"}

-----------------------------------------------------------------------------
(* The server.                                                             *)

\* Somebody changes the tree on the server.  Nobody watches it while the server
\* is down.
Change ==
    /\ served <= MaxChanges
    /\ served' = served + 1
    /\ disturbed' = (disturbed \/ Loading)
    /\ unreported' = up
    /\ UNCHANGED <<up, restarts, losses, callVars, frames, notifier, connected, ping,
                   loaderVars>>

\* Transport::send looks at no result: the frame may be lost.
Notify ==
    /\ unreported
    /\ unreported' = FALSE
    /\ \/ frames' = Append(frames, NotifyFrame) /\ UNCHANGED <<disturbed, losses>>
       \/ Lossy /\ disturbed' = TRUE /\ UNCHANGED frames
    /\ UNCHANGED <<served, up, restarts, callVars, notifier, connected, ping, loaderVars>>

\* A worker executes the command: process_read_tree, process_stat, process_preread.
Execute(c) ==
    /\ up
    /\ rpc[c] = "sent"
    /\ rpc' = [rpc EXCEPT ![c] = "read"]
    /\ IF c = "loader" /\ loader = "await"
       THEN scanned' = served /\ disturbed' = FALSE
       ELSE UNCHANGED <<scanned, disturbed>>
    /\ UNCHANGED <<served, up, restarts, unreported, losses, frames, notifier, connected,
                   ping, loaderVars>>

\* Mutant of Reply.
ReplyWithoutId(c) ==
    /\ rpc[c] = "read"
    /\ rpc' = [rpc EXCEPT ![c] = "replied"]
    /\ frames' = Append(frames, "")
    /\ UNCHANGED <<serverVars, scanned, notifier, connected, ping, loaderVars>>

Reply(c) ==
    /\ rpc[c] = "read"
    /\ rpc' = [rpc EXCEPT ![c] = "replied"]
    /\ frames' = Append(frames, c)
    /\ UNCHANGED <<serverVars, scanned, notifier, connected, ping, loaderVars>>

\* The command or its answer is lost: neither side looks at the result of nn_send.
Lose(c) ==
    /\ Lossy
    /\ rpc[c] \in {"sent", "read"}
    /\ rpc' = [rpc EXCEPT ![c] = "lost"]
    /\ UNCHANGED <<served, up, restarts, unreported, disturbed, scanned, frames, notifier,
                   connected, ping, loaderVars>>

\* A command that is being executed is lost; one that was not received yet may
\* wait in the socket for the next server.
ServerStops ==
    /\ up
    /\ restarts < MaxRestarts
    /\ up' = FALSE
    /\ restarts' = restarts + 1
    /\ unreported' = FALSE
    /\ disturbed' = TRUE
    /\ \E gone \in SUBSET Callers :
        /\ {c \in Callers : rpc[c] = "read"} \subseteq gone
        /\ gone \subseteq {c \in Callers : rpc[c] \in {"sent", "read"}}
        /\ rpc' = [c \in Callers |-> IF c \in gone THEN "lost" ELSE rpc[c]]
    /\ ping' = IF ping = "sent" THEN "lost" ELSE ping
    /\ UNCHANGED <<served, losses, scanned, frames, notifier, connected, loaderVars>>

ServerStarts ==
    /\ ~up
    /\ up' = TRUE
    /\ UNCHANGED <<served, restarts, unreported, disturbed, losses, callVars, frames,
                   notifier, connected, ping, loaderVars>>

-----------------------------------------------------------------------------
(* The reader thread of the client and the heartbeat.                      *)

\* Transport::run_reader takes the next frame: the Distributor calls
\* invalidate_tree for a notification, the Deserializer keeps a reply.
Read ==
    /\ frames # <<>>
    /\ notifier["reader"] = "idle"
    /\ frames' = Tail(frames)
    /\ IF Head(frames) = NotifyFrame
       THEN /\ notifier' = [notifier EXCEPT !["reader"] = "raise"]
            /\ UNCHANGED rpc
       ELSE /\ rpc' = [c \in Callers |-> IF c = Head(frames) THEN "answered" ELSE rpc[c]]
            /\ UNCHANGED notifier
    /\ UNCHANGED <<serverVars, scanned, connected, ping, loaderVars>>

\* Mutant of Raise.
RaiseUnderLock(n) ==
    /\ notifier[n] = "raise"
    /\ n = "reader" => lock = "free"
    /\ flag' = TRUE
    /\ notifier' = [notifier EXCEPT ![n] = "signal"]
    /\ UNCHANGED <<serverVars, callVars, frames, connected, ping,
                   lock, loader, mirror, writes, quit>>

\* Mutant of Raise.
RaiseIfWaiting(n) ==
    /\ notifier[n] = "raise"
    /\ flag' = (flag \/ loader = "blocked")
    /\ notifier' = [notifier EXCEPT ![n] = "signal"]
    /\ UNCHANGED <<serverVars, callVars, frames, connected, ping,
                   lock, loader, mirror, writes, quit>>

\* invalidate_tree holds no lock.
Raise(n) ==
    /\ notifier[n] = "raise"
    /\ flag' = TRUE
    /\ notifier' = [notifier EXCEPT ![n] = "signal"]
    /\ UNCHANGED <<serverVars, callVars, frames, connected, ping,
                   lock, loader, mirror, writes, quit>>

\* notify_one wakes the loader if it waits, and is forgotten if it does not.
Signal(n) ==
    /\ notifier[n] = "signal"
    /\ notifier' = [notifier EXCEPT ![n] = "idle"]
    /\ loader' = IF loader = "blocked" THEN "waking" ELSE loader
    /\ connected' = IF n = "heartbeat" THEN TRUE ELSE connected
    /\ UNCHANGED <<serverVars, callVars, frames, ping, flag, lock, mirror, writes, quit>>

Ping ==
    /\ notifier["heartbeat"] = "idle"
    /\ ping = "none"
    /\ ping' = "sent"
    /\ UNCHANGED <<serverVars, callVars, frames, notifier, connected, loaderVars>>

Pong ==
    /\ up
    /\ ping = "sent"
    /\ ping' = "none"
    /\ notifier' = [notifier EXCEPT !["heartbeat"] = IF connected THEN @ ELSE "raise"]
    /\ UNCHANGED <<serverVars, callVars, frames, connected, loaderVars>>

NoPong ==
    /\ \/ (ping = "lost" \/ (ping = "sent" /\ ~up)) /\ UNCHANGED losses
       \/ ping = "sent" /\ Lossy
    /\ ping' = "none"
    /\ connected' = FALSE
    /\ UNCHANGED <<served, up, restarts, unreported, disturbed, callVars, frames, notifier,
                   loaderVars>>

-----------------------------------------------------------------------------
(* The tree_loader thread.                                                 *)

\* Mutant of Lost.
LostNever(c) == c = "user" /\ rpc[c] = "lost"

\* No answer will come: the command is lost, or the client's transport was stopped.
Lost(c) == rpc[c] = "lost" \/ (rpc[c] = "sent" /\ ~up) \/ quit

\* What ends wait_for_result, if no deadline comes before an answer.
Over(c) == rpc[c] = "answered" \/ Lost(c)

\* The call has ended.  An answer that comes later has an identifier nobody waits for;
\* the commands only read, so a late execution is not followed any further.
EndCall(c) ==
    /\ rpc' = [rpc EXCEPT ![c] = "none"]
    /\ frames' = [i \in DOMAIN frames |-> IF frames[i] = c THEN "nobody" ELSE frames[i]]

LoaderStep(from, to) == loader = from /\ loader' = to

Lock(owner) == lock = "free" /\ lock' = owner
Unlock(owner) == lock = owner /\ lock' = "free"

Begin ==
    /\ ~quit
    /\ LoaderStep("start", "test")
    /\ Lock("loader")
    /\ UNCHANGED <<serverVars, callVars, frames, notifier, connected, ping,
                   flag, mirror, writes, quit>>

\* The predicate of m_cv.wait; when it holds the loader releases the lock.
Test ==
    /\ LoaderStep("test", IF flag THEN "load" ELSE "sleep")
    /\ lock' = IF flag THEN "free" ELSE lock
    /\ UNCHANGED <<serverVars, callVars, frames, notifier, connected, ping,
                   flag, mirror, writes, quit>>

\* Releasing the lock and waiting is one step of the condition variable.
Block ==
    /\ LoaderStep("sleep", "blocked")
    /\ Unlock("loader")
    /\ UNCHANGED <<serverVars, callVars, frames, notifier, connected, ping,
                   flag, mirror, writes, quit>>

Wake ==
    /\ LoaderStep("waking", "test")
    /\ Lock("loader")
    /\ UNCHANGED <<serverVars, callVars, frames, notifier, connected, ping,
                   flag, mirror, writes, quit>>

\* SingleComm::single_command of populate_tree.
ReadTree ==
    /\ LoaderStep("load", "await")
    /\ rpc' = [rpc EXCEPT !["loader"] = "sent"]
    /\ UNCHANGED <<serverVars, scanned, frames, notifier, connected, ping,
                   flag, lock, mirror, writes, quit>>

\* m_cache.reset and populate_tree of the root, in one critical section.
Populate ==
    /\ LoaderStep("await", "preload")
    /\ rpc["loader"] = "answered"
    /\ lock = "free"
    /\ rpc' = [rpc EXCEPT !["loader"] = "none"]
    /\ mirror' = scanned
    /\ UNCHANGED <<serverVars, scanned, frames, notifier, connected, ping,
                   flag, lock, writes, quit>>

\* preload_files, one batch: the lock is held until the answers are here.
Preload ==
    /\ LoaderStep("preload", "prewait")
    /\ Lock("loader")
    /\ rpc' = [rpc EXCEPT !["loader"] = "sent"]
    /\ UNCHANGED <<serverVars, scanned, frames, notifier, connected, ping,
                   flag, mirror, writes, quit>>

\* All answers are here, or wait_for_result timed out; both end the preloading.
Preloaded ==
    /\ LoaderStep("prewait", "clear")
    /\ (Over("loader") /\ UNCHANGED losses) \/ Lossy
    /\ EndCall("loader")
    /\ Unlock("loader")
    /\ UNCHANGED <<served, up, restarts, unreported, disturbed, scanned, notifier, connected,
                   ping, flag, mirror, writes, quit>>

\* populate_tree throws at the deadline, with the server up or not, and the exception
\* is only logged: the cache keeps the tree it has.
LoadFails ==
    /\ LoaderStep("await", "clear")
    /\ (Lost("loader") /\ UNCHANGED losses) \/ Lossy
    /\ EndCall("loader")
    /\ disturbed' = TRUE
    /\ UNCHANGED <<served, up, restarts, unreported, scanned, notifier, connected, ping,
                   flag, lock, mirror, writes, quit>>

\* The flag is cleared in either case.
Clear ==
    /\ LoaderStep("clear", "start")
    /\ flag' = FALSE
    /\ UNCHANGED <<serverVars, callVars, frames, notifier, connected, ping,
                   lock, mirror, writes, quit>>

Quit ==
    /\ quit
    /\ LoaderStep("start", "done")
    /\ UNCHANGED <<serverVars, callVars, frames, notifier, connected, ping,
                   flag, lock, mirror, writes, quit>>

\* App::signal_handler stops the Heartbeat, the loader and the transport.  The loader
\* is not notified.
Stop ==
    /\ Stopping
    /\ ~quit
    /\ quit' = TRUE
    /\ UNCHANGED <<serverVars, callVars, frames, notifier, connected, ping,
                   flag, lock, loader, mirror, writes>>

-----------------------------------------------------------------------------
(* A file system call that holds the lock while it talks to the server.    *)

\* CachedVfs::write after the write itself: lock, then ask for the attributes.
WriteGetattr ==
    /\ writes < MaxWrites
    /\ rpc["user"] = "none"
    /\ Lock("user")
    /\ writes' = writes + 1
    /\ rpc' = [rpc EXCEPT !["user"] = "sent"]
    /\ UNCHANGED <<serverVars, scanned, frames, notifier, connected, ping,
                   flag, loader, mirror, quit>>

WriteDone ==
    /\ rpc["user"] # "none"
    /\ (Over("user") /\ UNCHANGED losses) \/ Lossy
    /\ EndCall("user")
    /\ Unlock("user")
    /\ UNCHANGED <<served, up, restarts, unreported, disturbed, scanned, notifier, connected,
                   ping, flag, loader, mirror, writes, quit>>

-----------------------------------------------------------------------------
ServerNext ==
    \/ Notify
    \/ \E c \in Callers : Execute(c) \/ Reply(c)

ReaderNext == Read \/ Raise("reader") \/ Signal("reader")

HeartbeatNext == Ping \/ Pong \/ NoPong \/ Raise("heartbeat") \/ Signal("heartbeat")

LoaderNext ==
    Begin \/ Test \/ Block \/ Wake \/ ReadTree \/ Populate \/ Preload
        \/ Preloaded \/ LoadFails \/ Clear \/ Quit

Next ==
    \/ ServerNext \/ ReaderNext \/ HeartbeatNext \/ LoaderNext
    \/ WriteGetattr \/ WriteDone
    \/ \E c \in Callers : Lose(c)
    \/ Change \/ ServerStops \/ ServerStarts \/ Stop

Spec == Init /\ [][Next]_vars

\* The step of a thread that waits for no answer, or for one that is here or lost.
Unwaiting(c, A) == A /\ (rpc[c] = "none" \/ Over(c))

\* Threads are scheduled and answers arrive; a server that stopped comes back.  A
\* deadline may cut off an answer that would come, but nothing may depend on that.
\* Nobody has to change the tree, write a file or stop the client, and when it is
\* told to stop the reader and the Heartbeat may end at once.
FairSpec ==
    /\ Spec
    /\ WF_vars(Notify) /\ WF_vars(ServerStarts)
    /\ \A c \in Callers : WF_vars(Execute(c)) /\ WF_vars(Reply(c))
    /\ WF_vars(~quit /\ ReaderNext) /\ WF_vars(~quit /\ HeartbeatNext)
    /\ WF_vars(Unwaiting("loader", LoaderNext)) /\ WF_vars(Unwaiting("user", WriteDone))

-----------------------------------------------------------------------------
(* Properties.                                                             *)

\* Everything the server has reported has been acted on, by a client that runs.
Quiet ==
    /\ up /\ connected /\ ~quit
    /\ ~unreported
    /\ \A i \in DOMAIN frames : frames[i] # NotifyFrame
    /\ \A n \in Notifiers : notifier[n] = "idle"
    /\ ~flag
    /\ ~Loading

\* When no notification is under way and no load is due, the cache holds the
\* tree the server serves (invalidate_tree, tree_loader, Heartbeat::on_connect)...
AlwaysUpToDate == Quiet => mirror = served

\* ...unless, since the last scan, the tree changed while it was loaded, the load failed,
\* a notification was lost or the server stopped: then, as the code is, the change is
\* forgotten until the next notification or connection.
NothingForgotten == ~disturbed => AlwaysUpToDate

\* Whoever takes the cache lock releases it, although preload_files and
\* CachedVfs::write wait for the network with it: the reader thread that brings
\* the answers, and calls invalidate_tree, must never need the lock.  Only calls of which
\* a frame was lost may need their deadline for that.
LockReleased == \A c \in Callers : (lock = c) ~> (lock # c)

\* A load that began ends, whatever happens to the server meanwhile.  A client that is
\* told to stop then ends its loader, so that App::run can join it, although no answer
\* comes any more: only a loader that waits for an invalidation is left waiting.
LoadsEnd ==
    /\ (loader = "load") ~> (loader = "start")
    /\ quit ~> (loader \in {"done", "blocked"})

\* Once connected, the client loads the served tree.
ConnectLoads == connected ~> (mirror # 0)
=============================================================================
