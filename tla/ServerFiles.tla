---------------------------- MODULE ServerFiles ----------------------------
(***************************************************************************)
(* The open files of the server: the table m_opened_files, its mutex, the  *)
(* mutex of every File, and the file descriptors of the process, used by   *)
(* the worker threads that execute open, read, write and close commands    *)
(* concurrently.  They take them from the BlockingQueue m_requests_queue,  *)
(* whose stop ends them.                                                   *)
(*                                                                         *)
(* A file handle is an identifier the client dispenses; it is never used   *)
(* again.  The client has several reads and writes of a handle under way   *)
(* (fragments, several FUSE threads) and closes a handle when the kernel   *)
(* knows of no other call on it.  A call that timed out or got an error    *)
(* abandons its commands, which the server may execute all the same.       *)
(***************************************************************************)
EXTENDS Naturals, FiniteSets, Sequences

CONSTANTS
    Threads,      \* worker threads
    None,         \* no thread
    NumHandles,   \* bound: handles the client opens
    MaxIO,        \* bound: reads and writes
    MaxRestarts,  \* bound: restarts of the server
    CanAbandon,   \* the client may give up on a command it has sent
    SysErrors,    \* open() and lseek() may fail, and close() may report an error
    CanStop       \* the server may be told to stop

ASSUME ConstantsAssumption ==
    /\ None \notin Threads
    /\ NumHandles \in Nat \ {0}
    /\ {MaxIO, MaxRestarts} \subseteq Nat
    /\ {CanAbandon, SysErrors, CanStop} \subseteq BOOLEAN

Handles == 1..NumHandles

\* Every handle has at most one descriptor at a time.  Descriptor 0 stands for
\* -1, the descriptor of a FileRef that is not valid.
FDs == 1..NumHandles
NoFd == 0

\* A command.  A read and a write ("io") do the same to table and locks; k tells
\* them from each other.
Requests ==
    [op : {"open", "close"}, fh : Handles, k : {0}]
        \cup [op : {"io"}, fh : Handles, k : 1..MaxIO]

Reply == {"ok", "errno"}

VARIABLES
    client,     \* what the client did with each handle
    issued,     \* number of reads and writes the client has sent
    awaited,    \* commands the client still waits for
    requests,   \* Worker::m_requests_queue
    pc,         \* where each worker thread is
    req,        \* the command each worker thread executes
    fd,         \* the descriptor in the FileRef of each worker thread
    opened,     \* Worker::m_opened_files: descriptor of each handle, or absent
    tableLock,  \* owner of Worker::m_mutex
    fileLock,   \* owner of the mutex of each File
    fds,        \* descriptors of the process: the handle each was opened for
    stopped,    \* BlockingQueue::m_stopped
    slipped,    \* history: stop came when a thread was about to wait
    crashed,    \* an exception left a thread: the process is gone
    restarts,
    left        \* history: handles of which a command was given up

clientVars == <<client, issued, awaited, left>>
vars == <<client, issued, awaited, requests, pc, req, fd, opened,
          tableLock, fileLock, fds, stopped, slipped, crashed, restarts, left>>

Absent == NumHandles + 1
Free == 0

PCs == {"idle", "sleep", "blocked", "ended", "open", "register", "lookup",
        "lockfile", "verify", "seek", "transfer", "close", "unlock", "erase"}

TypeOK ==
    /\ client \in [Handles -> {"new", "opening", "open", "closing", "done", "failed"}]
    /\ issued \in 0..MaxIO
    /\ awaited \in SUBSET Requests
    /\ requests \in Seq(Requests)
    /\ pc \in [Threads -> PCs]
    /\ req \in [Threads -> Requests]
    /\ fd \in [Threads -> FDs \cup {NoFd}]
    /\ opened \in [Handles -> FDs \cup {Absent}]
    /\ tableLock \in Threads \cup {None}
    /\ fileLock \in [Handles -> Threads \cup {None}]
    /\ fds \in [FDs -> Handles \cup {Free}]
    /\ {stopped, slipped, crashed} \subseteq BOOLEAN
    /\ restarts \in 0..MaxRestarts
    /\ left \in SUBSET Handles

\* The command of an idle thread.
NoRequest == [op |-> "open", fh |-> 1, k |-> 0]

Init ==
    /\ client = [h \in Handles |-> "new"]
    /\ issued = 0
    /\ awaited = {}
    /\ requests = <<>>
    /\ pc = [t \in Threads |-> "idle"]
    /\ req = [t \in Threads |-> NoRequest]
    /\ fd = [t \in Threads |-> NoFd]
    /\ opened = [h \in Handles |-> Absent]
    /\ tableLock = None
    /\ fileLock = [h \in Handles |-> None]
    /\ fds = [f \in FDs |-> Free]
    /\ stopped = FALSE
    /\ slipped = FALSE
    /\ crashed = FALSE
    /\ restarts = 0
    /\ left = {}

processVars == <<stopped, slipped, crashed, restarts>>
serverVars == <<pc, req, fd, opened, tableLock, fileLock, fds, processVars>>

Goto(t, l) == pc' = [pc EXCEPT ![t] = l]

-----------------------------------------------------------------------------
(* The client.                                                             *)

\* BlockingQueue::push, called by recv_loop: under the mutex of the queue, which a
\* thread that is about to wait still has; notify_one wakes a thread that waits.
Push(r) ==
    /\ \A t \in Threads : pc[t] # "sleep"
    /\ requests' = Append(requests, r)
    /\ \/ \E t \in Threads : pc[t] = "blocked" /\ Goto(t, "idle")
       \/ (\A t \in Threads : pc[t] # "blocked") /\ UNCHANGED pc

\* A command is sent and received.
Issue(r) ==
    /\ Push(r)
    /\ awaited' = awaited \cup {r}
    /\ UNCHANGED <<req, fd, opened, tableLock, fileLock, fds, processVars>>

\* RemoteVfs::open_common; handles are dispensed in order.
Open(h) ==
    /\ client[h] = "new"
    /\ \A g \in 1..(h - 1) : client[g] # "new"
    /\ client' = [client EXCEPT ![h] = "opening"]
    /\ Issue([op |-> "open", fh |-> h, k |-> 0])
    /\ UNCHANGED <<issued, left>>

ReadOrWrite(h) ==
    /\ client[h] = "open"
    /\ issued < MaxIO
    /\ issued' = issued + 1
    /\ Issue([op |-> "io", fh |-> h, k |-> issued'])
    /\ UNCHANGED <<client, left>>

\* RemoteVfs::close, called when every read and write of the file descriptor
\* has returned.
Close(h) ==
    /\ client[h] = "open"
    /\ \A r \in awaited : r.fh # h
    /\ client' = [client EXCEPT ![h] = "closing"]
    /\ Issue([op |-> "close", fh |-> h, k |-> 0])
    /\ UNCHANGED <<issued, left>>

\* A command that timed out, or a fragment behind one that failed.  The caller
\* of an open that timed out never learns the handle.
Abandon(r) ==
    /\ CanAbandon
    /\ r \in awaited
    /\ awaited' = awaited \ {r}
    /\ client' = [client EXCEPT ![r.fh] = IF r.k = 0 THEN "done" ELSE @]
    /\ left' = left \cup {r.fh}
    /\ UNCHANGED <<issued, requests, serverVars>>

-----------------------------------------------------------------------------
(* The worker threads.                                                     *)

\* The thread replies and is ready for the next command.
Finish(t, reply) ==
    LET r == req[t]
    IN  /\ Goto(t, "idle")
        /\ req' = [req EXCEPT ![t] = NoRequest]
        /\ fd' = [fd EXCEPT ![t] = NoFd]
        /\ awaited' = awaited \ {r}
        /\ client' = IF r \notin awaited \/ r.k # 0 THEN client
                     ELSE [client EXCEPT ![r.fh] =
                             IF reply # "ok" THEN "failed"
                             ELSE IF r.op = "open" THEN "open" ELSE "done"]
        /\ UNCHANGED <<issued, left>>

\* BlockingQueue::pop: m_stopped is looked at first...
QuitThread(t) ==
    /\ pc[t] = "idle"
    /\ stopped
    /\ Goto(t, "ended")
    /\ UNCHANGED <<clientVars, requests, req, fd, opened, tableLock,
                   fileLock, fds, processVars>>

\* Mutant of Sleep: the predicate of m_condition.wait is about the queue only.
SleepIfEmpty(t) ==
    /\ pc[t] = "idle"
    /\ requests = <<>>
    /\ Goto(t, "sleep")
    /\ UNCHANGED <<clientVars, requests, req, fd, opened, tableLock,
                   fileLock, fds, processVars>>

\* ...the thread waits if the queue is empty: the predicate and the wait are two
\* steps, both with the mutex of the queue...
Sleep(t) ==
    /\ pc[t] = "idle"
    /\ ~stopped
    /\ requests = <<>>
    /\ \A u \in Threads : pc[u] # "sleep"
    /\ Goto(t, "sleep")
    /\ UNCHANGED <<clientVars, requests, req, fd, opened, tableLock,
                   fileLock, fds, processVars>>

Block(t) ==
    /\ pc[t] = "sleep"
    /\ Goto(t, "blocked")
    /\ UNCHANGED <<clientVars, requests, req, fd, opened, tableLock,
                   fileLock, fds, processVars>>

\* ...or takes the oldest command.
Dispatch(t) ==
    /\ pc[t] = "idle"
    /\ ~stopped
    /\ requests # <<>>
    /\ \A u \in Threads : pc[u] # "sleep"
    /\ requests' = Tail(requests)
    /\ req' = [req EXCEPT ![t] = Head(requests)]
    /\ Goto(t, IF Head(requests).op = "open" THEN "open" ELSE "lookup")
    /\ UNCHANGED <<clientVars, fd, opened, tableLock, fileLock, fds,
                   processVars>>

\* process_open: open() returns the lowest descriptor that is free.
OpenFile(t) ==
    /\ pc[t] = "open"
    /\ \E f \in FDs :
          /\ fds[f] = Free
          /\ \A g \in 1..(f - 1) : fds[g] # Free
          /\ fds' = [fds EXCEPT ![f] = req[t].fh]
          /\ fd' = [fd EXCEPT ![t] = f]
    /\ Goto(t, "register")
    /\ UNCHANGED <<clientVars, requests, req, opened, tableLock,
                   fileLock, processVars>>

\* Mutant: the result of open() is not looked at.
OpenErrorUnchecked(t) ==
    /\ pc[t] = "open"
    /\ SysErrors
    /\ fd' = [fd EXCEPT ![t] = NoFd]
    /\ Goto(t, "register")
    /\ UNCHANGED <<clientVars, requests, req, opened, tableLock,
                   fileLock, fds, processVars>>

OpenError(t) ==
    /\ pc[t] = "open"
    /\ SysErrors
    /\ Finish(t, "errno")
    /\ UNCHANGED <<requests, opened, tableLock, fileLock, fds,
                   processVars>>

\* The block that holds m_mutex; the thread then verifies what it stored.
Register(t) ==
    /\ pc[t] = "register"
    /\ tableLock = None
    /\ opened' = [opened EXCEPT ![req[t].fh] = fd[t]]
    /\ Goto(t, "lookup")
    /\ UNCHANGED <<clientVars, requests, req, fd, tableLock,
                   fileLock, fds, processVars>>

\* What a thread does with the FileRef that get_file_descriptor returned.
AfterLookup(op) ==
    CASE op = "open"  -> "verify"
      [] op = "close" -> "close"
      [] OTHER        -> "seek"

\* get_file_descriptor under m_mutex: the handle is known, and m_mutex is held
\* until the mutex of the File is free...
Lookup(t) ==
    /\ pc[t] = "lookup"
    /\ tableLock = None
    /\ opened[req[t].fh] # Absent
    /\ tableLock' = t
    /\ fd' = [fd EXCEPT ![t] = opened[req[t].fh]]
    /\ Goto(t, "lockfile")
    /\ UNCHANGED <<clientVars, requests, req, opened, fileLock, fds,
                   processVars>>

\* Mutant: nobody waits for the mutex of the File.
LockFileNoWait(t) ==
    /\ pc[t] = "lockfile"
    /\ fileLock' = [fileLock EXCEPT ![req[t].fh] = t]
    /\ tableLock' = None
    /\ Goto(t, AfterLookup(req[t].op))
    /\ UNCHANGED <<clientVars, requests, req, fd, opened, fds,
                   processVars>>

LockFile(t) ==
    /\ pc[t] = "lockfile"
    /\ fileLock[req[t].fh] = None
    /\ fileLock' = [fileLock EXCEPT ![req[t].fh] = t]
    /\ tableLock' = None
    /\ Goto(t, AfterLookup(req[t].op))
    /\ UNCHANGED <<clientVars, requests, req, fd, opened, fds,
                   processVars>>

\* ...or it is not: no lock and descriptor -1.
LookupUnknown(t) ==
    /\ pc[t] = "lookup"
    /\ tableLock = None
    /\ opened[req[t].fh] = Absent
    /\ fd' = [fd EXCEPT ![t] = NoFd]
    /\ Goto(t, AfterLookup(req[t].op))
    /\ UNCHANGED <<clientVars, requests, req, opened, tableLock,
                   fileLock, fds, processVars>>

\* The thread releases the mutex of the File, if it owns it.
Unlock(t) ==
    fileLock' = [h \in Handles |-> IF fileLock[h] = t THEN None ELSE fileLock[h]]

\* The end of process_open's last assert.
Verified(t) ==
    /\ pc[t] = "verify"
    /\ Unlock(t)
    /\ Finish(t, "ok")
    /\ UNCHANGED <<requests, opened, tableLock, fds, processVars>>

IsOpen(f) == f # NoFd /\ fds[f] # Free

\* process_read and process_write: lseek...
Seek(t) ==
    /\ pc[t] = "seek"
    /\ IsOpen(fd[t])
    /\ Goto(t, "transfer")
    /\ UNCHANGED <<clientVars, requests, req, fd, opened, tableLock,
                   fileLock, fds, processVars>>

\* ...which fails on a descriptor that is not open, and may fail on one that is
\* (an offset the file system does not allow, a FIFO).  The reply is an error, but
\* its number is what lseek returned, -1.
SeekFails(t) ==
    /\ pc[t] = "seek"
    /\ ~IsOpen(fd[t]) \/ SysErrors
    /\ Unlock(t)
    /\ Finish(t, "errno")
    /\ UNCHANGED <<requests, opened, tableLock, fds, processVars>>

\* Mutant: the mutex of the File is not released when the read fails.
TransferErrorKeepsLock(t) ==
    /\ pc[t] = "transfer"
    /\ \/ Unlock(t) /\ Finish(t, "ok")
       \/ UNCHANGED fileLock /\ Finish(t, "errno")
    /\ UNCHANGED <<requests, opened, tableLock, fds, processVars>>

\* ...read or write, and unlock.
Transfer(t) ==
    /\ pc[t] = "transfer"
    /\ Unlock(t)
    /\ \E reply \in {"ok", "errno"} : Finish(t, reply)
    /\ UNCHANGED <<requests, opened, tableLock, fds, processVars>>

\* process_close: close(), which releases the descriptor even if it reports an
\* error.  NoFd then stands for its result...
CloseFd(t) ==
    /\ pc[t] = "close"
    /\ fds' = [f \in FDs |-> IF f = fd[t] THEN Free ELSE fds[f]]
    /\ \/ fd' = [fd EXCEPT ![t] = IF IsOpen(fd[t]) THEN @ ELSE NoFd]
       \/ SysErrors /\ fd' = [fd EXCEPT ![t] = NoFd]
    /\ Goto(t, "unlock")
    /\ UNCHANGED <<clientVars, requests, req, opened, tableLock,
                   fileLock, processVars>>

\* ...unlock, which throws if get_file_descriptor took no lock; nobody catches
\* the exception...
CloseUnlock(t) ==
    /\ pc[t] = "unlock"
    /\ IF fileLock[req[t].fh] # t
       THEN /\ crashed' = TRUE
            /\ UNCHANGED <<clientVars, pc, req, fd, fileLock>>
       ELSE /\ Unlock(t)
            /\ IF fd[t] = NoFd
               THEN Finish(t, "errno")
               ELSE Goto(t, "erase") /\ UNCHANGED <<clientVars, req, fd>>
            /\ UNCHANGED crashed
    /\ UNCHANGED <<requests, opened, tableLock, fds, stopped, slipped, restarts>>

\* Mutant: the descriptor is closed once more with the entry.
EraseClosesAgain(t) ==
    /\ pc[t] = "erase"
    /\ tableLock = None
    /\ opened' = [opened EXCEPT ![req[t].fh] = Absent]
    /\ fds' = [fds EXCEPT ![fd[t]] = Free]
    /\ Finish(t, "ok")
    /\ UNCHANGED <<requests, tableLock, fileLock, processVars>>

\* Mutant: the entry is looked up by its descriptor, which open() may have
\* given to another file by now.
EraseByFd(t) ==
    /\ pc[t] = "erase"
    /\ tableLock = None
    /\ opened' = [h \in Handles |-> IF opened[h] = fd[t] THEN Absent ELSE opened[h]]
    /\ Finish(t, "ok")
    /\ UNCHANGED <<requests, tableLock, fileLock, fds, processVars>>

\* Mutant: the entry stays.
EraseNothing(t) ==
    /\ pc[t] = "erase"
    /\ tableLock = None
    /\ Finish(t, "ok")
    /\ UNCHANGED <<requests, opened, tableLock, fileLock, fds, processVars>>

\* ...and the entry is erased under m_mutex.
Erase(t) ==
    /\ pc[t] = "erase"
    /\ tableLock = None
    /\ opened' = [opened EXCEPT ![req[t].fh] = Absent]
    /\ Finish(t, "ok")
    /\ UNCHANGED <<requests, tableLock, fileLock, fds, processVars>>

-----------------------------------------------------------------------------
\* BlockingQueue::stop, called by the signal handler: it takes no mutex.
Stop ==
    /\ CanStop
    /\ ~stopped
    /\ stopped' = TRUE
    /\ slipped' = \E t \in Threads : pc[t] = "sleep"
    /\ pc' = [t \in Threads |-> IF pc[t] = "blocked" THEN "idle" ELSE pc[t]]
    /\ UNCHANGED <<clientVars, requests, req, fd, opened, tableLock,
                   fileLock, fds, crashed, restarts>>

\* The server dies, or was gone, and comes back with nothing.
Restart ==
    /\ restarts < MaxRestarts
    /\ restarts' = restarts + 1
    /\ stopped' = FALSE
    /\ slipped' = FALSE
    /\ crashed' = FALSE
    /\ requests' = <<>>
    /\ pc' = [t \in Threads |-> "idle"]
    /\ req' = [t \in Threads |-> NoRequest]
    /\ fd' = [t \in Threads |-> NoFd]
    /\ opened' = [h \in Handles |-> Absent]
    /\ tableLock' = None
    /\ fileLock' = [h \in Handles |-> None]
    /\ fds' = [f \in FDs |-> Free]
    /\ UNCHANGED <<clientVars>>

\* No thread has a command or could take one.
Idle == requests = <<>> /\ \A t \in Threads : pc[t] \in {"idle", "sleep", "blocked", "ended"}

\* Bound: all handles were used and nothing is left to do, or the server is gone.
Done ==
    /\ \/ crashed \/ stopped
       \/ Idle /\ \A h \in Handles : client[h] \in {"done", "failed"}
    /\ UNCHANGED vars

Work(t) ==
    \/ Sleep(t) \/ Block(t) \/ Dispatch(t) \/ QuitThread(t)
    \/ OpenFile(t) \/ OpenError(t) \/ Register(t)
    \/ Lookup(t) \/ LookupUnknown(t) \/ LockFile(t) \/ Verified(t)
    \/ Seek(t) \/ SeekFails(t) \/ Transfer(t)
    \/ CloseFd(t) \/ CloseUnlock(t) \/ Erase(t)

Next ==
    \/ \E h \in Handles : Open(h) \/ ReadOrWrite(h) \/ Close(h)
    \/ \E r \in awaited : Abandon(r)
    \/ \E t \in Threads : ~crashed /\ Work(t)
    \/ Stop
    \/ Restart
    \/ Done

Spec == Init /\ [][Next]_vars

\* The worker threads run; nothing makes the client use its handles.
FairSpec == Spec /\ \A t \in Threads : WF_vars(~crashed /\ Work(t))

-----------------------------------------------------------------------------
(* Properties.                                                             *)

\* The two asserts of process_open: the handle is not in the table before, and
\* the table has the new descriptor after, whatever other threads close and
\* open meanwhile.
OpenAsserts ==
    \A t \in Threads :
        /\ pc[t] = "register" => opened[req[t].fh] = Absent
        /\ pc[t] = "verify" => /\ fd[t] # NoFd
                               /\ fds[fd[t]] = req[t].fh

\* A thread that does I/O or closes does it on the file of the handle it was
\* asked for: the descriptor it took from the table was not closed, and not
\* used for another file, in between (process_close, get_file_descriptor).
IOHitsItsFile ==
    \A t \in Threads :
        /\ pc[t] \in {"lockfile", "seek", "transfer", "close"}
        /\ fd[t] # NoFd
        /\ req[t].fh \notin left
        => fds[fd[t]] = req[t].fh

\* A thread that owns the mutex of a File, or refers to its path, finds the File
\* in the table: process_close erases no File that is in use.
RefsAlive ==
    \A t \in Threads :
        /\ pc[t] \in {"lockfile", "verify", "seek", "transfer", "close"}
        /\ fd[t] # NoFd
        /\ req[t].fh \notin left
        => opened[req[t].fh] # Absent

Quiet ==
    /\ Idle
    /\ \A h \in Handles : client[h] \in {"new", "done", "failed"}

\* When all handles are closed and nothing is under way, no descriptor is open
\* and the table is empty, whatever the order in which the two were freed and
\* reused (process_open, process_close).  Excepted are handles of which a command
\* was given up and, in the table, those whose close reported an error.
NoFdLeak ==
    Quiet => \A h \in Handles \ left :
                 /\ \A f \in FDs : fds[f] # h
                 /\ client[h] # "failed" => opened[h] = Absent

\* No exception ends the process: process_close unlocks what it locked.
AlwaysUp == ~crashed

\* The same as long as the server was not restarted, whatever the client gives up
\* meanwhile; and a read, a write or a close whose caller waits for it finds the
\* handle in the table (get_file_descriptor) and uses a descriptor that is open.
HandlesKnown ==
    restarts = 0 =>
        /\ AlwaysUp
        /\ \A t \in Threads :
              pc[t] \in {"seek", "transfer", "close"} /\ req[t] \in awaited => IsOpen(fd[t])

\* At most one thread is between lseek and read or write of a descriptor ("serialize
\* file IO", worker.hpp), if no command of the handles was given up.
SerializedIO ==
    \A s, t \in Threads :
        /\ s # t /\ pc[s] = "transfer" /\ pc[t] = "transfer"
        /\ {req[s].fh, req[t].fh} \cap left = {}
        => fd[s] # fd[t]

\* The commands the client waits for are all answered, or given up, unless the server
\* is stopped or restarts: no thread waits for ever for m_mutex or for the mutex of a
\* File, and none waits for a command that is in the queue (BlockingQueue::push, pop).
EveryRequestAnswered == (awaited # {}) ~> (awaited = {} \/ stopped \/ restarts > 0)

\* A server that is told to stop ends its threads, so that Worker::wait returns, unless
\* the notification of BlockingQueue::stop fell between the predicate and the wait of
\* a thread.
ThreadsEnd ==
    stopped ~> (slipped \/ crashed \/ ~stopped \/ \A t \in Threads : pc[t] = "ended")
=============================================================================
