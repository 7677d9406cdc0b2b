# rewofs in TLA+

rewofs is a network file system: a FUSE client that mirrors the directory tree
and the contents of a server, over one nanomsg connection. This directory holds
TLA+ models of its concurrent core, TLC configurations that check them on small
instances, and TLAPS proofs for instances of any size: of the messaging layer and the
specification it implements, of the server's open files, of the loader and the watcher, of the
client's open files and cache, of the cached tree, and of reads and writes in fragments and
the operations on whole ranges that they implement.

Source references are relative to `src/rewofs/` of the repository.
`PROJECT.json` gives the source lines of every definition, and lists the runs,
the mutants (a plausible bug for every property, which the property finds), the
findings, the hazards and the theorems.

Model-check with `tlc -config MCX.cfg M.tla`, where `M` is the module the table
of runs names; prove with `tlapm M.tla`, where `M` is one of the `...Proofs` modules.
(`ClientFilesProofs` takes ten minutes, `FileIOProofs` and `CachedTreeProofs` a few.)

## The system

```
 kernel --FUSE threads--> CachedVfs --> RemoteVfs --> Serializer --run_writer--> nanomsg
                            |  ^                                                   |
                          cache::Cache <-- BackgroundLoader          recv_loop <---+
                        (Tree, Content)        ^                         v
                                               |                   BlockingQueue
 Heartbeat --on_connect------------------------+                         v
 Distributor --NotifyChanged--> invalidate_tree+                  50 worker threads
       ^                                                           |          |
       +-- run_reader <---------------- nanomsg <---- replies -----+    TemporalIgnores
              v                           ^                                   ^
         Deserializer                     +------- NotifyChanged -------- Watcher
```

### Inventory

| component | state | operations | what makes it hard | what makes it correct |
|---|---|---|---|---|
| Serializer (transport) | queues of unsent frames with priorities, id dispenser | `new_queue`, `add_command`, `pop`, `drop_queue`, `wait` | many calls, one writer thread; a call may end while its frames are sent | a frame is sent once or dropped; no queue starves |
| Deserializer | `m_items`: replies by id | `process_frame`, `wait_for_result` | late replies, timeouts, replies in any order | a caller gets the reply of its own command |
| Distributor | subscriptions | `process_frame` | runs subscribers in the reader thread | subscribers must not block that thread |
| client Transport, SingleComm | socket, reader and writer threads | `run_reader`, `run_writer`, `single_command` | lost frames, unchecked sends | at-most-once execution |
| server Transport | socket | `send`, `recv` | `send` ignores failures | |
| Worker, threads | `m_requests_queue` (BlockingQueue), 50 threads | `recv_loop`, `run`, `process_message`, `stop` | commands of one caller run and are answered in any order | each command is executed by one thread |
| Worker, open files | `m_opened_files`, `m_mutex`, a mutex per File, descriptors | `process_open`, `_read`, `_write`, `_close`, `get_file_descriptor` | a mutex taken under another, close against everything, reuse of descriptor numbers | I/O hits the file of the handle, one thread at a time; no leak, no deadlock |
| Worker, tree commands | the served directory | `process_mkdir` ... `process_truncate`, `process_read_tree` | list paths before changing them | what the client is told equals what was done |
| Watcher | inotify watches and events, fingerprint | `run`, `notify_change`, `stop` | watches and events are dropped at each restart of its loop | changes on the server reach the client, the client's own do not |
| TemporalIgnores | deque of (time, path) | `add`, `check` | almost sorted times | a path is ignored for its second |
| RemoteVfs | id dispenser for handles | one method per file system call | 32 KiB fragments under way at once | fragments make one result |
| CachedVfs, tree | none of its own | `mkdir`, `rmdir`, `unlink`, `symlink`, `rename`, `exchange`, `chmod`, `utimens`, `truncate`, `create` | change the server, then the cache, with a load in between | cached tree = served tree |
| CachedVfs, files | `m_opened_files` of the client | `open`, `close`, `read`, `write`, lazy open | lock released around network calls | cached content = served content |
| BackgroundLoader | `m_tree_invalidated`, condition variable, `m_quit` | `invalidate_tree`, `tree_loader`, `populate_tree`, `preload_files`, `stop` | lost wakeups, forgotten notifications, waits with the cache lock held | the cache follows the server; the lock is released |
| Heartbeat | `m_connected` | `run`, `on_connect`, `on_disconnect` | a restart between two pings | a new connection loads the tree |
| cache::Tree | nodes | `make_node`, `remove_single`, `rename`, `exchange`, `reset` | throw when the tree is not as expected | repeats what the server did |
| cache::Content | sorted blocks per path | `read`, `write`, `flatten`, `delete_file`, `reset` | merging of overlapping blocks | a hit returns the last bytes written |
| cache::Cache | Tree, Content and one mutex | `lock` and forwarding | | |
| Fuse, App, main, IdDispenser, paths, compression, messages, nanomsg wrapper, log | see `PROJECT.json` | | signals, start and stop | |

Interactions: threads of a process share memory under the mutexes above;
processes exchange frames. The reader thread of the client calls back into the
loader (`invalidate_tree`), so it must never need the cache lock, which loader
and file system calls keep while they wait for what only the reader brings.
The worker threads and the watcher share TemporalIgnores. The two copies of the
tree, `cache::Tree` and the served directory, have no common lock.

## Modules

| module | models | state and its code | extends / implements |
|---|---|---|---|
| `AtMostOnceCall` | what the messaging layer promises | outcome known to the caller, number of executions | abstract specification |
| `Rpc` | Serializer, Deserializer, both Transports, the Worker's queue and threads | `queue` = `m_queues`, `items` = `m_items`, `uplink`/`downlink` = the socket, `requests` = `m_requests_queue`, `taken`/`answering` = worker threads before and after `process_...` | implements `AtMostOnceCall` |
| `RpcProofs` | - | proofs about `Rpc`, and that it implements `AtMostOnceCall` | |
| `FileIOProofs` | - | proofs about `FileIO`, and that it implements `WholeRangeIO` | |
| `ServerFilesProofs`, `TreeLoaderProofs`, `WatcherProofs`, `CachedTreeProofs`, `ContentProofs`, `ClientFilesProofs` | - | proofs about `ServerFiles`, `TreeLoader`, `Watcher`, `CachedTree`, `Content`, `ClientFiles` | |
| `ServerFiles` | the open files of the Worker, BlockingQueue | `opened`, `tableLock` = `m_opened_files`, `m_mutex`; `fileLock` = mutex of a File; `fds` = kernel's descriptors; `pc`, `req`, `fd` = a thread, its command, its FileRef; `requests`, `stopped` = `m_queue`, `m_stopped` of the BlockingQueue | |
| `WholeRangeIO` | what a program can rely on that reads and writes ranges of a file | `cells` = what is known to be at each place, `io` = the calls | abstract specification |
| `FileIO` | read and write of RemoteVfs, fragment by fragment, and of the Worker | `file` = the file on the server, `pending` = fragments sent, `answers` = `m_items` of the Deserializer, `call` = the calls | implements `WholeRangeIO` |
| `ClientFiles` | calls of CachedVfs on files, its table, Content and sizes of cache::Cache, handles of the server | `opened` = `m_opened_files` of CachedVfs, `cached` = `m_content`, `sizes` = `st_size` in `m_tree`, `remote` = the server's table, `dir`, `data` = the served files, `files` = the kernel's open files | |
| `Content` | cache::Content of one path | `blocks` = `m_blocks[path]` | `written` is the reference: a flat array |
| `TreeLoader` | BackgroundLoader, Heartbeat, reader thread, cache lock | `flag` = `m_tree_invalidated`, `lock` = cache mutex, `loader` = the thread, `notifier` = threads in `invalidate_tree`, `served`/`mirror` = version of the tree on the server and in the cache | |
| `Watcher` | Watcher thread, TemporalIgnores, the workers' listing | `events`, `watching` = inotify, `items` = `m_items`, `clock` = `steady_clock`, `op` = a worker's command, `watcher` = the thread, `fingerprint` | |
| `CachedTree` | tree calls of CachedVfs, cache::Tree, tree commands of the Worker, loads | `disk` = served directory, `mirror` = `m_tree`, `call`/`step`/`st`/`pst` = a FUSE thread and what it holds | |

In all modules an action is what a thread does between two points where another
thread can come in: a critical section is one action, a call to the other
process at least two. Actions have the names of the code's functions or of
their phases; operators before an action that are called "Mutant" are variants
of it with a plausible bug and are used by nothing else.

`MCRpc`, `MCServerFiles`, `MCClientFiles` and `MCCachedTree` give TLC the functions
and symmetry sets that a configuration cannot write; the other modules are checked
directly. Symmetry is used by runs without temporal properties only.

### The modules in detail

**Rpc.** A caller is a thread in a call of RemoteVfs, the loader or the
heartbeat. It queues up to `MaxFrames` commands (`AddCommand`), while the writer
already sends (`Send`), waits for the replies in order (`TakeReply`) and ends its
call early on an error reply (`TakeError`) or the deadline (`TimedOut`): its queue
goes out of scope and drops unsent frames - except for the heartbeat, whose
queue is a member ("resident") and survives its timeouts. A timeout may strike
although the reply is there: `wait_for_result` looks at the clock first. The socket
loses frames anywhere, sends fail silently, notifications with id 0 share the
downlink, the server restarts. A frame is its id; payloads are not looked at by the
layer.

**ServerFiles.** Handles are dispensed in order and never reused; descriptors are
the lowest free one, as the kernel does it, so that a number closed by one
thread is at once used by another thread's open. `get_file_descriptor` is two
actions, `Lookup` (table mutex taken, and kept) and `LockFile` (file mutex taken,
table mutex released). `process_close` is `CloseFd`, `CloseUnlock`, `Erase`.
A client may give up on commands (`Abandon`), which run all the same; the kernel
sends the close of a handle only when no call on it is outstanding.
The threads take commands from the BlockingQueue: `Sleep` is the predicate of
`m_condition.wait` with the mutex held ("sleep"), `Block` the wait; `Push` needs the
mutex and wakes one thread. `stop` sets its flag and notifies without the mutex, so that it
can fall into "sleep": that thread never ends, and `slipped` records it.
`left` records the handles with a command given up: for those the server cannot
keep its promises and the properties that depend on it exclude them. `SeekFails` is an
lseek that fails, on a descriptor that is not open (of a handle the server does not know) or
on one that is, for an offset or a kind of file that it does not allow. An error is a reply without
its number here: that the number of this one is -1 is plain from the code.

**FileIO.** A call cuts its range into fragments and sends all of them (`Read`, `Write`,
`WriteAtEnd`); `ExecuteRead` and `ExecuteWrite` are the worker's lseek and read or
write, one step as `ServerFiles` shows them to be serialized; `Collect` takes the answers in the order
of sending, `GiveUp` ends the call at an error or timeout and leaves any part of what
is pending to be executed later. `Start` has what the kernel excludes: writes of one
file exclude each other (inode lock), and a read the pages that are written.
The file does not outgrow `Size` whatever is left (`Fits`).

`WholeRangeIO` promises this: a write that returned its whole length is in the
file at its place, and a read returns it. It is
weaker than a file of one machine in four ways, all of which the code shows.
A call that failed or wrote less makes its range *unsure*: part of it may be there. What is left of a failed
call (`late`) may be executed any time later, *over what was written since*, so that a
write is certain (`sure`) only where nothing is left. An append of several fragments
is there as a set of units, in any order. And of a place that is unsure a read returns
anything. The refinement maps the file and the calls under way
to what a client can know of every place.

**ClientFiles.** A call of CachedVfs is two steps or more: the command, executed by the
server, and what the client then does under the cache lock (`OpenDone`, `ReadDone`,
`WriteDone`, ...), with other threads between. A block holds the number of its write, a file
has up to two blocks, and a read is for the page of both. A read the cache answers changes
nothing and is no action: what it would return is the property `CachedIsServed`.

A write need not land where it was meant to (`Landings`): nothing of it may be written, or at the end of a file that
is open to append to, in whatever order the server executes appends. The client caches all of it at its
offset (`WriteDone`). A write of several blocks is several fragments, of which some may be
written: that is the same for each block. A command of a call that failed may have been executed before the call
failed (then a `...Fails` follows the command) or is executed later, whatever
came between: `LateWrite`, `LateTruncate`, `LateOpen`, `LateCreate`, `LateChange`,
`LateClose`. Such a call changed nothing before, on the server or in the client, so the model needs no record
of it and lets any command come late; it counts as a call.

A load is `Scan` (on the server), `Populate` or `LoadFails`, any number of `Preload` and
`LoadEnds`, with the steps of calls between any two of these. (The code keeps the cache lock during
the preloading, so that steps which need it come before or after; the model has more orders.) `Preload` caches what the file has up to the size the cache knows, and
fills the page up with zeros. (The code preloads `.gitignore` files; any path here.)

The history variables name what the code gets wrong, each at the step that does it, so that
the properties say that *nothing else* is wrong:

- `stale`: blocks behind the end of a short read (the whole buffer is cached) or of preloaded data, behind
  the new end of a truncated file, of a file opened with O_TRUNC, below a renamed directory, of the path an
  entry had when a write went to the file by another name, of a write that was cached but did not
  land there, and of calls that failed after their command was executed;
- `unsized`: paths whose cached `st_size` is out of date for the same reasons, or because the
  file changed between scan and populate (`behind`);
- `due`: somebody else changed a file, or a command came late, since the last populate; nobody tells
  the cache before the next load;
- `lost`: handles the client forgot: an `open` or `create` failed after the server executed it or was executed
  late, two reads opened the same entry, or a read failed after its lazy open;
- `moved`: entries opened lazily by a path that named another file by then.

A close that fails leaves its entry in the table, with its handle, for ever.

The kernel and libfuse exclude some overlaps (`Conflict`): libfuse locks the paths of calls that
change names, the kernel the inode of a written or truncated file and the page that is read.
libfuse renames an open file instead of removing it (`Unused`).

**Content.** `AfterWrite` is `Content::write`: overwrite in place when one block has
all the bytes, else insert, sort and `flatten`. `written` says what every byte should
be; `backward` collects bytes last written by a block that partly overlapped a block
starting behind it, where the code's copy order is wrong (see the findings).

**TreeLoader.** The tree is its version number. `tree_loader` is a loop of `Begin`,
`Test`, `Block`/`Wake` (the condition variable), `ReadTree`, `Populate`, `Preload`,
`Preloaded`, `Clear`. `Raise` and `Signal` are the two statements of
`invalidate_tree`, which takes no lock. `WriteGetattr` stands for the calls that
keep the cache lock while they wait for the network (CachedVfs::write).
Frames are lost in both directions while the server runs (`Lose`, `Notify`), and a call may end at
its deadline although its answer would come: a load that asked for the tree then fails
(`LoadFails`), and its flag is cleared all the same; the answer comes later, with an identifier nobody
waits for (`EndCall`). `disturbed` records what the code does not recover from, since the last scan: the tree changed while it was
loaded, the load failed, a notification was lost, or the server stopped.

**Watcher.** The tree is the set of its paths. Every change appends its inotify event
while the tree is watched, and removal of a watched directory an IN_IGNORED event
before or after it. A worker gets a command and reads the clock (`Begin`), lists the path with that
time when it has the lock (`Add`), does both again for a second path (`ReadClock`), then makes
the system call path by path (`Execute`). Another worker lists a path meanwhile (`AddOther`)
with a time up to `Skew` ago: the times in `items` are almost sorted. A check erases
what `std::lower_bound` finds to be obsolete - the function follows its binary search, which
on unsorted times is not the set of smaller times - and looks for the path (`Ignore`, `Accept`).
Every end of the loop body drops pending
events and the watches (`Leave`), as the BOOST_SCOPE_EXIT_ALL does. `unseen` and
`missed` record what is not yet notified: made under watch, or dropped with
an ignored event or made while nothing was watched. A change under watch is notified or dropped in the end,
and notified if the clients are quiet (`ClientsQuiet`): they run no command, none of their events is
left, and no path was listed within the last second.

**CachedTree.** A tree is a function from paths to attributes; a call is `Begin`,
`Remote` (the server changes `disk`), `GetStat` and `GetParent` where the code asks
for attributes, and `Update` under the cache lock, which throws (`UpdateThrows`) in
the cases in which `cache::Tree` does. A call whose answer does not come leaves its command in `late`, and the server
may execute it after any other calls and loads (`RemoteLate`), or never. `utimens` of a symbolic
link changes the file it points to, as the server calls utimensat without a flag, and the client then stores the attributes of the link
(`RemoteFollows`). `Scan` and `Populate` are the two ends of a load; `LoadFails` is one
whose tree did not come in time, which leaves the cache as it was. `tainted` records what only the next load
puts right (`Taint`): a call overlapped a load, failed after its change was made or followed a link, a command was executed
late, or the load itself failed. `due` records that a change on the server waits for its load, and
`dirsStale` that a create, rename or exchange left attributes of directories alone.

### Abstractions and what they assume

- nanomsg NN_PAIR: a FIFO per direction, may lose frames, never duplicates one.
- The kernel: lowest free descriptor; closes a handle when no call on it is
  outstanding (release); asks for a call only if the lookup, which the cached tree
  answers, allows it; locks the inodes a call works on, and libfuse the paths
  (`Locked`, `Conflict` in CachedTree), so that conflicting calls do not overlap.
- inotify: one event per changed path, in order; IN_IGNORED besides a removal.
- Commands and watcher are in time: an event on a listed path is looked at before the
  second is over, less the time two workers are apart (`Pending`, `Tick`). The code
  relies on it; on a server slower than that a client gets an echo.
- The tree is scanned in one step; an overlapping change marks the load as disturbed.
- Preloading reads a file in the step in which it is cached: what changes it in between is a
  change by others, or a write whose caller waits for the cache lock and will cache it.
- The program is built with assertions.

## Runs

| run | module, configuration | bounds | shows |
|---|---|---|---|
| `rpc` | MCRpc, MCRpc.cfg | 2 callers (one resident), 3 commands, 2 per call, 2 workers, 1 restart, all faults | commands run at most once, replies answer their own command, dropped frames never run, `m_items` keeps only replies of abandoned calls, every call of which nothing was lost returns, and `Rpc` implements `AtMostOnceCall` |
| `files` | MCServerFiles, MCServerFiles.cfg | 2 threads, 2 handles, 2 reads/writes, 1 restart, abandoned commands, failing system calls, a stop | I/O and close hit the file of the handle, the asserts of `process_open` hold, a File in use is not erased, I/O of a descriptor is serialized, without a restart no exception ends the server and awaited commands have an open descriptor, closed handles leave no descriptor; every command is answered, and threads end after a stop unless it slipped |
| `files_restart` | MCServerFiles, MCServerFilesRestart.cfg | as `files`, fewer | finding: violation of `AlwaysUp` |
| `content` | Content, MCContent.cfg | 5 bytes of 2 values, any number of writes | blocks sorted and apart, hit exactly if known, last bytes written are read (except `backward`) |
| `content_backward` | Content, MCContentBackward.cfg | the same | finding: violation of `AlwaysReadsLastWrite` |
| `loader` | TreeLoader, MCTreeLoader.cfg | 1 change, 1 restart, 1 write, 1 lost frame or missed deadline besides, stop | no change is forgotten unless disturbed; the cache lock is released and every load ends, and with it the loader of a client that stops unless it waits |
| `loader_connect` | TreeLoader, MCTreeLoaderConnect.cfg | no change at all | finding: violation of `ConnectLoads` |
| `watcher` | Watcher, MCWatcher.cfg | 2 paths, 1 edit, 1 command of up to 2 paths, 1 path listed by another worker, 5 instants with a duration of 2 and a skew of 1, errors, stop | no echo, items are forgotten in time, every edit under watch is notified or dropped in the end, and notified if the clients are quiet |
| `watcher_missed` | Watcher, MCWatcherMissed.cfg | 1 edit, 1 command | finding: violation of `AllEditsReported` |
| `tree` | MCCachedTree, MCCachedTree.cfg | 2 threads, 3 events (calls of all kinds, edits, loads), 2 names, 2 levels, errors, late commands, failing loads, replacing renames, links | cache = server after undisturbed loads and calls, attributes of directories included; no call fails after its work is done |
| `client_files` | MCClientFiles, MCClientFiles.cfg | 2 threads, 2 paths, 2 blocks, 2 calls or late commands, 1 edit, any number of loads | what is cached is what is served, sizes too, but for what `stale`, `unsized` and `due` name; handles of the server are known to the client but for `lost`; an open file is used through a handle of that file but for `moved` |
| `fileio` | FileIO, MCFileIO.cfg | 3 calls, 3 units in fragments of 2, 1 fault (timeout, error or short write) | the count a write returns is what it wrote; `FileIO` implements `WholeRangeIO` |

Why the bounds are enough: each hazard needs two threads of a kind and one more event.
Two commands in one call make fragments that can be reordered and
dropped, a third a later call that a late reply might answer. Two handles make a
descriptor number that is reused, two commands on one handle a waiter on its
mutex. Five bytes have room for two separate blocks and one that bridges or partly
overlaps both. Two paths are a rename. Two names and two levels have
moved subtrees, siblings and a common parent; two calls at once and one before them.
One change can fall in any phase of a load, before or after a restart.
Three units in fragments of two are a full fragment and a partial one; three calls are
one that fails, one that writes over what it left, and one that reads. Two calls on
open files are one in its middle and one that comes between: up to two entries are open in
the initial states, for reading, writing or both. The theorems about `ClientFiles` have no such bound. Its run identifies states that differ only
in the content of blocks that are stale, or in what waits for the next load (`View`): no property
looks at these. Two blocks are one before and one behind the end of a short file. Five instants are two more than `Duration`: an item is erased too early, in time,
or too late, and its neighbour is the other way round.

Deadlock is checked, except where the system may legitimately rest or the calls of
the bound are used up: `Watcher` without a change, `CachedTree` and `FileIO` after their
calls. In
`Rpc` and `ServerFiles` the action `Done` marks the used-up bound.

### Fairness

Weak fairness of the steps of threads that are always runnable: writer, reader,
`recv_loop`, workers (`Rpc`, `ServerFiles`), loader, heartbeat, watcher. Nothing is
assumed to start a call, change a file, lose a frame, stop or fail. `Rpc` assumes
nothing of deadlines: calls return without them unless a frame was lost. `TreeLoader`
assumes that a server that stopped comes back and executes what reached it, and that
a command that was lost times out (the deadlines of `wait_for_result`); a load then
ends with an exception that is logged. A deadline that comes before an answer is not fair: nothing may depend on it (`Unwaiting`). `Watcher` uses fairness of the steps that do
not fail, so that an error never helps a property. The mutexes need no fairness of
their own in these runs: weak fairness of the thread suffices since the bound on
commands ends the competition. Reader and heartbeat of `TreeLoader` are fair only while the client
is not told to stop: a stop may end them first, and `LoadsEnd` must not
need them. `ClientFiles` and `FileIO` state safety only, as their liveness is that of `Rpc`.

## Proofs

Every theorem holds for any number of threads, calls, handles, paths, restarts and
losses, any size of a file and of its fragments, and any tree: nothing is assumed but the `ConstantsAssumption` of the
module, which says that the bounds are numbers and the sets finite, that what stands for no
value is none, that there is a handle (`ServerFiles`), and that
a page has a block (`ClientFiles`). None of the properties is inductive; each part of the
invariants below was checked by TLC, as an invariant of the module's run, before it was
proved. The proofs have one lemma per action, or one for actions that
differ in what they leave alone, and `StepInv` or its like combines them.

| module | theorem | says |
|---|---|---|
| `RpcProofs` | `Invariance` | the inductive invariant `IInv` |
| | `TypeCorrect` | `TypeOK` |
| | `NeverTwice` | `AtMostOnce` |
| | `RepliesAreTrue` | `AnsweredWasExecuted` |
| | `DroppedStaysDropped` | `CancelledNeverRuns` |
| | `CallInvariance` | the inductive invariant `CallInv` |
| | `NoOrphans` | `NoOrphanItems` |
| | `Refinement` | `ImplementsAtMostOnceCall` |
| `ServerFilesProofs` | `Invariance` | the inductive invariant `IInv` |
| | `TypeCorrect` | `TypeOK` |
| | `AssertsHold` | `OpenAsserts` |
| | `RightDescriptor` | `IOHitsItsFile` |
| | `NoDanglingRef` | `RefsAlive` |
| | `OneIOAtATime` | `SerializedIO` |
| | `KnownHandles` | `HandlesKnown` |
| | `EverythingClosed` | `NoFdLeak` |
| `TreeLoaderProofs` | `TypeCorrect` | `TypeOK` |
| | `Invariance` | the inductive invariant `IInv` |
| | `NoChangeForgotten` | `NothingForgotten` |
| `WatcherProofs` | `Invariance` | the inductive invariant `IInv` |
| | `TypeCorrect` | `TypeOK` |
| | `ClientsHearNoEcho` | `NoEcho` |
| | `ItemsForgotten` | `ForgottenInTime` |
| `CachedTreeProofs` | `Invariance` | the inductive invariant `IInv` |
| | `TypeCorrect` | `TypeOK` |
| | `TreesAgree` | `SameTree` |
| | `DirectoriesAgree` | `SameDirectories` |
| | `UpdatesPossible` | `UpdatePossible` |
| `ContentProofs` | `Invariance` | the inductive invariant `IInv` |
| | `TypeCorrect` | `TypeOK` |
| | `BlocksStayApart` | `BlocksApart` |
| | `HitsAreKnown` | `HitIffKnown` |
| | `LastWriteRead` | `ReadsLastWrite` |
| `ClientFilesProofs` | `HandlesInvariance` | the inductive invariant `HandleInv` |
| | `TypeCorrect` | `TypeOK` |
| | `NoLeak` | `NoHandleLeak` |
| | `RightFileUsed` | `RightFile` |
| | `CacheInvariance` | the inductive invariant `CacheInv`, with `HandleInv` |
| | `SizeServed` | `SizeIsServed` |
| | `CacheServed` | `CachedIsServed` |
| `FileIOProofs` | `Invariance` | the inductive invariant `IInv` |
| | `TypeCorrect` | `TypeOK` |
| | `CountWritten` | `CountIsWritten` |
| | `Refinement` | `ImplementsWholeRangeIO` |

**Rpc.** That a command runs at most once
follows from where its frame is: `OnePlace` and `InOrder` say that no frame is in two
places - unsent queue of a caller, socket, request queue, worker thread - or
twice in one of them, `UnderwayUnexecuted` that a frame in any of them was handed out,
has not run and was not withdrawn, `UnissuedUnexecuted` that identifiers to come have not run,
and `RepliesExecuted` that what is on its way back, or kept in `m_items`, did run. Each
action moves a frame from one place to the next; `GiveUpInv` is
shared by the two early ends of a call, `DownlinkInv` by the actions of the way back.
What `Append`, `Tail` and `RemoveAt` do to the elements and to injectivity is in lemmas
of their own, which the other modules with queues have, too.

The refinement needs the caller's side as well: `OneCall` and `PendingHeld` say that an
identifier is pending exactly while one call has it, `OwnFrames` that dropping a queue withdraws
nothing of another call, and `OneReply` and `AnsweredGone` that a reply is in one place and, once
it was taken, in none. With them each step maps to one of `AtMostOnceCall` or to a stutter
(`AbstractStep`): in `AddCommandCall`, `GiveUpCall` and their like, invariant and
mapping are proved together, as an action's effect on `outcome` serves both.

**ServerFiles.** A number says little: a descriptor that was closed is soon that of another file,
and the entry of the first may still have it. The invariant ties it to the handle's history.
`ClientInv` says which commands may be under way for a handle in each of its
states (an open is alone, a close comes when nothing is awaited), `TableInv` what the
thread that executes one knows at each step: `OpenSteps` from `open` to the entry,
`Tabled` that each descriptor has its entry or the thread that is to make it, `Stale` that an entry with
another's descriptor belongs to a close that got past `close()`, `Held` and `Locked` that what a
thread took with the mutex is still so. `IOHitsItsFile` follows from `Held` and `Stale`;
`SerializedIO` from `Locked`, and from `Stale` again: two
handles with one descriptor would need two Files. `HandlesKnown` is a part of the invariant,
since an unknown handle is what makes the later steps go wrong.

**TreeLoader.** `LoadIsDue` is the heart: if nothing disturbed the loader and it is connected, the mirror is
the served tree, or a notification is on its way - unreported, in the socket, between
`Raise` and `Signal`, or as the flag. It is kept through a load by
`ScanIsServed` and `MirrorIsServed`, phase by phase, and by `OneAnswer`: an answer of a
command given up must not be taken for that of the next load. `ScanIsServed` needs a load that asked for the tree and
got an answer, so that one that timed out is not taken for it. The only ways to lose a
change are those `disturbed` names.

**Watcher.** `OpListed` and `EventsExpected` say that the paths of a command, and of
the events it raised, are listed since it began, and `Soon` that it is not too late to find them.
They stay so if a check never erases an item that is still needed, which is not
plain: the items are in the order in which workers got the lock, the times in that in which they read the
clock, and `std::lower_bound` on what is not sorted promises nothing. `LowerBoundFacts`
says what its binary search does find in any sequence - a place with an item that is earlier before it,
and one that is not behind it - by induction on the length that is left to search. `AlmostSorted`,
that no item is later than one behind it by more than `Skew`, then gives both theorems: what is erased is
older than `Duration - Skew` (`KeptListed`), what is kept not older than `Duration + Skew`
(`KeptSorted`). The induction is by `InductionOnSet`, from the
least element of a set of numbers.

**CachedTree.** `SameTree` speaks of states without calls; what makes it true is said of
those with them. The invariant compares the trees path by path. A call reads and writes the paths of its
*region* (`InRegion`): the paths that the kernel and libfuse lock for it and, if it removes or moves them,
all below. `RegionsApart` derives from the locks alone (`CallsApart`) that two calls under way have
disjoint regions, which needs what a prefix is, what two paths with a common one are to
each other, and that a parent is outside of the subtrees its call moves. While nothing waits for a load,
`Elsewhere` says that the cache is right at every path that is in no region of a call between
server and cache; `UpdateIsRight` that each of these can still be made in the cache, and makes its region
right; `StatsAreRight` that the attributes it asked for are still the served ones; `ParentsAreDirs` that the
directories it needs are cached. When the server executes a call, `CallRepeats` gives its `UpdateIsRight`,
from one lemma per kind of change (`MakesRepeats`, `RemovesRepeats`, `RenameRepeats`,
`ExchangeRepeats`, `AttributesRepeat`): what the server allowed, the cache can do, and with
the same result, although one moves a subtree at once and the other sets paths and attributes one by
one. The other calls lose nothing by it, since neither a change of the server nor one of
the cache touches a path outside of its region (`DoneElsewhere`, `UpdatedElsewhere`), and what an update makes of a path
depends on the cache within the region only (`UpdatedAlike`). `LoadIsRight` has the load that
makes the cache right again: undisturbed, it brings the served tree, and no call is under way.
A late command or a failed load makes the invariant say nothing of the cache until the next one.
Attributes of directories are compared only until a call leaves them alone (`dirsStale`).

**Content.** `flatten` compares a block with the one before it only, so everything rests on
`Apart`. Its loop is a fold; `MergeSteps` unrolls it into a sequence of lists, and `FlattenFacts`
shows by induction along that sequence, from `JoinFacts`, that a sorted list becomes one whose blocks
are apart, have the same bytes, and hold at each place the byte of the last block that
had it. After the sort the new block comes behind all that do not start behind it (`SortFacts`), so
only a block that starts behind it can win over the new bytes: that write is backward, and
`ShownAreLast` is kept. The other way of a write, into the one block that covers it, touches
no other (`OneBlockPerByte`). For `HitIffKnown`, the first byte that a block lacks would be in
another one, which `Apart` excludes.

**ClientFiles.** `HandleInv` has the calls and the handles. `Shapes` says what the fields of a call are in each
operation, `Compatible` that calls under way do not conflict, `OnePath` that a
file has one path. `OneOwner` says that a handle of the server belongs to one entry or
one call that opens it, `Live` that it is open on the server as long as somebody has it,
`WriteKept` and `RightCall` what a call that looked an entry up may rely on although the lock was released.
`NoHandleLeak` and `RightFile` are then kept by every step.

`CacheInv` says of every path and block, not only of settled ones, that size and block are
those served, or are doubted (`unsized`, `stale`), or that a call under way is about to set or doubt them
(`SetsSize`, `SetsBlock`), unless a load is due. `ScanRight` says the same of what a load was sent: the scanned sizes are
those served, but for the paths in `behind`; so `Populate` doubts only these (`unsized`). Two things of the calls themselves are needed: `GotRight`, that what a
read got or a write wrote is still in the file unless the call was overtaken, and `MoveRight`, that
the sizes which a rename will move are those of the paths they are moved to. `CacheStep` has
the frame of all actions: a step of one thread keeps `CacheInv` if the paths it touches
are right after it, and the other calls on them are overtaken. The attempt to prove
`CacheServed` found the history too small: a write through a handle that no longer has the path of its
entry, and a change of a path that a rename is about to move, made states on larger
instances than the run's in which a size or block was wrong and neither doubted nor about to
be set. `Overtaken` and `Renaming` now mark those calls.

**FileIO.** The hard part is that an answer is made at one time and taken at another: between the
two other fragments are executed, those of failed calls among them. `Apart` and `Touching` say that
what a call touches - its place, and for a write the gap before it - no other call
under way touches, unless both read; `LateUnknown` and `LateApart` that what is left of failed calls
changes only places that are unknown to the client anyway, and none of which a call is sure.
So `ReadsAreRight` can say that an answer has each known unit of its place, and shows no known
end too early or too late, *whenever* it is taken, and `WritesAreRight` that what was written
in full is there; each holds for the fragments taken so far as for one that still waits, and the step that takes
it joins the two. A read with a short fragment moves the units behind it (see the hazards), but
only when the place is unknown, which these two show.

`CountIsWritten` needs the units one by one: `OwnUnits` says that each unit of a call whose places
nobody else may write is in the file at most once and where it belongs, `OwnCounts` that count and answers have as
many as there are; `Fresh` that there are none before the call begins. For an append, whose
units may be anywhere behind its start, this is also what makes the last answer mean that all are
there. `Capacity` keeps the bound `Size`: there is always room for what is pending, in whatever order it is
executed and however much of it is dropped. What pending appends will need is the cardinality of a set of units
(`Unappended`), since of a sum over a set of fragments nothing can be proved here.

Then each step is one of `WholeRangeIO` (`StepAbstract`): a start is `Begin` (`BeginIs`), the execution of a
fragment and an answer that is not the last are `Settle`, the last one is `ReadReturns`, `WriteReturns`, `AppendReturns` or
`WriteReturnsShort`, and giving up is `Fail`.

Only model-checked:

- liveness (`CallsReturn`, `EveryRequestAnswered`, `ThreadsEnd`, `LockReleased`, `LoadsEnd`,
  `EditsReachClient`), which is out of the prover's reach, as ENABLED is.

## Findings

With a run that shows them:

1. `files_restart` - "Auto reconnect." (README.md:17): after a restart, closing a handle
   from before unlocks a lock that owns no mutex (server/worker.cpp:596); the
   exception leaves the worker thread and ends the server again.
2. `content_backward` - overlapping writes (tests/unit/test_caches.cpp:255): `flatten`
   lets the block with the higher start win, so that a new block that starts before
   an old one and partly overlaps it gets the old bytes (client/cache.cpp:270).
3. `loader_connect` - "The whole served tree is preloaded" (README.md:12):
   `invalidate_tree` notifies without the mutex of the condition variable
   (client/vfs.cpp:728); the wakeup of the first load can be lost.
4. `watcher_missed` - "Changes are propagated to the client." (README.md:14-16): a change made
   on the server to a path that a command of the client lists before the watcher looks
   at the event, within the second, is taken for the client's (server/watcher.cpp:147): its event is ignored, the
   watcher starts again, and the client is not told.

Seen while modelling, and left to the conditions of properties that hold:

- A change notified while the tree is loaded is forgotten when the flag is cleared after the
  load (client/vfs.cpp:921). So is one whose load fails, because the answer is later than 60 seconds
  or lost (917-921), or the server restarts between two pings (client/heartbeat.cpp:58): the
  load is not repeated: `disturbed` in `NothingForgotten`, `tainted` in `SameTree`.
- An ignored event ends the scope that flushes all pending events, those of other changes
  included, and until the new watches nothing is watched (server/watcher.cpp:115, 149): `missed`.
- A command may be executed after its call has failed (transport.hpp:292), and after the cache was
  loaded again: `tainted` in `SameTree`, `due` in `CachedIsServed` and `SizeIsServed`.
- utimens of a symbolic link changes the file it points to (server/worker.cpp:498): `tainted`.
- A load that overlaps a call may take the call's change out of the cache again, without
  a notification to follow (client/vfs.cpp:750): `tainted` in `SameTree`.
- A rename over an existing file succeeds on the server and throws in the cache
  (client/cache.cpp:120), before the content of the two paths is deleted
  (client/cache.cpp:347): `Replaces` in `UpdatePossible`, `stale` in `CachedIsServed`.
- An lseek that fails makes `process_read` and `process_write` answer the offset
  -1 as error number (server/worker.cpp:619, 653), against the assert of
  client/fuse.cpp:37, for a handle the server does not know and for an open descriptor too: not in a property.
- A read that was given up may still use the mutex of a File that a close erases, and its
  descriptor number that the next open gets (server/worker.cpp:592-604): `left` in
  `SerializedIO`, `IOHitsItsFile` and `RefsAlive`.
- An open whose reply is late leaves its descriptor open; a close that reports an error
  leaves its entry in the table: `left` and "failed" in `NoFdLeak`.
- A short read caches the whole buffer, zeros included (client/vfs.cpp:646); truncate, O_TRUNC and
  the rename of a directory leave cached content alone (client/vfs.cpp:541, client/cache.cpp:347);
  open with O_TRUNC leaves the cached size, too: `stale` and `unsized` in `CachedIsServed` and
  `SizeIsServed`. A preloaded block is filled up with zeros (client/vfs.cpp:806).
- A write caches all of its input at its offset, whatever the server wrote of it, and
  wherever an append landed (client/vfs.cpp:676-677): `stale`.
- A size that a write or truncate stored between the scan of a load and its populate is
  overwritten by the older one (client/vfs.cpp:742-766): `unsized`.
- A write through a handle whose path was renamed updates content and attributes of the old
  path, or fails with ENOENT although it was made (client/vfs.cpp:672): `stale`, `unsized`.
- The lazy open uses the path of the time of the open (client/vfs.cpp:640), and two of them
  at once lose a handle (client/vfs.cpp:638), as an open, create or read does that fails after the
  server opened: `moved` in `RightFile`, `lost` in `NoHandleLeak`.
  CachedVfs::close erases its entry after the command only, so that one that throws leaves it for ever.
- What is left of a write that timed out may overwrite a later one: `late` in `WholeRangeIO`.
- BackgroundLoader::stop wakes nobody (client/vfs.cpp:710), and BlockingQueue::stop may fall between
  predicate and wait (server/worker.hpp:59): "blocked" in `LoadsEnd`, `slipped` in `ThreadsEnd`.

## Not modelled, and why

Compression, logging, the message formats and the nanomsg wrapper have no state of
their own. `map_path` and `breadth_first_tree` are functions of a path and of the file
system. Options and signals of `main`, the Apps and Fuse are
start and stop of a process here: App::run starts and joins threads whose ends are modelled
(`LoadsEnd`, `ThreadsEnd`), and `Fuse::stop` unmounts, which ends the loop of libfuse.
`stat`, `readdir` and `readlink` change nothing.
The bytes of a read or write are numbered units, and the layout of blocks in the cache
is `Content`'s alone. That the iterator which CachedVfs::close
keeps over its command (client/vfs.cpp:606) survives a rehash is a matter of the standard
library: an entry is its handle here. Rename of directories is in `CachedTree` with the subtree below,
in `ClientFiles` as a change of the paths of the files below.

## Plan

All modules of the plan are there:

1. `AtMostOnceCall`, `Rpc`: messaging, its abstract specification, refinement.
2. `RpcProofs`: the safety of `Rpc`, and its refinement.
3. `ServerFiles`, `ServerFilesProofs`: tables, mutexes and descriptors, the queue and its stop.
4. `Content`, `ContentProofs`: blocks against a flat array.
5. `TreeLoader`, `TreeLoaderProofs`: notifications, loads, the cache lock, the loader's end.
6. `Watcher`, `WatcherProofs`: which changes are reported, and the list of ignored paths with its times.
7. `CachedTree`, `CachedTreeProofs`: two trees kept equal.
8. `WholeRangeIO`, `FileIO`, `FileIOProofs`: fragments against whole ranges, refinement.
9. `ClientFiles`, `ClientFilesProofs`: open files and what is cached of them.

What could follow is a composition of `Watcher` and `TreeLoader` (an edit on the server reaches
the cache), which the two already show in halves that meet in the notification.
