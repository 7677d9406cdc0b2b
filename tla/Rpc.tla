-------------------------------- MODULE Rpc --------------------------------
(***************************************************************************)
(* The messaging layer of rewofs, client and server.                       *)
(*                                                                         *)
(*   caller --add_command--> Serializer --run_writer--> uplink             *)
(*     ^                                                  |                *)
(*     |                                              recv_loop            *)
(*  wait_for_result                                       v                *)
(*     |                                            BlockingQueue          *)
(*  Deserializer <--run_reader-- downlink <-- worker threads               *)
(*                                                                         *)
(* A caller is a thread of the client: a FUSE thread in a call of          *)
(* RemoteVfs, the tree loader, or the heartbeat.  A frame is its message   *)
(* identifier: the commands differ in nothing the layer looks at.  The     *)
(* socket (nanomsg, NN_PAIR) is external: per direction a FIFO that, if    *)
(* Lossy, loses frames, and that never duplicates one.                     *)
(***************************************************************************)
EXTENDS Naturals, FiniteSets, SequencesExt

CONSTANTS
    Callers,      \* threads of the client that issue commands
    Resident,     \* those that keep one queue forever (the heartbeat)
    Priority,     \* priority of the queue of each caller
    NumWorkers,   \* worker threads of the server (50 in worker.hpp)
    MaxFrames,    \* most commands one call queues (fragments of a read or write)
    MaxId,        \* bound: identifiers handed out
    MaxRestarts,  \* bound: restarts of the server
    Lossy,        \* the socket and the sends may lose frames
    Timeouts,     \* a wait for a reply may time out
    Errors        \* a reply may carry an error, which ends the call early

ASSUME ConstantsAssumption ==
    /\ Resident \subseteq Callers
    /\ Priority \in [Callers -> Nat]
    /\ NumWorkers \in Nat \ {0}
    /\ MaxFrames \in Nat \ {0}
    /\ MaxId \in Nat
    /\ MaxRestarts \in Nat
    /\ {Lossy, Timeouts, Errors} \subseteq BOOLEAN

Ids == 1..MaxId

\* The id of the NotifyChanged frames, which answer no command.  The
\* dispenser is seeded from a clock, so no command has it.
NotifyId == 0

VARIABLES
    nextId,     \* Serializer::m_id_dispenser
    queue,      \* Serializer::m_queues: the unsent frames of each caller
    pc,         \* where each caller is
    mids,       \* replies each caller still has to wait for, in that order
    uplink,     \* frames in the socket, towards the server
    requests,   \* Worker::m_requests_queue
    taken,      \* frames popped by a worker thread that has not executed them
    answering,  \* executed commands whose reply was not sent yet
    downlink,   \* replies and notifications in the socket, towards the client
    items,      \* Deserializer::m_items
    outcome,    \* what the callers know of each command
    runs,       \* how often each command was executed
    restarts    \* how often the server was restarted

callerVars == <<pc, mids, outcome>>
serverVars == <<requests, taken, answering, runs>>
vars == <<nextId, queue, pc, mids, uplink, requests, taken, answering,
          downlink, items, outcome, runs, restarts>>

TypeOK ==
    /\ nextId \in 1..(MaxId + 1)
    /\ queue \in [Callers -> Seq(Ids)]
    /\ pc \in [Callers -> {"idle", "adding", "waiting"}]
    /\ mids \in [Callers -> Seq(Ids)]
    /\ uplink \in Seq(Ids)
    /\ requests \in Seq(Ids)
    /\ taken \in SUBSET Ids
    /\ answering \in SUBSET Ids
    /\ downlink \in Seq(Ids \cup {NotifyId})
    /\ items \in SUBSET (Ids \cup {NotifyId})
    /\ outcome \in [Ids -> {"new", "pending", "answered", "abandoned", "cancelled"}]
    /\ runs \in [Ids -> Nat]
    /\ restarts \in 0..MaxRestarts

Init ==
    /\ nextId = 1
    /\ queue = [c \in Callers |-> <<>>]
    /\ pc = [c \in Callers |-> "idle"]
    /\ mids = [c \in Callers |-> <<>>]
    /\ uplink = <<>>
    /\ requests = <<>>
    /\ taken = {}
    /\ answering = {}
    /\ downlink = <<>>
    /\ items = {}
    /\ outcome = [i \in Ids |-> "new"]
    /\ runs = [i \in Ids |-> 0]
    /\ restarts = 0

-----------------------------------------------------------------------------
(* Client: the calls.                                                      *)

\* Mutant: the dispenser increments before it hands out the id.
AddCommandPreIncrement(c) ==
    /\ pc[c] \in {"idle", "adding"}
    /\ Len(mids[c]) < MaxFrames
    /\ nextId \in Ids
    /\ nextId' = nextId + 1
    /\ queue' = [queue EXCEPT ![c] = Append(@, nextId')]
    /\ mids' = [mids EXCEPT ![c] = Append(@, nextId')]
    /\ outcome' = [i \in Ids |-> IF i = nextId' THEN "pending" ELSE outcome[i]]
    /\ pc' = [pc EXCEPT ![c] = "adding"]
    /\ UNCHANGED <<uplink, serverVars, downlink, items, restarts>>

\* Serializer::add_command.  A call opens its queue with its first command;
\* the writer may send a fragment while the call queues the next.
AddCommand(c) ==
    /\ pc[c] \in {"idle", "adding"}
    /\ Len(mids[c]) < (IF c \in Resident THEN 1 ELSE MaxFrames)
    /\ nextId \in Ids
    /\ nextId' = nextId + 1
    /\ queue' = [queue EXCEPT ![c] = Append(@, nextId)]
    /\ mids' = [mids EXCEPT ![c] = Append(@, nextId)]
    /\ outcome' = [outcome EXCEPT ![nextId] = "pending"]
    /\ pc' = [pc EXCEPT ![c] = "adding"]
    /\ UNCHANGED <<uplink, serverVars, downlink, items, restarts>>

AwaitReplies(c) ==
    /\ pc[c] = "adding"
    /\ pc' = [pc EXCEPT ![c] = "waiting"]
    /\ UNCHANGED <<nextId, queue, mids, uplink, serverVars, downlink, items,
                   outcome, restarts>>

\* The call of c gives up on the commands of `left': its QueueRef goes out of
\* scope and takes the unsent frames with it (drop_queue), unless it is a
\* member of the caller.
GiveUp(c, answered, left) ==
    LET dropped == IF c \in Resident THEN {} ELSE ToSet(queue[c])
    IN  /\ queue' = IF c \in Resident THEN queue ELSE [queue EXCEPT ![c] = <<>>]
        /\ outcome' = [i \in Ids |-> IF i \in answered THEN "answered"
                                     ELSE IF i \in dropped THEN "cancelled"
                                     ELSE IF i \in left THEN "abandoned" ELSE outcome[i]]
        /\ mids' = [mids EXCEPT ![c] = <<>>]
        /\ pc' = [pc EXCEPT ![c] = "idle"]

\* Mutant: the first item is taken, whatever its id.
TakeReplyOfAnyId(c) ==
    /\ pc[c] = "waiting"
    /\ \E i \in items : items' = items \ {i}
    /\ outcome' = [outcome EXCEPT ![Head(mids[c])] = "answered"]
    /\ mids' = [mids EXCEPT ![c] = Tail(@)]
    /\ pc' = [pc EXCEPT ![c] = IF Len(mids[c]) = 1 THEN "idle" ELSE @]
    /\ UNCHANGED <<nextId, queue, uplink, serverVars, downlink, restarts>>

\* Mutant: the item is not erased.
TakeReplyKeepsItem(c) ==
    /\ pc[c] = "waiting"
    /\ Head(mids[c]) \in items
    /\ outcome' = [outcome EXCEPT ![Head(mids[c])] = "answered"]
    /\ mids' = [mids EXCEPT ![c] = Tail(@)]
    /\ pc' = [pc EXCEPT ![c] = IF Len(mids[c]) = 1 THEN "idle" ELSE @]
    /\ UNCHANGED <<nextId, queue, uplink, serverVars, downlink, items, restarts>>

\* wait_for_result finds the item of the next command of the call.
TakeReply(c) ==
    /\ pc[c] = "waiting"
    /\ Head(mids[c]) \in items
    /\ items' = items \ {Head(mids[c])}
    /\ outcome' = [outcome EXCEPT ![Head(mids[c])] = "answered"]
    /\ mids' = [mids EXCEPT ![c] = Tail(@)]
    /\ pc' = [pc EXCEPT ![c] = IF Len(mids[c]) = 1 THEN "idle" ELSE @]
    /\ UNCHANGED <<nextId, queue, uplink, serverVars, downlink, restarts>>

\* The reply carries an error: the call throws and waits for no other reply.
TakeError(c) ==
    /\ Errors
    /\ c \notin Resident
    /\ pc[c] = "waiting"
    /\ Head(mids[c]) \in items
    /\ items' = items \ {Head(mids[c])}
    /\ GiveUp(c, {Head(mids[c])}, ToSet(Tail(mids[c])))
    /\ UNCHANGED <<nextId, uplink, serverVars, downlink, restarts>>

\* The deadline passes.  The reply may be there by then: wait_for_result looks
\* at the clock before it looks at m_items again.
TimedOut(c) ==
    /\ Timeouts
    /\ pc[c] = "waiting"
    /\ GiveUp(c, {}, ToSet(mids[c]))
    /\ UNCHANGED <<nextId, uplink, serverVars, downlink, items, restarts>>

-----------------------------------------------------------------------------
(* Client: the threads of Transport.                                       *)

\* Mutant: the loop over the sorted queues ends at the first one, empty or not.
ConsumableFirstOnly ==
    {c \in Callers : /\ queue[c] # <<>>
                     /\ \A d \in Callers : Priority[d] <= Priority[c]}

\* The queues Serializer::pop may choose from: it sorts by priority and the
\* order of equals is the sort's.
Consumable ==
    LET nonEmpty == {c \in Callers : queue[c] # <<>>}
    IN  {c \in nonEmpty : \A d \in nonEmpty : Priority[d] <= Priority[c]}

\* Mutant: the frame is sent and not popped.
SendKeepsFrame(c) ==
    /\ c \in Consumable
    /\ uplink' = Append(uplink, Head(queue[c]))
    /\ Len(uplink) < MaxId
    /\ UNCHANGED <<nextId, queue, callerVars, serverVars, downlink, items, restarts>>

\* run_writer: pop, compress and nn_send under Serializer::m_mutex.
Send(c) ==
    /\ c \in Consumable
    /\ uplink' = Append(uplink, Head(queue[c]))
    /\ queue' = [queue EXCEPT ![c] = Tail(@)]
    /\ UNCHANGED <<nextId, callerVars, serverVars, downlink, items, restarts>>

\* nn_send times out or the compression throws: the frame is popped all the same.
SendFails(c) ==
    /\ Lossy
    /\ c \in Consumable
    /\ queue' = [queue EXCEPT ![c] = Tail(@)]
    /\ UNCHANGED <<nextId, callerVars, uplink, serverVars, downlink, items, restarts>>

\* run_reader: Deserializer::process_frame.  emplace keeps an item that is there.
Arrive ==
    /\ downlink # <<>>
    /\ items' = items \cup {Head(downlink)}
    /\ downlink' = Tail(downlink)
    /\ UNCHANGED <<nextId, queue, callerVars, uplink, serverVars, restarts>>

-----------------------------------------------------------------------------
(* Server: recv_loop and the worker threads.                               *)

Receive ==
    /\ uplink # <<>>
    /\ requests' = Append(requests, Head(uplink))
    /\ uplink' = Tail(uplink)
    /\ UNCHANGED <<nextId, queue, callerVars, taken, answering, downlink,
                   items, runs, restarts>>

\* Mutant: BlockingQueue::pop copies the request and leaves it there.
DispatchKeepsRequest ==
    /\ requests # <<>>
    /\ Cardinality(taken \cup answering) < NumWorkers
    /\ taken' = taken \cup {Head(requests)}
    /\ UNCHANGED <<nextId, queue, callerVars, uplink, requests, answering,
                   downlink, items, runs, restarts>>

Dispatch ==
    /\ requests # <<>>
    /\ Cardinality(taken \cup answering) < NumWorkers
    /\ taken' = taken \cup {Head(requests)}
    /\ requests' = Tail(requests)
    /\ UNCHANGED <<nextId, queue, callerVars, uplink, answering, downlink,
                   items, runs, restarts>>

\* process_message, up to the call of the process_... function.
Execute(i) ==
    /\ i \in taken
    /\ runs' = [runs EXCEPT ![i] = @ + 1]
    /\ taken' = taken \ {i}
    /\ answering' = answering \cup {i}
    /\ UNCHANGED <<nextId, queue, callerVars, uplink, requests, downlink,
                   items, restarts>>

Reply(i) ==
    /\ i \in answering
    /\ answering' = answering \ {i}
    /\ downlink' = Append(downlink, i)
    /\ UNCHANGED <<nextId, queue, callerVars, uplink, requests, taken, items,
                   runs, restarts>>

\* Transport::send ignores the result of nn_send.
ReplyFails(i) ==
    /\ Lossy
    /\ i \in answering
    /\ answering' = answering \ {i}
    /\ UNCHANGED <<nextId, queue, callerVars, uplink, requests, taken,
                   downlink, items, runs, restarts>>

\* Watcher::notify_change.  Bound: one notification in the socket.
Notify ==
    /\ NotifyId \notin ToSet(downlink)
    /\ downlink' = Append(downlink, NotifyId)
    /\ UNCHANGED <<nextId, queue, callerVars, uplink, serverVars, items, restarts>>

-----------------------------------------------------------------------------
(* Environment.                                                            *)

LoseUp(k) ==
    /\ Lossy
    /\ uplink' = RemoveAt(uplink, k)
    /\ UNCHANGED <<nextId, queue, callerVars, serverVars, downlink, items, restarts>>

LoseDown(k) ==
    /\ Lossy
    /\ downlink' = RemoveAt(downlink, k)
    /\ UNCHANGED <<nextId, queue, callerVars, uplink, serverVars, items, restarts>>

\* The server process dies and comes back; nothing of it is persistent.
Restart ==
    /\ restarts < MaxRestarts
    /\ restarts' = restarts + 1
    /\ requests' = <<>>
    /\ taken' = {}
    /\ answering' = {}
    /\ UNCHANGED <<nextId, queue, callerVars, uplink, downlink, items, runs>>

\* Bound: all identifiers are used up and every call has returned.
Done ==
    /\ nextId \notin Ids
    /\ \A c \in Callers : pc[c] = "idle"
    /\ UNCHANGED vars

-----------------------------------------------------------------------------
Calls(c) ==
    \/ AddCommand(c) \/ AwaitReplies(c)
    \/ TakeReply(c) \/ TakeError(c) \/ TimedOut(c)
    \/ Send(c) \/ SendFails(c)

Next ==
    \/ \E c \in Callers : Calls(c)
    \/ Arrive \/ Receive \/ Dispatch \/ Notify
    \/ \E i \in Ids : Execute(i) \/ Reply(i) \/ ReplyFails(i)
    \/ \E k \in 1..Len(uplink) : LoseUp(k)
    \/ \E k \in 1..Len(downlink) : LoseDown(k)
    \/ Restart
    \/ Done

Spec == Init /\ [][Next]_vars

\* The threads of both processes are never blocked for ever by the scheduler;
\* nothing makes a caller start a call, a frame get lost or a clock run out.
Fairness ==
    /\ \A c \in Callers : WF_vars(AwaitReplies(c)) /\ WF_vars(TakeReply(c))
    /\ WF_vars(\E c \in Callers : Send(c))
    /\ WF_vars(Arrive) /\ WF_vars(Receive) /\ WF_vars(Dispatch)
    /\ \A i \in Ids : WF_vars(Execute(i)) /\ WF_vars(Reply(i))

FairSpec == Spec /\ Fairness

-----------------------------------------------------------------------------
(* Properties.                                                             *)

\* No command is executed twice, whatever is lost, late or given up: there is
\* no retry in the layer, and a frame is in one place only (Serializer::pop,
\* BlockingQueue::pop).
AtMostOnce == \A i \in Ids : runs[i] <= 1

\* A caller that has a reply has the reply to its own command: late replies of
\* calls given up stay in m_items (wait_for_result looks up by id) and must
\* not answer a later call.
AnsweredWasExecuted ==
    \A i \in Ids : outcome[i] = "answered" => runs[i] = 1

\* A frame that is dropped with its queue never reaches the server, although
\* the writer thread pops from the same queue concurrently (drop_queue, pop).
CancelledNeverRuns ==
    \A i \in Ids : outcome[i] = "cancelled" => runs[i] = 0

\* m_items holds only replies somebody waits for or has given up on:
\* wait_for_result erases what it returns.  (The item of the notifications
\* stays there for ever, and so does the late reply of a call given up.)
NoOrphanItems ==
    items \subseteq {NotifyId} \cup {i \in Ids : outcome[i] = "abandoned"}
                    \cup UNION {ToSet(mids[c]) : c \in Callers}

\* Neither the command nor its reply is anywhere.
Gone(i) ==
    /\ \A c \in Callers : i \notin ToSet(queue[c])
    /\ i \notin ToSet(uplink \o requests \o downlink)
    /\ i \notin taken \cup answering \cup items

\* Every call returns without waiting for its deadline, unless a frame of it was
\* lost: no command is forgotten in a queue of any priority or by a worker
\* thread, and replies in any order wake the caller.
CallsReturn ==
    \A c \in Callers :
        pc[c] = "adding" ~> pc[c] = "idle" \/ \E i \in ToSet(mids[c]) : Gone(i)

\* The layer implements at-most-once calls.
Abstract == INSTANCE AtMostOnceCall WITH Ids <- Ids, outcome <- outcome, runs <- runs
ImplementsAtMostOnceCall == Abstract!Spec
=============================================================================
