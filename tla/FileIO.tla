------------------------------- MODULE FileIO -------------------------------
(***************************************************************************)
(* Reads and writes of one file of the server by the calls of RemoteVfs.   *)
(* RemoteVfs::read and write cut a call into fragments and send them all   *)
(* at once; the workers of the server execute the fragments of all calls   *)
(* in any order, each as one step, as Worker locks the file from lseek to  *)
(* read or write (module ServerFiles).  The call then takes the answers in *)
(* the order it sent the fragments, whatever the order they came in.  It   *)
(* gives up at the first error or timeout, and what it has sent may be     *)
(* executed later (module Rpc).                                            *)
(*                                                                         *)
(* The file is a sequence of units, and a fragment has Fragment of them.   *)
(* A file that is open with O_APPEND is written at its end.                *)
(***************************************************************************)
EXTENDS Integers, Sequences, FiniteSets, FiniteSetsExt

CONSTANTS
    Calls,       \* a set of numbers from 1: bound of the calls
    Size,        \* bound: units of the file
    Fragment,    \* IVfs::IO_FRAGMENT_SIZE
    MaxFaults    \* bound: commands that time out, fail, or write less than they should

ASSUME ConstantsAssumption ==
    /\ Calls \subseteq Nat \ {0} /\ IsFiniteSet(Calls)
    /\ {Size, Fragment} \subseteq Nat \ {0}
    /\ MaxFaults \in Nat

Cells == 1..Size

VARIABLES
    file,       \* the content of the file on the server
    call,       \* the calls
    pending,    \* fragments sent and not executed: call and number
    returned,   \* what the last step returned to a caller
    answers,    \* answers not taken: fragment, res, and the units read
    faults,
    unsure      \* history: places whose content the client cannot know

vars == <<file, call, pending, answers, returned, faults, unsure>>

Zero == <<0, 0>>
Unit(c, k) == <<c, k>>

Units == (Calls \cup {0}) \X (0..Size)
Contents == UNION {[1..n -> Units] : n \in 0..Size}

\* touched: places the call may change, or read; sure: those only this call changes;
\* next: fragment whose answer is taken next; got, count: what was read or written so far.
NoCall == [state |-> "idle", op |-> "none", start |-> 1, len |-> 0, touched |-> {}, sure |-> {},
           next |-> 1, got |-> <<>>, count |-> 0]

Nothing == [call |-> 0, ok |-> FALSE, got |-> <<>>, count |-> 0]

TypeOK ==
    /\ file \in Contents
    /\ \A c \in Calls :
        /\ call[c].op \in {"none", "read", "write", "append"}
        /\ call[c].start \in 1..(Size + 1)
        /\ call[c].len \in 0..Size
        /\ call[c].state \in {"idle", "busy", "done"}
        /\ call[c].touched \subseteq Cells /\ call[c].sure \subseteq Cells
        /\ call[c].got \in Contents
        /\ call[c].count \in 0..call[c].len
        /\ call[c].next \in 1..(Size + 1)
    /\ pending \subseteq Calls \X Cells
    /\ \A a \in answers : a.frag \in Calls \X Cells /\ a.res \in -1..Fragment
    /\ faults \in 0..MaxFaults
    /\ unsure \subseteq Cells

Init ==
    /\ \E n \in 0..Size : file = [k \in 1..n |-> Unit(0, k)]
    /\ call = [c \in Calls |-> NoCall]
    /\ pending = {}
    /\ answers = {}
    /\ returned = Nothing
    /\ faults = 0
    /\ unsure = {}

-----------------------------------------------------------------------------
Busy(c) == call[c].state = "busy"

Place(x) == x.start .. (x.start + x.len - 1)

Fragments(len) == 1..((len + Fragment - 1) \div Fragment)

\* What fragment i of call c is about: its first unit of the call, and their number.
Offset(i) == (i - 1) * Fragment

\* Mutant of BlockSize: the last fragment is a whole one.
BlockSizeFull(c, i) == Fragment

BlockSize(c, i) == Min({call[c].len - Offset(i), Fragment})

\* The place of the fragment in the file.
Target(f) ==
    LET first == IF call[f[1]].op = "append" THEN Len(file) + 1
                 ELSE call[f[1]].start + Offset(f[2])
    IN  first .. (first + BlockSize(f[1], f[2]) - 1)

\* Places that what is left of failed calls may change, the gap before included.
Late ==
    UNION {IF call[f[1]].op = "append" THEN {k \in Cells : k > Len(file)}
           ELSE Target(f) \cup {k \in Cells : Len(file) < k /\ k < Max(Target(f))} :
           f \in {g \in pending : call[g[1]].op # "read" /\ ~Busy(g[1])}}

\* Units that appends still have to write.
Unappended ==
    {u \in pending \X Cells :
        call[u[1][1]].op = "append" /\ u[2] <= BlockSize(u[1][1], u[1][2])}

\* Bound: the file does not grow beyond Size, whatever is executed and when.
Fits(x) ==
    LET ends == {Len(file)} \cup (IF x.op = "append" THEN {} ELSE Place(x))
                \cup UNION {Target(f) : f \in {g \in pending : call[g[1]].op # "append"}}
        more == Cardinality(Unappended) + (IF x.op = "append" THEN x.len ELSE 0)
    IN  \A k \in ends : k + more <= Size

\* A call of the kernel begins: one write at a time, and no read of what is written.
Start(c, x) ==
    /\ ~\E d \in Calls : d < c /\ call[d].state = "idle"
    /\ call[c].state = "idle"
    /\ Fits(x)
    /\ \A d \in Calls : Busy(d) =>
        \/ {x.op, call[d].op} = {"read"}
        \/ "read" \in {x.op, call[d].op} /\ x.touched \cap call[d].touched = {}
    /\ call' = [call EXCEPT ![c] = x]
    /\ pending' = pending \cup ({c} \X Fragments(x.len))
    /\ returned' = Nothing
    /\ UNCHANGED <<file, answers, faults, unsure>>

\* RemoteVfs::read, up to the wait.
Read(c, start, len) ==
    LET x == [NoCall EXCEPT !.op = "read", !.state = "busy", !.start = start, !.len = len]
    IN  Start(c, [x EXCEPT !.touched = Place(x)])

\* RemoteVfs::write, up to the wait.
Write(c, start, len) ==
    LET x == [NoCall EXCEPT !.op = "write", !.state = "busy", !.start = start, !.len = len]
        touched == Place(x) \cup {k \in Cells : Len(file) < k /\ k < start}
    IN  Start(c, [x EXCEPT !.touched = touched, !.sure = touched \ Late])

\* The same of a file that is open with O_APPEND.
WriteAtEnd(c, len) ==
    LET x == [NoCall EXCEPT !.op = "append", !.state = "busy", !.start = Len(file) + 1, !.len = len]
        touched == {k \in Cells : k >= x.start}
    IN  Start(c, [x EXCEPT !.touched = touched, !.sure = IF Late = {} THEN touched ELSE {}])

-----------------------------------------------------------------------------
(* Worker::process_read and process_write.                                 *)

Fault == faults < MaxFaults /\ faults' = faults + 1

Answer(f, res, data) ==
    /\ f \in pending
    /\ pending' = pending \ {f}
    /\ answers' = IF Busy(f[1]) THEN answers \cup {[frag |-> f, res |-> res, data |-> data]}
                  ELSE answers
    /\ returned' = Nothing

\* The file after the units of call c from offset on were written at the place.
Overlay(c, offset, place) ==
    [k \in 1..Max({Len(file)} \cup place) |->
        IF k \in place THEN Unit(c, offset + k - Min(place) + 1)
        ELSE IF k <= Len(file) THEN file[k] ELSE Zero]

\* What there is of the place up to the end of the file is read.
ExecuteRead(f) ==
    /\ f \in pending /\ call[f[1]].op = "read"
    /\ LET last == Min({Max(Target(f)), Len(file)})
           data == SubSeq(file, Min(Target(f)), last)
       IN  Answer(f, Len(data), data)
    /\ UNCHANGED <<file, call, faults, unsure>>

\* All is written, or less.
ExecuteWrite(f) ==
    /\ f \in pending /\ call[f[1]].op # "read"
    /\ \E n \in 1..BlockSize(f[1], f[2]) :
        /\ IF n < BlockSize(f[1], f[2]) THEN Fault ELSE UNCHANGED faults
        /\ file' = Overlay(f[1], Offset(f[2]), Min(Target(f)) .. (Min(Target(f)) + n - 1))
        /\ Answer(f, n, <<>>)
    /\ UNCHANGED <<call, unsure>>

ExecuteFails(f) ==
    /\ Fault
    /\ Answer(f, -1, <<>>)
    /\ UNCHANGED <<file, call, unsure>>

-----------------------------------------------------------------------------
(* The wait for the answers.                                               *)

Done == [NoCall EXCEPT !.state = "done"]

\* An answer is taken, after which call c is as x says.  With the last answer it returns.
Take(c, a, x) ==
    LET last == x.next > Max(Fragments(x.len))
    IN  /\ Busy(c)
        /\ a \in answers /\ a.res >= 0
        /\ call' = [call EXCEPT ![c] = IF last THEN Done ELSE x]
        /\ returned' = IF last THEN [call |-> c, ok |-> TRUE, got |-> x.got, count |-> x.count]
                       ELSE Nothing
        /\ answers' = answers \ {a}
        /\ unsure' = IF ~last \/ x.op = "read" THEN unsure
                     ELSE IF x.count < x.len THEN unsure \cup x.touched
                     ELSE (unsure \ x.sure) \cup (x.touched \ x.sure)
        /\ UNCHANGED <<file, pending, faults>>

\* Mutant of Collect: the answers are taken in the order they come.
CollectAny(c, a) ==
    /\ a.frag[1] = c
    /\ Take(c, a, [call[c] EXCEPT !.next = @ + 1, !.got = @ \o a.data, !.count = @ + a.res])

\* Mutant of Collect: the result of a call is the one of its last fragment.
CollectLast(c, a) ==
    /\ a.frag = <<c, call[c].next>>
    /\ Take(c, a, [call[c] EXCEPT !.next = @ + 1, !.got = @ \o a.data, !.count = a.res])

\* The answer of the next fragment is taken: what was read goes behind what was read
\* before, wherever in the range it is from.
Collect(c, a) ==
    /\ a.frag = <<c, call[c].next>>
    /\ Take(c, a, [call[c] EXCEPT !.next = @ + 1, !.got = @ \o a.data, !.count = @ + a.res])

\* The next answer is an error, or does not come in time.  Of what is pending, any part
\* is dropped from the queue, or lost.
GiveUp(c) ==
    LET x == call[c]
        mine == {f \in pending : f[1] = c}
    IN  /\ Busy(c)
        /\ \/ (\E a \in answers : a.frag = <<c, x.next>> /\ a.res < 0) /\ UNCHANGED faults
           \/ <<c, x.next>> \in pending /\ Fault
        /\ \E left \in SUBSET mine :
            /\ pending' = (pending \ mine) \cup left
            /\ call' = [call EXCEPT ![c] = IF left = {} THEN Done
                          ELSE [Done EXCEPT !.op = x.op, !.start = x.start, !.len = x.len]]
        /\ answers' = {a \in answers : a.frag[1] # c}
        /\ returned' = [Nothing EXCEPT !.call = c]
        /\ unsure' = IF x.op = "read" THEN unsure ELSE unsure \cup x.touched
        /\ UNCHANGED file

-----------------------------------------------------------------------------
Next ==
    \/ \E c \in Calls :
        \/ \E start, len \in Cells : Read(c, start, len) \/ Write(c, start, len)
        \/ \E len \in Cells : WriteAtEnd(c, len)
        \/ \E a \in answers : Collect(c, a)
        \/ GiveUp(c)
    \/ \E f \in pending : ExecuteRead(f) \/ ExecuteWrite(f) \/ ExecuteFails(f)

Spec == Init /\ [][Next]_vars

-----------------------------------------------------------------------------
(* Properties.                                                             *)

\* The number a write returns is the number of its units in the file, wherever short
\* fragments left gaps, unless a call that had failed may have written over them.
CountIsWritten ==
    [][\A c \in Calls :
        Busy(c) /\ call[c].op # "read" /\ call[c].sure = call[c].touched /\ returned'.ok
        /\ returned'.call = c =>
            returned'.count = Cardinality({k \in DOMAIN file : file[k] \in {c} \X Cells})]_vars

\* Places of which the client cannot know what is there, and what it knows of the others.
Unknown ==
    {k \in Cells :
        \/ k \in unsure
        \/ \E c \in Calls : Busy(c) /\ call[c].op # "read" /\ k \in call[c].touched}
Known == [k \in Cells |-> IF k \in Unknown THEN <<"unsure">>
                          ELSE IF k <= Len(file) THEN file[k] ELSE <<"end of file">>]

\* The calls, as their callers see them.
Shown ==
    [c \in Calls |->
        LET x == IF Busy(c) THEN call[c] ELSE [NoCall EXCEPT !.state = call[c].state]
        IN  [f \in {"state", "op", "start", "len", "touched", "sure"} |-> x[f]]]

\* A call on a whole range behaves as one operation, although its fragments do not: what
\* the client can know is what is written, and what was left of failed calls, executed
\* late and in any order, changes nothing else.
WholeRange == INSTANCE WholeRangeIO WITH cells <- Known, io <- Shown, late <- Late
ImplementsWholeRangeIO == WholeRange!Spec
=============================================================================
