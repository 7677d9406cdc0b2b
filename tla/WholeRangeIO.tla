---------------------------- MODULE WholeRangeIO ----------------------------
(***************************************************************************)
(* What a program on the client can rely on when several calls read and    *)
(* write one file: a write that returned all it was given is in the file   *)
(* as a whole, a read returns it, at its place.  A write that failed may   *)
(* have been done, in part or not at all, and what is left of it may still *)
(* be done later: the places it may change are unsure until a write that   *)
(* began when nothing was left of it.                                      *)
(***************************************************************************)
EXTENDS Naturals, Sequences, FiniteSets

CONSTANTS Calls, Cells    \* the calls, and the places of the file

VARIABLES
    cells,    \* what is known to be at each place
    io,       \* the calls
    returned, \* what the last step returned
    late      \* places that calls that have failed may still change

vars == <<cells, io, returned, late>>

Eof == <<"end of file">>
Unsure == <<"unsure">>
Zero == <<0, 0>>          \* a unit of a hole

Unit(c, k) == <<c, k>>    \* the unit that call c writes at its k-th place

NoCall == [state |-> "idle", op |-> "none", start |-> 1, len |-> 0, touched |-> {}, sure |-> {}]

Nothing == [call |-> 0, ok |-> FALSE, got |-> <<>>, count |-> 0]

Place(x) == x.start .. (x.start + x.len - 1)

Busy(c) == io[c].state = "busy"

Init ==
    /\ \E n \in {0} \cup Cells : cells = [k \in Cells |-> IF k <= n THEN Unit(0, k) ELSE Eof]
    /\ io = [c \in Calls |-> NoCall]
    /\ returned = Nothing
    /\ late = {}

\* What a call may change becomes unsure: of a write also the gap before it, of an
\* append everything from the end.  Nothing that was left undone may interfere.
Begin(c) ==
    LET x == io'[c]
    IN  /\ io[c].state = "idle"
        /\ x.state = "busy" /\ x.op \in {"read", "write", "append"}
        /\ x.len > 0 /\ Place(x) \subseteq x.touched /\ x.touched \subseteq Cells
        /\ \A d \in Calls : Busy(d) /\ {x.op, io[d].op} # {"read"} =>
                                x.touched \cap io[d].touched = {}
        /\ CASE x.op = "write" ->
                  /\ \A k \in Cells : k < x.start /\ cells[k] = Eof => k \in x.touched
                  /\ x.sure = x.touched \ late
             [] x.op = "append" ->
                  /\ \A k \in Cells : k >= x.start => k \in x.touched
                  /\ \A k \in Cells : k < x.start => cells[k] # Eof
                  /\ x.sure = IF late = {} THEN x.touched ELSE {}
             [] OTHER -> x.sure = {}
        /\ io' = [io EXCEPT ![c] = x]
        /\ returned' = Nothing
        /\ cells' = [k \in Cells |-> IF x.op # "read" /\ k \in x.touched THEN Unsure ELSE cells[k]]
        /\ UNCHANGED late

Return(c, ok, got, count) ==
    /\ io[c].state = "busy"
    /\ io' = [io EXCEPT ![c] = [NoCall EXCEPT !.state = "done"]]
    /\ returned' = [call |-> c, ok |-> ok, got |-> got, count |-> count]

\* A read returns what is at each place, nothing from the end on.
ReadReturns(c) ==
    LET got == returned'.got
    IN  /\ io[c].op = "read"
        /\ Return(c, TRUE, got, Len(got))
        /\ \A k \in Place(io[c]) :
            LET i == k - io[c].start + 1
            IN  CASE cells[k] = Unsure -> TRUE
                  [] cells[k] = Eof -> i > Len(got)
                  [] OTHER -> i <= Len(got) /\ got[i] = cells[k]
        /\ UNCHANGED <<cells, late>>

\* A write that was done is at its place, and the gap before it is filled.
WriteReturns(c) ==
    LET x == io[c]
    IN  /\ x.op = "write"
        /\ Return(c, TRUE, <<>>, x.len)
        /\ cells' = [k \in Cells |->
                       IF k \notin x.sure THEN cells[k]
                       ELSE IF k < x.start THEN Zero ELSE Unit(c, k - x.start + 1)]
        /\ UNCHANGED late

\* All that was appended is behind what was there, each unit once, in any order.
AppendReturns(c) ==
    LET x == io[c]
    IN  /\ x.op = "append"
        /\ Return(c, TRUE, <<>>, x.len)
        /\ IF x.sure = {} THEN cells' = cells
           ELSE /\ {cells'[k] : k \in Place(x)} = {Unit(c, k) : k \in 1..x.len}
                /\ cells' = [k \in Cells |-> IF k \notin x.sure THEN cells[k]
                                             ELSE IF k \in Place(x) THEN cells'[k] ELSE Eof]
        /\ UNCHANGED late

\* A part was written, any units.
WriteReturnsShort(c) ==
    /\ io[c].op # "read"
    /\ \E n \in 0..(io[c].len - 1) : Return(c, TRUE, <<>>, n)
    /\ UNCHANGED <<cells, late>>

\* A call fails: it may have changed what it could, and may change it later.
Fail(c) ==
    /\ Return(c, FALSE, <<>>, 0)
    /\ late \subseteq late'
    /\ late' \subseteq late \cup (IF io[c].op = "read" THEN {} ELSE io[c].touched)
    /\ UNCHANGED cells

\* Something that was left is done.
Settle ==
    /\ late' \subseteq late
    /\ returned' = Nothing
    /\ UNCHANGED <<cells, io>>

Next ==
    \/ \E c \in Calls :
        \/ Begin(c) \/ ReadReturns(c) \/ WriteReturns(c) \/ AppendReturns(c)
        \/ WriteReturnsShort(c) \/ Fail(c)
    \/ Settle

Spec == Init /\ [][Next]_vars
=============================================================================
