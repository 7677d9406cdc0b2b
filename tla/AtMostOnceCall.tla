--------------------------- MODULE AtMostOnceCall ---------------------------
(***************************************************************************)
(* What the messaging layer of rewofs promises to a thread that sends      *)
(* commands to the server: a command is executed at most once, it is only  *)
(* reported as answered after it was executed, and a command that was      *)
(* withdrawn before it left the client is never executed.  It does not     *)
(* promise that an abandoned command was not executed, nor that it will    *)
(* not be executed later.                                                  *)
(***************************************************************************)
CONSTANT Ids    \* message identifiers

VARIABLES
    outcome,    \* what the calling thread knows of each command
    runs        \* how often the server executed each command

vars == <<outcome, runs>>

Outcomes == {"new", "pending", "answered", "abandoned", "cancelled"}

Init ==
    /\ outcome = [i \in Ids |-> "new"]
    /\ runs = [i \in Ids |-> 0]

Issue(i) ==
    /\ outcome[i] = "new"
    /\ outcome' = [outcome EXCEPT ![i] = "pending"]
    /\ UNCHANGED runs

\* Not only pending commands are executed: an abandoned one may still be on
\* its way.
Execute(i) ==
    /\ outcome[i] \in {"pending", "abandoned"}
    /\ runs[i] = 0
    /\ runs' = [runs EXCEPT ![i] = 1]
    /\ UNCHANGED outcome

\* A call ends: the commands in `done' have answers, the other commands of the
\* call are given up, those in `dropped' before anyone could execute them.
Finish(done, lost, dropped) ==
    /\ \A i \in done \cup lost \cup dropped : outcome[i] = "pending"
    /\ \A i \in done : runs[i] = 1
    /\ \A i \in dropped : runs[i] = 0
    /\ outcome' = [i \in Ids |-> IF i \in done THEN "answered"
                                 ELSE IF i \in dropped THEN "cancelled"
                                 ELSE IF i \in lost THEN "abandoned" ELSE outcome[i]]
    /\ UNCHANGED runs

Next ==
    \/ \E i \in Ids : Issue(i) \/ Execute(i)
    \/ \E done, lost, dropped \in SUBSET Ids : Finish(done, lost, dropped)

Spec == Init /\ [][Next]_vars
=============================================================================
