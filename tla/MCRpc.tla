------------------------------- MODULE MCRpc -------------------------------
(* Instances of Rpc for TLC.                                               *)
EXTENDS Rpc

CONSTANTS reader, heartbeat

\* PRIORITY_HIGH for the heartbeat, PRIORITY_DEFAULT for the FUSE threads.
MCPriority == [c \in Callers |-> IF c = heartbeat THEN 2 ELSE 1]

MCResident == {heartbeat}

=============================================================================
