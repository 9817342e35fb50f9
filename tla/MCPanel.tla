------------------------------ MODULE MCPanel ------------------------------
(***************************************************************************)
(* Instances of Panel for TLC.                                             *)
(***************************************************************************)
EXTENDS Panel

CONSTANTS c1, c2

\* Streams of containers meet each other; a stream of the host and a call meet
\* nothing.
MCPanels == {[c \in Conns |-> "container"],
             [c \in Conns |-> IF c = c1 THEN "host" ELSE "none"],
             [c \in Conns |-> IF c = c1 THEN "call" ELSE "none"]}

\* The idle counter is about to wrap.
MCFirst == [idle |-> 7, iowait |-> 0, busy |-> 6]
MCGrowths == {[idle |-> 1, iowait |-> 0, busy |-> 1], [idle |-> 0, iowait |-> 1, busy |-> 0]}

MCMachineId == <<2, 1>>

=============================================================================
