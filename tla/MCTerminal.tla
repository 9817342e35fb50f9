----------------------------- MODULE MCTerminal -----------------------------
(***************************************************************************)
(* Instances of TerminalSessions for TLC; the constants are in the         *)
(* configurations.                                                         *)
(***************************************************************************)
EXTENDS TerminalSessions, TLC

\* Connections, servers and sessions are interchangeable.  Liveness runs do
\* not use it.
Interchangeable == Permutations(Conns) \cup Permutations(Servers) \cup Permutations(Sessions)

=============================================================================
