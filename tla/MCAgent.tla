------------------------------ MODULE MCAgent ------------------------------
(***************************************************************************)
(* Instances of Agent for TLC; the constants are in the configurations.    *)
(***************************************************************************)
EXTENDS Agent, TLC

\* Requests and names are interchangeable.  Liveness runs do not use it.
Interchangeable == Permutations(Requests) \cup Permutations(Names)

=============================================================================
