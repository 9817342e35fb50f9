---------------------------- MODULE Environment ----------------------------
(***************************************************************************)
(* What happens to the agent process from outside: systemd starts it, it   *)
(* dies, and the services it calls (SQLite, Redis, LXC and the shell       *)
(* commands of the host) answer with an error.                             *)
(***************************************************************************)
EXTENDS Integers

CONSTANTS
    MaxFaults,   \* bound: failed calls in a behaviour
    FaultKinds,  \* the services that may fail, among "db", "redis", "host"
    MaxCrashes,  \* bound: deaths of the agent process in a behaviour
    GuestHalts   \* TRUE iff a container may power itself off

ASSUME EnvironmentAssumption ==
    /\ MaxFaults \in Nat
    /\ MaxCrashes \in Nat
    /\ FaultKinds \subseteq {"db", "redis", "host"}
    /\ GuestHalts \in BOOLEAN

VARIABLES
    up,       \* the agent process serves requests
    crashes,  \* deaths so far
    faults    \* failed calls so far

environment == <<up, crashes, faults>>

EnvironmentTypeOK ==
    /\ up \in BOOLEAN
    /\ crashes \in 0..MaxCrashes
    /\ faults \in 0..MaxFaults

EnvironmentInit ==
    /\ up = FALSE
    /\ crashes = 0
    /\ faults = 0

\* The call that a step makes succeeds, or the service it needs fails it.
Works == UNCHANGED faults

Fails(service) ==
    /\ service \in FaultKinds
    /\ faults < MaxFaults
    /\ faults' = faults + 1

=============================================================================
