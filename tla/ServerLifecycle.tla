--------------------------- MODULE ServerLifecycle ---------------------------
(***************************************************************************)
(* What the panel may rely on about its servers: the rows it can list, and *)
(* the ways they change.  An installation gives one verdict on its server; *)
(* handlers switch a server on and off and remove it.  An orderly panel    *)
(* leaves a server alone until there is a verdict, and a failed one until  *)
(* it is removed.                                                          *)
(***************************************************************************)

CONSTANTS
    Ids,     \* servers, each created at most once
    Names,   \* their names
    Orderly  \* TRUE iff the panel waits for the verdict

VARIABLES
    table,  \* the rows
    used,   \* the servers ever created
    open    \* the installations at work that have not given their verdict

vars == <<table, used, open>>

Statuses == {"INSTALLING", "RUNNING", "STOPPED", "ERROR"}

TypeOK ==
    /\ table \subseteq [id: Ids, name: Names, status: Statuses]
    /\ used \subseteq Ids
    /\ open \subseteq used

Init ==
    /\ table = {}
    /\ used = {}
    /\ open = {}

SetStatus(id, status) ==
    table' = {IF row.id = id THEN [row EXCEPT !.status = status] ELSE row : row \in table}

\* A row is created once, under a name no other row has.
Provision(id, name) ==
    /\ id \notin used
    /\ \A row \in table : row.name # name
    /\ table' = table \cup {[id |-> id, name |-> name, status |-> "INSTALLING"]}
    /\ used' = used \cup {id}
    /\ open' = open \cup {id}

\* The verdict is lost when the row is gone or cannot be written.
Verdict(id) ==
    /\ id \in open
    /\ open' = open \ {id}
    /\ \/ \E status \in {"RUNNING", "ERROR"} : SetStatus(id, status)
       \/ UNCHANGED table
    /\ UNCHANGED used

\* The agent dies and takes the installations with it.
Abandon ==
    /\ open' = {}
    /\ UNCHANGED <<table, used>>

In(id, statuses) == \A row \in table : row.id = id => row.status \in statuses

Switch(id) ==
    /\ Orderly => In(id, {"RUNNING", "STOPPED"})
    /\ \E status \in {"RUNNING", "STOPPED"} : SetStatus(id, status)
    /\ UNCHANGED <<used, open>>

Remove(id) ==
    /\ Orderly => In(id, {"RUNNING", "STOPPED", "ERROR"})
    /\ table' = {row \in table : row.id # id}
    /\ UNCHANGED <<used, open>>

Next ==
    \/ Abandon
    \/ \E id \in Ids : \/ \E name \in Names : Provision(id, name)
                       \/ Verdict(id) \/ Switch(id) \/ Remove(id)

Spec == Init /\ [][Next]_vars

=============================================================================
