---------------------------- MODULE ServerStore ----------------------------
(***************************************************************************)
(* The two stores of the agent: the table `servers` in SQLite and the      *)
(* counter `lxc:id` in Redis.  The SQLite pool has one connection, so each *)
(* statement is one atomic step; no handler opens a transaction.           *)
(***************************************************************************)
EXTENDS Integers

CONSTANTS
    Requests,  \* HTTP requests; the random id a create request draws is the request
    Names,     \* server names
    NoName,    \* the name of a request that carries none
    Memories,  \* memory limits; 0 stands for a limit that is not given
    Cpus,      \* cpu limits; 0 stands for a limit that is not given
    MaxSid     \* bound: the largest container number handed out

FirstSid == 100
Sids == FirstSid..MaxSid

ASSUME StoreAssumption ==
    /\ NoName \notin Names
    /\ Memories \subseteq Nat \ {0}
    /\ Cpus \subseteq Nat \ {0}
    /\ MaxSid \in Nat
    /\ MaxSid >= FirstSid

Statuses == {"INSTALLING", "RUNNING", "STOPPED", "ERROR"}

VARIABLES
    servers,  \* the rows of the table
    lxcId     \* the counter, 0 while the key is absent

Rows == [id: Requests, sid: Sids, name: Names,
         memory: Memories, cpu: Cpus, status: Statuses]

StoreTypeOK ==
    /\ servers \subseteq Rows
    /\ lxcId \in {0} \cup (FirstSid - 1)..MaxSid

StoreInit ==
    /\ servers = {}
    /\ lxcId = 0

-----------------------------------------------------------------------------
\* WHERE id = ?
RowsWithId(id) == {row \in servers : row.id = id}

\* Mutant of MayInsert: the column name is not unique.
MayInsertAnyName(new) ==
    \A row \in servers : row.id # new.id /\ row.sid # new.sid

\* The columns id, sid and name are unique.
MayInsert(new) ==
    \A row \in servers : /\ row.id # new.id
                         /\ row.sid # new.sid
                         /\ row.name # new.name

Insert(new) == servers' = servers \cup {new}

\* Mutant of UpdateStatus: the WHERE clause is forgotten.
UpdateEveryStatus(id, status) ==
    servers' = {[row EXCEPT !.status = status] : row \in servers}

\* UPDATE ... WHERE id = ?: nothing happens when the row is gone.
UpdateStatus(id, status) ==
    servers' = {IF row.id = id THEN [row EXCEPT !.status = status] ELSE row :
                    row \in servers}

\* A limit that is not given keeps its value.
Given(new, old) == IF new = 0 THEN old ELSE new

\* Mutant of UpdateLimits: a limit that is not given is written as zero.
UpdateBothLimits(id, memory, cpu) ==
    servers' = {IF row.id = id THEN [row EXCEPT !.memory = memory, !.cpu = cpu] ELSE row :
                    row \in servers}

UpdateLimits(id, memory, cpu) ==
    servers' = {IF row.id = id
                    THEN [row EXCEPT !.memory = Given(memory, @), !.cpu = Given(cpu, @)]
                    ELSE row : row \in servers}

DeleteRow(id) == servers' = servers \ RowsWithId(id)

-----------------------------------------------------------------------------
\* Mutant of SetNX: SET, which restarts the counter with the agent.
SetAlways == lxcId' = FirstSid - 1

\* Mutant of SetNX: the counter is never initialised.
SetNothing == UNCHANGED lxcId

\* SETNX lxc:id 99
SetNX == lxcId' = IF lxcId = 0 THEN FirstSid - 1 ELSE lxcId

\* INCR lxc:id
Incr ==
    /\ lxcId < MaxSid
    /\ lxcId' = lxcId + 1

=============================================================================
