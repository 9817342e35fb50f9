---------------------------- MODULE AgentProofs ----------------------------
(***************************************************************************)
(* Invariants of Agent for every value of its constants.  The inductive    *)
(* invariant says which fields of a request and of an installation are     *)
(* filled in at which point, and which container numbers are taken.        *)
(***************************************************************************)
EXTENDS Agent, TLAPS

CreatePcs == {"create_pstop", "create_pdestroy", "create_pumount", "create_premove",
              "create_pdelete", "create_incr", "create_insert"}

\* A handler at work has its row and its container, but a create request gets
\* its container number late; it keeps the body it was sent, and inserts once.
CallOK(r) ==
    /\ InFlight(r) => /\ req[r].id \in Requests
                      /\ req[r].pc # "create_incr" => req[r].sid \in Sids
    /\ req[r].pc \in CreatePcs => /\ req[r].name \in Names
                                  /\ req[r].memory \in Memories
                                  /\ req[r].cpu \in Cpus
    /\ req[r].pc \in CreatePcs \cup {"new"} => ~Spawned(r)

JobOK(id) == Spawned(id) => /\ job[id].sid \in Sids
                            /\ job[id].memory \in Memories
                            /\ job[id].cpu \in Cpus

\* The requests that have drawn a container number, and the number.
Drew(r) == Spawned(r) \/ req[r].pc = "create_insert"
SidOf(r) == IF Spawned(r) THEN job[r].sid ELSE req[r].sid

SidsOK ==
    /\ \A r \in Requests : Drew(r) => SidOf(r) <= lxcId
    /\ \A r, q \in Requests : Drew(r) /\ Drew(q) /\ SidOf(r) = SidOf(q) => r = q

IInv ==
    /\ TypeOK
    /\ up => lxcId # 0
    /\ \A r \in Requests : CallOK(r)
    /\ \A id \in Requests : JobOK(id)
    /\ SidsOK
    /\ RowsUnique

-----------------------------------------------------------------------------
\* The kinds of steps of a request.  It goes on at another point, holding
\* another handle; it arrives.
Goes(r) ==
    /\ req[r].pc \in HandlerPcs \ {"create_incr", "create_insert"}
    /\ \E pc \in (HandlerPcs \ {"create_insert"}) \cup Answers, handle \in Configs :
          /\ pc \in CreatePcs => req[r].pc \in CreatePcs
          /\ req' = [req EXCEPT ![r].pc = pc, ![r].handle = handle]

Arrives(r) ==
    /\ req[r].pc = "new"
    /\ \E call \in Calls :
          /\ req' = [req EXCEPT ![r] = call]
          /\ call.pc \notin {"new", "create_insert"}
          /\ call.pc \in HandlerPcs => /\ call.id \in Requests
                                       /\ call.pc # "create_incr" => call.sid \in Sids
          /\ call.pc \in CreatePcs => /\ call.name \in Names
                                      /\ call.memory \in Memories
                                      /\ call.cpu \in Cpus
    /\ UNCHANGED <<servers, host>>

\* The kinds of changes of the table that keep its keys.
RowsChange(id, statuses) ==
    \/ UNCHANGED servers
    \/ \E status \in statuses : UpdateStatus(id, status)
    \/ \E memory \in Memories \cup {0}, cpu \in Cpus \cup {0} : UpdateLimits(id, memory, cpu)
    \/ DeleteRow(id)

HostChange(sid) ==
    \/ UNCHANGED host
    \/ \E h \in Containers : host' = [host EXCEPT ![sid] = h]

Handles(r) ==
    /\ Goes(r)
    /\ RowsChange(req[r].id, {"RUNNING", "STOPPED"})
    /\ HostChange(req[r].sid)
    /\ faults' \in 0..MaxFaults
    /\ UNCHANGED <<lxcId, job>>

-----------------------------------------------------------------------------
\* What the host calls leave is a container again.
LEMMA ContainerTypes ==
    ASSUME NEW h \in Containers, NEW c \in Configs
    PROVE  /\ Nothing \in Containers
           /\ Created(h) \in Containers
           /\ Started(h, c) \in Containers
           /\ Stopped(h) \in Containers
           /\ Rebooted(h) \in Containers
           /\ Destroyed(h) \in Containers
           /\ MadeDir(h) \in Containers
           /\ Saved(h, c) \in Containers
           /\ Unmounted(h) \in Containers
           /\ Removed(h) \in Containers
           /\ Bound(h) \in Containers
           /\ Unbound(h) \in Containers
<1>1. Nothing \in Containers /\ Created(h) \in Containers /\ Destroyed(h) \in Containers
  BY DEF Containers, Configs, Nothing, NoConfig, TemplateConfig, Created, Destroyed
<1>2. /\ Started(h, c) \in Containers /\ Stopped(h) \in Containers
      /\ Rebooted(h) \in Containers
  BY DEF Containers, Configs, NoConfig, Started, Stopped, Rebooted
<1>3. /\ MadeDir(h) \in Containers /\ Saved(h, c) \in Containers
      /\ Removed(h) \in Containers
  BY DEF Containers, Configs, NoConfig, MadeDir, Saved, Removed
<1>4. /\ Unmounted(h) \in Containers /\ Bound(h) \in Containers
      /\ Unbound(h) \in Containers
  BY DEF Containers, Unmounted, Bound, Unbound
<1>5. QED
  BY <1>1, <1>2, <1>3, <1>4

\* A limit that is given, or else kept, is a limit.
LEMMA GivenTypes ==
    ASSUME NEW S, 0 \notin S, NEW new \in S \cup {0}, NEW old \in S
    PROVE  Given(new, old) \in S
BY DEF Given

\* Statements on rows keep the types and the keys of the table.
LEMMA RowsChangeInv ==
    ASSUME servers \subseteq Rows, RowsUnique, NEW id,
           NEW statuses \in SUBSET Statuses, RowsChange(id, statuses)
    PROVE  servers' \subseteq Rows /\ RowsUnique'
<1>1. CASE UNCHANGED servers
  BY <1>1 DEF RowsUnique
<1>2. ASSUME NEW status \in statuses, UpdateStatus(id, status)
      PROVE  servers' \subseteq Rows /\ RowsUnique'
  BY <1>2 DEF UpdateStatus, Rows, RowsUnique
<1>3. ASSUME NEW memory \in Memories \cup {0}, NEW cpu \in Cpus \cup {0},
             UpdateLimits(id, memory, cpu)
      PROVE  servers' \subseteq Rows /\ RowsUnique'
  <2> DEFINE New(row) == IF row.id = id
                           THEN [row EXCEPT !.memory = Given(memory, @),
                                            !.cpu = Given(cpu, @)]
                           ELSE row
  <2>1. servers' = {New(row) : row \in servers}
    BY <1>3 DEF UpdateLimits
  <2>2. ASSUME NEW row \in Rows
        PROVE  /\ New(row) \in Rows
               /\ New(row).id = row.id
               /\ New(row).sid = row.sid
               /\ New(row).name = row.name
    <3>1. Given(memory, row.memory) \in Memories /\ Given(cpu, row.cpu) \in Cpus
      BY DEF Given, Rows
    <3>2. QED
      BY <3>1 DEF Rows
  <2> HIDE DEF New
  <2>3. QED
    BY <2>1, <2>2 DEF RowsUnique
<1>4. CASE DeleteRow(id)
  BY <1>4 DEF DeleteRow, RowsWithId, RowsUnique
<1>5. QED
  BY <1>1, <1>2, <1>3, <1>4 DEF RowsChange

\* A step of a handler at work keeps the inductive invariant.
LEMMA HandlesInv ==
    ASSUME IInv, NEW r \in Requests, Handles(r), UNCHANGED <<up, crashes>>
    PROVE  IInv'
<1>1. PICK pc \in (HandlerPcs \ {"create_insert"}) \cup Answers, handle \in Configs :
          /\ pc \in CreatePcs => req[r].pc \in CreatePcs
          /\ req' = [req EXCEPT ![r].pc = pc, ![r].handle = handle]
  BY DEF Handles, Goes
<1>2. req \in [Requests -> Calls]
  BY DEF IInv, TypeOK, ReqTypeOK
<1>3. req[r].pc \in HandlerPcs \ {"create_incr", "create_insert"}
  BY DEF Handles, Goes
<1>4. \A q \in Requests : CallOK(q)
  BY DEF IInv
<1>5. /\ req' \in [Requests -> Calls]
      /\ \A q \in Requests \ {r} : req'[q] = req[q]
      /\ req'[r] = [req[r] EXCEPT !.pc = pc, !.handle = handle]
      /\ req'[r].pc = pc
  <2>1. req[r] \in Calls
    BY <1>2
  <2>2. [req[r] EXCEPT !.pc = pc, !.handle = handle] \in Calls
    BY <2>1 DEF Calls
  <2>3. [req[r] EXCEPT !.pc = pc, !.handle = handle].pc = pc
    BY <2>1 DEF Calls
  <2>4. req' = [req EXCEPT ![r] = [req[r] EXCEPT !.pc = pc, !.handle = handle]]
    BY <1>1, <1>2, <2>1
  <2>5. QED
    BY <1>2, <2>2, <2>3, <2>4
<1>6. \A q \in Requests : CallOK(q)'
  BY <1>1, <1>2, <1>3, <1>4, <1>5 
     DEF CallOK, InFlight, Spawned, Calls, HandlerPcs, Answers, CreatePcs, Handles
<1>7. SidsOK'
  BY <1>1, <1>3, <1>5 DEF IInv, SidsOK, Drew, SidOf, Spawned, HandlerPcs, Answers, Handles
<1>8. HostTypeOK'
  BY DEF Handles, HostChange, IInv, TypeOK, HostTypeOK
<1>9. servers' \subseteq Rows /\ RowsUnique'
  BY RowsChangeInv DEF Handles, IInv, TypeOK, StoreTypeOK, Statuses
<1>10. TypeOK'
  BY <1>5, <1>8, <1>9
     DEF IInv, TypeOK, EnvironmentTypeOK, StoreTypeOK, JobTypeOK, ReqTypeOK, Handles
<1>11. (\A id \in Requests : JobOK(id))'
  BY DEF IInv, JobOK, Spawned, Handles
<1>12. QED
  BY <1>6, <1>7, <1>9, <1>10, <1>11 DEF IInv, Handles

-----------------------------------------------------------------------------
\* The helpers of the handlers, when they lead from one point to another.
Leads(pc, next) ==
    /\ pc \in HandlerPcs \ {"create_incr", "create_insert"}
    /\ next \in (HandlerPcs \ {"create_insert"}) \cup Answers
    /\ next \in CreatePcs => pc \in CreatePcs

\* A call succeeds or is counted as a fault.
LEMMA FaultsBounded ==
    ASSUME IInv, Works \/ (\E service \in {"db", "redis", "host"} : Fails(service))
    PROVE  faults' \in 0..MaxFaults
BY EnvironmentAssumption DEF IInv, TypeOK, EnvironmentTypeOK, Works, Fails

\* A handler at work has a container.
LEMMA ReqHostType ==
    ASSUME IInv, NEW r \in Requests, InFlight(r), req[r].pc # "create_incr"
    PROVE  ReqHost(r) \in Containers
BY DEF IInv, TypeOK, HostTypeOK, CallOK, ReqHost

\* Going on at a point that handlers may reach is a Goes step.
LEMMA GotoGoes ==
    ASSUME IInv, NEW r \in Requests, NEW pc, NEW next, Leads(pc, next),
           req[r].pc = pc, Goto(r, next)
    PROVE  Goes(r)
<1> DEFINE handle == IF next \in Answers THEN NoConfig ELSE req[r].handle
<1>1. req[r] \in Calls
  BY DEF IInv, TypeOK, ReqTypeOK
<1>2. handle \in Configs
  BY <1>1 DEF Calls, Configs, NoConfig
<1>3. req' = [req EXCEPT ![r].pc = next, ![r].handle = handle]
  BY <1>1 DEF Goto, IInv, TypeOK, ReqTypeOK, Calls
<1>4. QED
  BY <1>2, <1>3 DEF Goes, Leads

\* Asking LXC or the file system is a step of a handler at work.
LEMMA AskHandles ==
    ASSUME IInv, NEW r \in Requests, NEW pc, NEW next, Leads(pc, next), Ask(r, pc, next)
    PROVE  Handles(r)
BY FaultsBounded, GotoGoes DEF Ask, Handles, RowsChange, HostChange

\* Opening a container handle and asking it is such a step.
LEMMA OpenAndAskHandles ==
    ASSUME IInv, NEW r \in Requests, NEW pc, NEW next, Leads(pc, next),
           OpenAndAsk(r, pc, next)
    PROVE  Handles(r)
<1>1. CASE Ask(r, pc, next)
  BY <1>1, AskHandles
<1>2. CASE req[r].pc = pc /\ Fails("host") /\ Goto(r, "error")
           /\ UNCHANGED <<servers, lxcId, host, job>>
  <2>1. Leads(pc, "error")
    BY DEF Leads, Answers, CreatePcs
  <2>2. QED
    BY <1>2, <2>1, FaultsBounded, GotoGoes DEF Handles, RowsChange, HostChange
<1>3. QED
  BY <1>1, <1>2 DEF OpenAndAsk

\* Waiting for the container to stop is such a step, too.
LEMMA WaitStoppedHandles ==
    ASSUME IInv, NEW r \in Requests, NEW pc, NEW next, Leads(pc, next),
           WaitStopped(r, pc, next)
    PROVE  Handles(r)
<1>1. Leads(pc, "timeout")
  BY DEF Leads, Answers, CreatePcs
<1>2. PICK to \in {next, "timeout"} : Goto(r, to)
  BY DEF WaitStopped
<1>3. Leads(pc, to)
  BY <1>1
<1>4. QED
  BY <1>2, <1>3, FaultsBounded, GotoGoes DEF WaitStopped, Handles, RowsChange, HostChange

\* A call on the container is such a step.
LEMMA HostCallHandles ==
    ASSUME IInv, NEW r \in Requests, NEW pc, NEW can, NEW new \in Containers, NEW next,
           Leads(pc, next), HostCall(r, pc, can, new, next)
    PROVE  Handles(r)
<1>1. Leads(pc, "error")
  BY DEF Leads, Answers, CreatePcs
<1>2. Goes(r)
  BY <1>1, GotoGoes DEF HostCall
<1>3. QED
  BY <1>2, FaultsBounded DEF HostCall, Handles, RowsChange, HostChange

\* Loading the config file into the handle is such a step.
LEMMA LoadConfigHandles ==
    ASSUME IInv, NEW r \in Requests, NEW pc, NEW ready \in Containers, NEW next,
           Leads(pc, next), LoadConfig(r, pc, ready, next)
    PROVE  Handles(r)
<1>1. Leads(pc, "error")
  BY DEF Leads, Answers, CreatePcs
<1>2. req[r].pc = pc /\ ReqHost(r) \in Containers
  BY ReqHostType DEF LoadConfig, Leads, InFlight
<1>3. ReqHost(r).config \in Configs
  BY <1>2 DEF Containers
<1>4. CASE Goto(r, "error")
  BY <1>1, <1>2, <1>4, GotoGoes, FaultsBounded
     DEF LoadConfig, Handles, RowsChange, HostChange
<1>5. CASE req' = [req EXCEPT ![r].pc = next, ![r].handle = ReqHost(r).config]
  <2>1. Goes(r)
    BY <1>2, <1>3, <1>5 DEF Goes, Leads
  <2>2. QED
    BY <2>1, <1>2, FaultsBounded DEF LoadConfig, Handles, RowsChange, HostChange
<1>6. QED
  BY <1>4, <1>5 DEF LoadConfig

\* Updating the status of the row is such a step.
LEMMA MarkHandles ==
    ASSUME IInv, NEW r \in Requests, NEW pc, NEW status \in {"RUNNING", "STOPPED"},
           NEW next, Leads(pc, next), Mark(r, pc, status, next)
    PROVE  Handles(r)
<1>1. Leads(pc, "error")
  BY DEF Leads, Answers, CreatePcs
<1>2. Goes(r)
  BY <1>1, GotoGoes DEF Mark, Statement
<1>3. QED
  BY <1>2, FaultsBounded DEF Mark, Statement, Handles, RowsChange, HostChange

\* Deleting the row is such a step.
LEMMA DropHandles ==
    ASSUME IInv, NEW r \in Requests, NEW pc, NEW next,
           Leads(pc, next), Statement(r, pc, DeleteRow(req[r].id), next)
    PROVE  Handles(r)
<1>1. Leads(pc, "error")
  BY DEF Leads, Answers, CreatePcs
<1>2. Goes(r)
  BY <1>1, GotoGoes DEF Statement
<1>3. QED
  BY <1>2, FaultsBounded DEF Statement, Handles, RowsChange, HostChange

\* A call whose error is ignored is such a step.
LEMMA AttemptHandles ==
    ASSUME IInv, NEW r \in Requests, NEW pc, NEW called, NEW can, NEW new \in Containers,
           NEW next, Leads(pc, next), Attempt(r, pc, called, can, new, next)
    PROVE  Handles(r)
<1>1. Goes(r)
  BY GotoGoes DEF Attempt
<1>2. QED
  BY <1>1, FaultsBounded DEF Attempt, IgnoringErrors, Handles, RowsChange, HostChange

-----------------------------------------------------------------------------
\* What a request holds.
LEMMA CallTypes ==
    ASSUME IInv, NEW r \in Requests
    PROVE  /\ req[r] \in Calls
           /\ req[r].handle \in Configs
           /\ req[r].memory \in Memories \cup {0}
           /\ req[r].cpu \in Cpus \cup {0}
BY DEF IInv, TypeOK, ReqTypeOK, Calls

-----------------------------------------------------------------------------
\* StartServer after the lookup.
LEMMA StartHandles ==
    ASSUME IInv, NEW r \in Requests,
           StartRunning(r) \/ StartDisk(r) \/ StartLoad(r) \/ StartStart(r) \/
           StartMark(r)
    PROVE  Handles(r)
<1>1. CASE StartRunning(r)
  BY <1>1, OpenAndAskHandles
     DEF StartRunning, Leads, HandlerPcs, Answers, CreatePcs
<1>2. CASE StartDisk(r)
  BY <1>2, AskHandles
     DEF StartDisk, Leads, HandlerPcs, Answers, CreatePcs
<1>3. CASE StartLoad(r)
  <2>1. ReqHost(r) \in Containers /\ req[r].handle \in Configs
    BY <1>3, ReqHostType, CallTypes DEF StartLoad, LoadConfig, InFlight, HandlerPcs
  <2>2. QED
    BY <1>3, <2>1, ContainerTypes, LoadConfigHandles
       DEF StartLoad, Leads, HandlerPcs, Answers, CreatePcs
<1>4. CASE StartStart(r)
  <2>1. ReqHost(r) \in Containers /\ req[r].handle \in Configs
    BY <1>4, ReqHostType, CallTypes DEF StartStart, HostCall, InFlight, HandlerPcs
  <2>2. QED
    BY <1>4, <2>1, ContainerTypes, HostCallHandles
       DEF StartStart, Leads, HandlerPcs, Answers, CreatePcs
<1>5. CASE StartMark(r)
  BY <1>5, MarkHandles
     DEF StartMark, Leads, HandlerPcs, Answers, CreatePcs, Statuses
<1>6. QED
  BY <1>1, <1>2, <1>3, <1>4, <1>5

-----------------------------------------------------------------------------
\* StopServer after the lookup.
LEMMA StopHandles ==
    ASSUME IInv, NEW r \in Requests,
           StopRunning(r) \/ StopStop(r) \/ StopMark(r)
    PROVE  Handles(r)
<1>1. CASE StopRunning(r)
  BY <1>1, OpenAndAskHandles
     DEF StopRunning, Leads, HandlerPcs, Answers, CreatePcs
<1>2. CASE StopStop(r)
  <2>1. ReqHost(r) \in Containers /\ req[r].handle \in Configs
    BY <1>2, ReqHostType, CallTypes DEF StopStop, HostCall, InFlight, HandlerPcs
  <2>2. QED
    BY <1>2, <2>1, ContainerTypes, HostCallHandles
       DEF StopStop, Leads, HandlerPcs, Answers, CreatePcs
<1>3. CASE StopMark(r)
  BY <1>3, MarkHandles
     DEF StopMark, Leads, HandlerPcs, Answers, CreatePcs, Statuses
<1>4. QED
  BY <1>1, <1>2, <1>3

-----------------------------------------------------------------------------
\* RestartServer after the lookup.
LEMMA RestartHandles ==
    ASSUME IInv, NEW r \in Requests,
           RestartLoad(r) \/ RestartReboot(r) \/ RestartMark(r)
    PROVE  Handles(r)
<1>1. CASE RestartLoad(r)
  <2>1. ReqHost(r) \in Containers /\ req[r].handle \in Configs
    BY <1>1, ReqHostType, CallTypes DEF RestartLoad, LoadConfig, InFlight, HandlerPcs
  <2>2. QED
    BY <1>1, <2>1, ContainerTypes, LoadConfigHandles
       DEF RestartLoad, Leads, HandlerPcs, Answers, CreatePcs
<1>2. CASE RestartReboot(r)
  <2>1. ReqHost(r) \in Containers /\ req[r].handle \in Configs
    BY <1>2, ReqHostType, CallTypes DEF RestartReboot, HostCall, InFlight, HandlerPcs
  <2>2. QED
    BY <1>2, <2>1, ContainerTypes, HostCallHandles
       DEF RestartReboot, Leads, HandlerPcs, Answers, CreatePcs
<1>3. CASE RestartMark(r)
  BY <1>3, MarkHandles
     DEF RestartMark, Leads, HandlerPcs, Answers, CreatePcs, Statuses
<1>4. QED
  BY <1>1, <1>2, <1>3

-----------------------------------------------------------------------------
\* The purge of a failed server by CreateServer.
LEMMA PurgeHandles ==
    ASSUME IInv, NEW r \in Requests,
           CreatePurgeStop(r) \/ CreatePurgeDestroy(r) \/ CreatePurgeUnmount(r) \/
           CreatePurgeRemove(r) \/ CreatePurgeDelete(r)
    PROVE  Handles(r)
<1>1. CASE CreatePurgeStop(r)
  <2>1. ReqHost(r) \in Containers /\ req[r].handle \in Configs
    BY <1>1, ReqHostType, CallTypes DEF CreatePurgeStop, Attempt, InFlight, HandlerPcs
  <2>2. CASE Attempt(r, "create_pstop", ReqHost(r).running, CanStop(ReqHost(r)),
                     Stopped(ReqHost(r)), "create_pdestroy")
    BY <2>1, <2>2, ContainerTypes, AttemptHandles
       DEF Leads, HandlerPcs, Answers, CreatePcs
  <2>3. CASE /\ req[r].pc = "create_pstop"
             /\ Fails("host")
             /\ Goto(r, "create_pumount")
             /\ UNCHANGED <<servers, lxcId, host, job>>
    <3>1. Leads("create_pstop", "create_pumount")
      BY DEF Leads, HandlerPcs, Answers, CreatePcs
    <3>2. QED
      BY <2>3, <3>1, GotoGoes, FaultsBounded DEF Handles, RowsChange, HostChange
  <2>4. QED
    BY <1>1, <2>2, <2>3 DEF CreatePurgeStop
<1>2. CASE CreatePurgeDestroy(r)
  <2>1. ReqHost(r) \in Containers /\ req[r].handle \in Configs
    BY <1>2, ReqHostType, CallTypes DEF CreatePurgeDestroy, Attempt, InFlight, HandlerPcs
  <2>2. QED
    BY <1>2, <2>1, ContainerTypes, AttemptHandles
       DEF CreatePurgeDestroy, Leads, HandlerPcs, Answers, CreatePcs
<1>3. CASE CreatePurgeUnmount(r)
  <2>1. ReqHost(r) \in Containers /\ req[r].handle \in Configs
    BY <1>3, ReqHostType, CallTypes DEF CreatePurgeUnmount, Attempt, InFlight, HandlerPcs
  <2>2. QED
    BY <1>3, <2>1, ContainerTypes, AttemptHandles
       DEF CreatePurgeUnmount, Leads, HandlerPcs, Answers, CreatePcs
<1>4. CASE CreatePurgeRemove(r)
  <2>1. ReqHost(r) \in Containers /\ req[r].handle \in Configs
    BY <1>4, ReqHostType, CallTypes DEF CreatePurgeRemove, Attempt, InFlight, HandlerPcs
  <2>2. QED
    BY <1>4, <2>1, ContainerTypes, AttemptHandles
       DEF CreatePurgeRemove, Leads, HandlerPcs, Answers, CreatePcs
<1>5. CASE CreatePurgeDelete(r)
  BY <1>5, DropHandles
     DEF CreatePurgeDelete, Leads, HandlerPcs, Answers, CreatePcs
<1>6. QED
  BY <1>1, <1>2, <1>3, <1>4, <1>5

-----------------------------------------------------------------------------
\* Saving the new configuration: the limits of the handle stay limits.
LEMMA UpdateSaveHandles ==
    ASSUME IInv, NEW r \in Requests, UpdateSave(r)
    PROVE  Handles(r)
<1> DEFINE new == [req[r].handle EXCEPT !.memory = Given(req[r].memory, @),
                                        !.cpu = Given(req[r].cpu, @)]
<1>1. req[r].pc = "update_save" /\ Leads("update_save", "error")
  BY DEF UpdateSave, Leads, HandlerPcs, Answers, CreatePcs
<1>2. ReqHost(r) \in Containers
  BY <1>1, ReqHostType DEF InFlight, HandlerPcs
<1>3. new \in Configs
  <2>1. req[r].handle \in Configs
    BY CallTypes
  <2>2. /\ Given(req[r].memory, req[r].handle.memory) \in Memories \cup {0}
        /\ Given(req[r].cpu, req[r].handle.cpu) \in Cpus \cup {0}
    BY <2>1, CallTypes DEF Given, Configs
  <2>3. QED
    BY <2>1, <2>2 DEF Configs
<1>4. CASE Goto(r, "error") /\ UNCHANGED host
  BY <1>1, <1>4, GotoGoes, FaultsBounded DEF UpdateSave, Handles, RowsChange, HostChange
<1>5. CASE /\ Works
           /\ host' = [host EXCEPT ![req[r].sid] = Saved(@, new)]
           /\ req' = [req EXCEPT ![r].pc = "update_write", ![r].handle = new]
  <2>1. Goes(r)
    BY <1>1, <1>3, <1>5 DEF Goes, HandlerPcs, CreatePcs
  <2>2. Saved(ReqHost(r), new) \in Containers
    BY <1>2, <1>3, ContainerTypes
  <2>3. HostChange(req[r].sid)
    BY <1>5, <2>2 DEF HostChange, ReqHost
  <2>4. QED
    BY <1>5, <2>1, <2>3, FaultsBounded DEF UpdateSave, Handles, RowsChange
<1>6. QED
  BY <1>4, <1>5 DEF UpdateSave

\* Writing the limits of the row.
LEMMA UpdateWriteHandles ==
    ASSUME IInv, NEW r \in Requests, UpdateWrite(r)
    PROVE  Handles(r)
<1>1. Leads("update_write", "update_start") /\ Leads("update_write", "error")
  BY DEF Leads, HandlerPcs, Answers, CreatePcs
<1>2. Goes(r)
  BY <1>1, GotoGoes DEF UpdateWrite, Statement
<1>3. RowsChange(req[r].id, {"RUNNING", "STOPPED"})
  BY CallTypes DEF UpdateWrite, Statement, RowsChange
<1>4. QED
  BY <1>2, <1>3, FaultsBounded DEF UpdateWrite, Statement, Handles, HostChange

-----------------------------------------------------------------------------
\* UpdateServer after the lookup.
LEMMA UpdateHandles ==
    ASSUME IInv, NEW r \in Requests,
           UpdateRunning(r) \/ UpdateStop(r) \/ UpdateWait(r) \/ UpdateStopped(r) \/
           UpdateLoad(r) \/ UpdateSave(r) \/ UpdateWrite(r) \/ UpdateStart(r) \/ UpdateMark(r)
    PROVE  Handles(r)
<1>1. CASE UpdateRunning(r)
  BY <1>1, OpenAndAskHandles
     DEF UpdateRunning, Leads, HandlerPcs, Answers, CreatePcs
<1>2. CASE UpdateStop(r)
  <2>1. ReqHost(r) \in Containers /\ req[r].handle \in Configs
    BY <1>2, ReqHostType, CallTypes DEF UpdateStop, HostCall, InFlight, HandlerPcs
  <2>2. QED
    BY <1>2, <2>1, ContainerTypes, HostCallHandles
       DEF UpdateStop, Leads, HandlerPcs, Answers, CreatePcs
<1>3. CASE UpdateStopped(r)
  BY <1>3, MarkHandles
     DEF UpdateStopped, Leads, HandlerPcs, Answers, CreatePcs, Statuses
<1>4. CASE UpdateLoad(r)
  <2>1. ReqHost(r) \in Containers /\ req[r].handle \in Configs
    BY <1>4, ReqHostType, CallTypes DEF UpdateLoad, LoadConfig, InFlight, HandlerPcs
  <2>2. QED
    BY <1>4, <2>1, ContainerTypes, LoadConfigHandles
       DEF UpdateLoad, Leads, HandlerPcs, Answers, CreatePcs
<1>5. CASE UpdateSave(r)
  BY <1>5, UpdateSaveHandles
<1>6. CASE UpdateWrite(r)
  BY <1>6, UpdateWriteHandles
<1>7. CASE UpdateStart(r)
  <2>1. ReqHost(r) \in Containers /\ req[r].handle \in Configs
    BY <1>7, ReqHostType, CallTypes DEF UpdateStart, HostCall, InFlight, HandlerPcs
  <2>2. QED
    BY <1>7, <2>1, ContainerTypes, HostCallHandles
       DEF UpdateStart, Leads, HandlerPcs, Answers, CreatePcs
<1>8. CASE UpdateMark(r)
  BY <1>8, MarkHandles
     DEF UpdateMark, Leads, HandlerPcs, Answers, CreatePcs, Statuses
<1>9. CASE UpdateWait(r)
  BY <1>9, WaitStoppedHandles DEF UpdateWait, Leads, HandlerPcs, Answers, CreatePcs
<1>10. QED
  BY <1>1, <1>2, <1>3, <1>4, <1>5, <1>6, <1>7, <1>8, <1>9

-----------------------------------------------------------------------------
\* DeleteServer after the lookup.
LEMMA DeleteHandles ==
    ASSUME IInv, NEW r \in Requests,
           DeleteRunning(r) \/ DeleteStop(r) \/ DeleteWait(r) \/ DeleteStopped(r)
           \/ DeleteUnmount(r) \/ DeleteDefined(r) \/ DeleteDestroy(r) \/ DeleteRemove(r) \/
           DeleteDelete(r)
    PROVE  Handles(r)
<1>1. CASE DeleteRunning(r)
  BY <1>1, OpenAndAskHandles
     DEF DeleteRunning, Leads, HandlerPcs, Answers, CreatePcs
<1>2. CASE DeleteStop(r)
  <2>1. ReqHost(r) \in Containers /\ req[r].handle \in Configs
    BY <1>2, ReqHostType, CallTypes DEF DeleteStop, HostCall, InFlight, HandlerPcs
  <2>2. QED
    BY <1>2, <2>1, ContainerTypes, HostCallHandles
       DEF DeleteStop, Leads, HandlerPcs, Answers, CreatePcs
<1>3. CASE DeleteStopped(r)
  BY <1>3, MarkHandles
     DEF DeleteStopped, Leads, HandlerPcs, Answers, CreatePcs, Statuses
<1>4. CASE DeleteUnmount(r)
  <2>1. ReqHost(r) \in Containers /\ req[r].handle \in Configs
    BY <1>4, ReqHostType, CallTypes DEF DeleteUnmount, Attempt, InFlight, HandlerPcs
  <2>2. QED
    BY <1>4, <2>1, ContainerTypes, AttemptHandles
       DEF DeleteUnmount, Leads, HandlerPcs, Answers, CreatePcs
<1>5. CASE DeleteDefined(r)
  BY <1>5, AskHandles
     DEF DeleteDefined, Leads, HandlerPcs, Answers, CreatePcs
<1>6. CASE DeleteDestroy(r)
  <2>1. ReqHost(r) \in Containers /\ req[r].handle \in Configs
    BY <1>6, ReqHostType, CallTypes DEF DeleteDestroy, HostCall, InFlight, HandlerPcs
  <2>2. QED
    BY <1>6, <2>1, ContainerTypes, HostCallHandles
       DEF DeleteDestroy, Leads, HandlerPcs, Answers, CreatePcs
<1>7. CASE DeleteRemove(r)
  <2>1. ReqHost(r) \in Containers /\ req[r].handle \in Configs
    BY <1>7, ReqHostType, CallTypes DEF DeleteRemove, Attempt, InFlight, HandlerPcs
  <2>2. QED
    BY <1>7, <2>1, ContainerTypes, AttemptHandles
       DEF DeleteRemove, Leads, HandlerPcs, Answers, CreatePcs
<1>8. CASE DeleteDelete(r)
  BY <1>8, DropHandles
     DEF DeleteDelete, Leads, HandlerPcs, Answers, CreatePcs
<1>9. CASE DeleteWait(r)
  BY <1>9, WaitStoppedHandles DEF DeleteWait, Leads, HandlerPcs, Answers, CreatePcs
<1>10. QED
  BY <1>1, <1>2, <1>3, <1>4, <1>5, <1>6, <1>7, <1>8, <1>9

-----------------------------------------------------------------------------
\* A request arrives, and its lookup is done.
ArrivesStep(r) ==
    /\ Arrives(r)
    /\ faults' \in 0..MaxFaults
    /\ UNCHANGED <<lxcId, job>>

\* A request that looks its server up arrives, found or not.
LEMMA LookupArrives ==
    ASSUME IInv, NEW r \in Requests, NEW op \in AllOps, NEW id \in Requests,
           NEW memory \in Memories \cup {0}, NEW cpu \in Cpus \cup {0},
           NEW next \in HandlerPcs \ CreatePcs, Lookup(r, op, id, memory, cpu, next)
    PROVE  ArrivesStep(r)
<1> DEFINE call == [Idle EXCEPT !.op = op, !.id = id, !.memory = memory, !.cpu = cpu]
<1>1. /\ call \in Calls
      /\ call.id \in Requests
  BY DEF Idle, Calls, Configs, NoConfig
<1>2. faults' \in 0..MaxFaults
  BY FaultsBounded DEF Lookup
<1>3. ASSUME NEW row \in RowsWithId(id),
             req' = [req EXCEPT ![r] = [call EXCEPT !.pc = next, !.sid = row.sid]]
      PROVE  Arrives(r)
  <2>1. row.sid \in Sids
    BY DEF RowsWithId, IInv, TypeOK, StoreTypeOK, Rows
  <2> DEFINE new == [call EXCEPT !.pc = next, !.sid = row.sid]
  <2>2. /\ new \in Calls
        /\ new.pc = next
        /\ new.id \in Requests
        /\ new.sid \in Sids
    BY <1>1, <2>1 DEF Calls
  <2> HIDE DEF new
  <2>3. req' = [req EXCEPT ![r] = new]
    BY <1>3 DEF new
  <2>4. QED
    BY <2>2, <2>3 DEF Arrives, Lookup, HandlerPcs, CreatePcs
<1>4. ASSUME req' = [req EXCEPT ![r] = [call EXCEPT !.pc = "notfound"]]
      PROVE  Arrives(r)
  <2> DEFINE new == [call EXCEPT !.pc = "notfound"]
  <2>1. new \in Calls /\ new.pc = "notfound"
    BY <1>1 DEF Calls, Answers
  <2> HIDE DEF new
  <2>2. req' = [req EXCEPT ![r] = new]
    BY <1>4 DEF new
  <2>3. QED
    BY <2>1, <2>2 DEF Arrives, Lookup, HandlerPcs, CreatePcs
<1>5. QED
  BY <1>2, <1>3, <1>4 DEF Lookup, ArrivesStep

\* A request with a malformed body arrives and is answered.
LEMMA RejectArrives ==
    ASSUME IInv, NEW r \in Requests, CreateReject(r) \/ UpdateReject(r)
    PROVE  ArrivesStep(r)
<1>1. PICK op \in AllOps : req' = [req EXCEPT ![r] = [Idle EXCEPT !.op = op, !.pc = "bad"]]
  BY DEF CreateReject, UpdateReject, AllOps
<1> DEFINE new == [Idle EXCEPT !.op = op, !.pc = "bad"]
<1>2. new \in Calls /\ new.pc = "bad"
  BY DEF Idle, Calls, Configs, NoConfig, Answers
<1> HIDE DEF new
<1>3. req' = [req EXCEPT ![r] = new]
  BY <1>1 DEF new
<1>4. QED
  BY <1>2, <1>3, FaultsBounded
     DEF CreateReject, UpdateReject, ArrivesStep, Arrives, HandlerPcs, CreatePcs

\* A create request that looks its name up arrives.
LEMMA CreateLookupArrives ==
    ASSUME IInv, NEW r \in Requests, NEW name \in Names, NEW memory \in Memories,
           NEW cpu \in Cpus, CreateLookup(r, name, memory, cpu)
    PROVE  ArrivesStep(r)
<1> DEFINE call == [Idle EXCEPT !.op = "create", !.id = r, !.name = name,
                                !.memory = memory, !.cpu = cpu]
           found == {row \in servers : row.name = name}
<1>1. /\ call \in Calls
      /\ call.id = r /\ call.name = name /\ call.memory = memory /\ call.cpu = cpu
  BY DEF Idle, Calls, Configs, NoConfig, AllOps
<1>2. PICK new :
         /\ req' = [req EXCEPT ![r] = new]
         /\ \/ \E row \in found : new = [call EXCEPT !.pc = "create_pstop",
                                                     !.id = row.id, !.sid = row.sid]
            \/ new = [call EXCEPT !.pc = "bad"]
            \/ new = [call EXCEPT !.pc = "create_incr"]
  BY DEF CreateLookup
<1>3. /\ new \in Calls
      /\ new.name = name /\ new.memory = memory /\ new.cpu = cpu
      /\ \/ new.pc = "create_pstop" /\ new.id \in Requests /\ new.sid \in Sids
         \/ new.pc = "bad"
         \/ new.pc = "create_incr" /\ new.id = r
  <2>1. ASSUME NEW row \in found
        PROVE  row.id \in Requests /\ row.sid \in Sids
    BY DEF IInv, TypeOK, StoreTypeOK, Rows
  <2> HIDE DEF found, call
  <2>2. CASE \E row \in found : new = [call EXCEPT !.pc = "create_pstop",
                                                   !.id = row.id, !.sid = row.sid]
    <3>1. PICK id \in Requests, sid \in Sids :
             new = [call EXCEPT !.pc = "create_pstop", !.id = id, !.sid = sid]
      BY <2>1, <2>2
    <3>2. QED
      BY <1>1, <3>1 DEF Calls, HandlerPcs
  <2>3. CASE new = [call EXCEPT !.pc = "bad"]
    BY <1>1, <2>3 DEF Calls, Answers
  <2>4. CASE new = [call EXCEPT !.pc = "create_incr"]
    BY <1>1, <2>4 DEF Calls, HandlerPcs
  <2>5. QED
    BY <1>2, <2>2, <2>3, <2>4
<1> HIDE DEF call, found
<1>4. Arrives(r)
  BY <1>2, <1>3 DEF Arrives, CreateLookup, HandlerPcs, CreatePcs
<1>5. QED
  BY <1>4, FaultsBounded DEF CreateLookup, ArrivesStep

\* The arrival of a request keeps the inductive invariant.
LEMMA ArrivesInv ==
    ASSUME IInv, NEW r \in Requests, ArrivesStep(r), UNCHANGED <<up, crashes>>
    PROVE  IInv'
<1>1. PICK call \in Calls :
          /\ req' = [req EXCEPT ![r] = call]
          /\ call.pc \notin {"new", "create_insert"}
          /\ call.pc \in HandlerPcs => /\ call.id \in Requests
                                       /\ call.pc # "create_incr" => call.sid \in Sids
          /\ call.pc \in CreatePcs => /\ call.name \in Names
                                      /\ call.memory \in Memories
                                      /\ call.cpu \in Cpus
  BY DEF ArrivesStep, Arrives
<1>2. req \in [Requests -> Calls] /\ req[r].pc = "new"
  BY DEF IInv, TypeOK, ReqTypeOK, ArrivesStep, Arrives
<1>3. /\ req' \in [Requests -> Calls]
      /\ \A q \in Requests \ {r} : req'[q] = req[q]
      /\ req'[r] = call
  BY <1>1, <1>2
<1>4. \A q \in Requests : CallOK(q)'
  BY <1>1, <1>2, <1>3 DEF IInv, CallOK, InFlight, Spawned, ArrivesStep
<1>5. SidsOK'
  BY <1>1, <1>2, <1>3 DEF IInv, SidsOK, Drew, SidOf, Spawned, ArrivesStep
<1>6. TypeOK' /\ RowsUnique'
  BY <1>3 DEF IInv, TypeOK, EnvironmentTypeOK, StoreTypeOK, HostTypeOK, JobTypeOK,
              ReqTypeOK, RowsUnique, ArrivesStep, Arrives
<1>7. (\A id \in Requests : JobOK(id))'
  BY DEF IInv, JobOK, Spawned, ArrivesStep
<1>8. QED
  BY <1>4, <1>5, <1>6, <1>7 DEF IInv, ArrivesStep

-----------------------------------------------------------------------------
\* The new container number is larger than all that were drawn.
LEMMA CreateIncrInv ==
    ASSUME IInv, NEW r \in Requests, CreateIncr(r), up, UNCHANGED <<up, crashes>>
    PROVE  IInv'
<1>1. faults' \in 0..MaxFaults
  BY FaultsBounded DEF CreateIncr
<1>2. /\ req[r] \in Calls
      /\ req[r].pc = "create_incr"
      /\ req[r].name \in Names /\ req[r].memory \in Memories /\ req[r].cpu \in Cpus
      /\ ~Spawned(r)
      /\ lxcId \in (FirstSid - 1)..MaxSid
  BY CallTypes DEF CreateIncr, IInv, CallOK, CreatePcs, TypeOK, StoreTypeOK
<1>3. PICK new \in Calls :
         /\ req' = [req EXCEPT ![r] = new]
         /\ new.name = req[r].name /\ new.memory = req[r].memory /\ new.cpu = req[r].cpu
         /\ \/ new.pc = "error" /\ UNCHANGED lxcId
            \/ /\ new.pc = "create_insert" /\ new.id = r /\ new.sid = lxcId + 1
               /\ lxcId' = lxcId + 1
               /\ lxcId + 1 \in Sids
  <2>1. CASE Goto(r, "error") /\ UNCHANGED lxcId
    <3> DEFINE new == [req[r] EXCEPT !.pc = "error", !.handle = NoConfig]
    <3>1. req' = [req EXCEPT ![r] = new]
      BY <1>2, <2>1 DEF Goto, Answers, IInv, TypeOK, ReqTypeOK
    <3>2. new \in Calls /\ new.pc = "error" /\ new.name = req[r].name
          /\ new.memory = req[r].memory /\ new.cpu = req[r].cpu
      BY <1>2 DEF Calls, Answers, Configs, NoConfig
    <3>3. QED
      BY <2>1, <3>1, <3>2
  <2>2. CASE /\ Incr
             /\ req' = [req EXCEPT ![r].pc = "create_insert", ![r].id = r,
                                   ![r].sid = lxcId + 1]
    <3> DEFINE new == [req[r] EXCEPT !.pc = "create_insert", !.id = r, !.sid = lxcId + 1]
    <3>1. req' = [req EXCEPT ![r] = new]
      BY <1>2, <2>2 DEF IInv, TypeOK, ReqTypeOK
    <3>2. lxcId + 1 \in Sids /\ lxcId' = lxcId + 1
      BY <1>2, <2>2, StoreAssumption DEF Incr, Sids, FirstSid
    <3>3. new \in Calls /\ new.pc = "create_insert" /\ new.id = r /\ new.sid = lxcId + 1
          /\ new.name = req[r].name /\ new.memory = req[r].memory /\ new.cpu = req[r].cpu
      BY <1>2, <3>2 DEF Calls, HandlerPcs
    <3>4. QED
      BY <3>1, <3>2, <3>3
  <2>3. QED
    BY <2>1, <2>2 DEF CreateIncr
<1>4. /\ req' \in [Requests -> Calls]
      /\ \A q \in Requests \ {r} : req'[q] = req[q]
      /\ req'[r] = new
  BY <1>3 DEF IInv, TypeOK, ReqTypeOK
<1>5. \A q \in Requests : CallOK(q)'
  BY <1>2, <1>3, <1>4
     DEF IInv, CallOK, InFlight, Spawned, CreateIncr, HandlerPcs, CreatePcs
<1>6. SidsOK'
  <2>1. \A q \in Requests \ {r} : /\ Drew(q)' <=> Drew(q)
                                  /\ SidOf(q)' = SidOf(q)
    BY <1>4 DEF Drew, SidOf, Spawned, CreateIncr
  <2>2. \A q \in Requests : Drew(q) => SidOf(q) \in Sids /\ SidOf(q) <= lxcId
    BY DEF IInv, SidsOK, Drew, SidOf, JobOK, CallOK, InFlight, HandlerPcs
  <2>3. CASE new.pc = "error" /\ UNCHANGED lxcId
    <3>1. ~Drew(r)'
      BY <1>2, <1>4, <2>3 DEF Drew, Spawned, CreateIncr
    <3>2. QED
      BY <2>1, <2>3, <3>1 DEF IInv, SidsOK
  <2>4. CASE new.pc = "create_insert" /\ new.sid = lxcId + 1 /\ lxcId' = lxcId + 1
    <3>1. SidOf(r)' = lxcId + 1
      BY <1>2, <1>4, <2>4 DEF SidOf, Spawned, CreateIncr
    <3>2. lxcId \in Int /\ \A q \in Requests : Drew(q) => SidOf(q) \in Int
      BY <1>2, <2>2 DEF Sids, FirstSid
    <3>3. QED
      BY <2>1, <2>2, <2>4, <3>1, <3>2 DEF IInv, SidsOK
  <2>5. QED
    BY <1>3, <2>3, <2>4
<1>7. lxcId' \in {0} \cup (FirstSid - 1)..MaxSid /\ lxcId' # 0
  BY <1>2, <1>3 DEF Sids, FirstSid
<1>8. TypeOK' /\ RowsUnique'
  BY <1>1, <1>4, <1>7 DEF IInv, TypeOK, EnvironmentTypeOK, StoreTypeOK, HostTypeOK, JobTypeOK,
              ReqTypeOK, RowsUnique, CreateIncr
<1>9. (\A id \in Requests : JobOK(id))'
  BY DEF IInv, JobOK, Spawned, CreateIncr
<1>10. QED
  BY <1>5, <1>6, <1>7, <1>8, <1>9 DEF IInv

\* The number drawn passes from the request to the installation it spawns.
LEMMA CreateInsertInv ==
    ASSUME IInv, NEW r \in Requests, CreateInsert(r), UNCHANGED <<up, crashes>>
    PROVE  IInv'
<1>1. faults' \in 0..MaxFaults
  BY FaultsBounded DEF CreateInsert
<1>2. /\ req[r] \in Calls
      /\ req[r].pc = "create_insert"
      /\ req[r].sid \in Sids
      /\ req[r].name \in Names /\ req[r].memory \in Memories /\ req[r].cpu \in Cpus
      /\ ~Spawned(r)
  BY CallTypes DEF CreateInsert, IInv, CallOK, CreatePcs, InFlight, HandlerPcs
<1>3. PICK new \in Calls : req' = [req EXCEPT ![r] = new] /\ new.pc \in {"ok", "error"}
  <2>1. PICK pc \in {"ok", "error"} : Goto(r, pc)
    BY DEF CreateInsert
  <2> DEFINE new == [req[r] EXCEPT !.pc = pc, !.handle = NoConfig]
  <2>2. req' = [req EXCEPT ![r] = new]
    BY <1>2, <2>1 DEF Goto, Answers, IInv, TypeOK, ReqTypeOK
  <2>3. new \in Calls /\ new.pc = pc
    BY <1>2 DEF Calls, Answers, Configs, NoConfig
  <2>4. QED
    BY <2>2, <2>3
<1>4. /\ req' \in [Requests -> Calls]
      /\ \A q \in Requests \ {r} : req'[q] = req[q]
      /\ req'[r] = new
  BY <1>3 DEF IInv, TypeOK, ReqTypeOK
<1> DEFINE spawned == [pc |-> "bridge", sid |-> req[r].sid, memory |-> req[r].memory,
                       cpu |-> req[r].cpu, diskMounted |-> FALSE]
           row == [id |-> r, sid |-> req[r].sid, name |-> req[r].name,
                   memory |-> req[r].memory, cpu |-> req[r].cpu, status |-> "INSTALLING"]
<1>5. CASE UNCHANGED <<servers, job>>
  <2>1. \A q \in Requests : CallOK(q)'
    BY <1>2, <1>3, <1>4, <1>5 DEF IInv, CallOK, InFlight, Spawned, HandlerPcs, CreatePcs
  <2>2. SidsOK'
    BY <1>2, <1>3, <1>4, <1>5 DEF IInv, SidsOK, Drew, SidOf, Spawned, CreateInsert
  <2>3. TypeOK' /\ RowsUnique'
    BY <1>1, <1>4, <1>5 DEF IInv, TypeOK, EnvironmentTypeOK, StoreTypeOK, HostTypeOK,
              JobTypeOK, ReqTypeOK, RowsUnique, CreateInsert
  <2>4. (\A id \in Requests : JobOK(id))'
    BY <1>5 DEF IInv, JobOK, Spawned
  <2>5. QED
    BY <2>1, <2>2, <2>3, <2>4 DEF IInv, CreateInsert
<1>6. CASE MayInsert(row) /\ Insert(row) /\ Spawn(r, req[r].sid, req[r].memory, req[r].cpu)
  <2>1. job' = [job EXCEPT ![r] = spawned] /\ spawned \in Jobs /\ spawned.pc = "bridge"
    BY <1>2, <1>6 DEF Spawn, Jobs, ActivePcs, InstallPcs
  <2>2. row \in Rows
    BY <1>2 DEF Rows, Statuses
  <2>3. /\ job' \in [Requests -> Jobs]
        /\ \A q \in Requests \ {r} : job'[q] = job[q]
        /\ job'[r] = spawned
    BY <2>1 DEF IInv, TypeOK, JobTypeOK
  <2>4. servers' \subseteq Rows /\ RowsUnique'
    BY <1>6, <2>2 DEF IInv, TypeOK, StoreTypeOK, Insert, MayInsert, RowsUnique
  <2>5. \A q \in Requests : CallOK(q)'
    BY <1>2, <1>3, <1>4, <2>3 DEF IInv, CallOK, InFlight, Spawned, HandlerPcs, CreatePcs
  <2>6. SidsOK'
    <3>1. \A q \in Requests : /\ Drew(q)' => Drew(q)
                              /\ Drew(q)' => SidOf(q)' = SidOf(q)
      BY <1>2, <1>3, <1>4, <2>3 DEF Drew, SidOf, Spawned
    <3>2. QED
      BY <3>1 DEF IInv, SidsOK, CreateInsert
  <2>7. TypeOK'
    BY <1>1, <1>4, <2>3, <2>4 DEF IInv, TypeOK, EnvironmentTypeOK, StoreTypeOK, HostTypeOK,
              JobTypeOK, ReqTypeOK, CreateInsert
  <2>8. (\A id \in Requests : JobOK(id))'
    BY <1>2, <2>3 DEF IInv, JobOK, Spawned
  <2>9. QED
    BY <2>4, <2>5, <2>6, <2>7, <2>8 DEF IInv, CreateInsert
<1>7. QED
  BY <1>5, <1>6 DEF CreateInsert

-----------------------------------------------------------------------------
\* A step of an installation: it goes on, and changes its row and its container.
Installs(id) ==
    /\ Active(id)
    /\ \E pc \in (ActivePcs \cup {"ended"}) \ {job[id].pc}, mounted \in BOOLEAN :
          job' = [job EXCEPT ![id].pc = pc, ![id].diskMounted = mounted]
    /\ RowsChange(id, {"RUNNING", "ERROR"})
    /\ HostChange(job[id].sid)
    /\ faults' \in 0..MaxFaults

\* An installation at work has a container.
LEMMA JobHostType ==
    ASSUME IInv, NEW id \in Requests, Active(id)
    PROVE  JobHost(id) \in Containers /\ job[id] \in Jobs
BY DEF IInv, TypeOK, HostTypeOK, JobTypeOK, JobOK, JobHost, Spawned, Active, ActivePcs,
       InstallPcs, CleanupPcs

\* A step of an installation keeps the inductive invariant.
LEMMA InstallsInv ==
    ASSUME IInv, NEW id \in Requests, Installs(id), UNCHANGED <<up, crashes, lxcId, req>>
    PROVE  IInv'
<1>1. PICK pc \in (ActivePcs \cup {"ended"}) \ {job[id].pc}, mounted \in BOOLEAN :
          job' = [job EXCEPT ![id].pc = pc, ![id].diskMounted = mounted]
  BY DEF Installs
<1>2. job \in [Requests -> Jobs] /\ job[id] \in Jobs /\ Active(id)
  BY JobHostType DEF IInv, TypeOK, JobTypeOK, Installs
<1> DEFINE new == [job[id] EXCEPT !.pc = pc, !.diskMounted = mounted]
<1>3. /\ new \in Jobs
      /\ new.pc = pc
      /\ new.sid = job[id].sid /\ new.memory = job[id].memory /\ new.cpu = job[id].cpu
  BY <1>2 DEF Jobs
<1>4. job' = [job EXCEPT ![id] = new]
  BY <1>1, <1>2
<1> HIDE DEF new
<1>5. /\ job' \in [Requests -> Jobs]
      /\ \A q \in Requests \ {id} : job'[q] = job[q]
      /\ job'[id] = new
  BY <1>2, <1>3, <1>4
<1>6. \A q \in Requests : /\ Spawned(q)' <=> Spawned(q)
                          /\ job'[q].sid = job[q].sid
                          /\ job'[q].memory = job[q].memory
                          /\ job'[q].cpu = job[q].cpu
  BY <1>2, <1>3, <1>5 DEF Spawned, Active, ActivePcs, InstallPcs, CleanupPcs
<1>7. servers' \subseteq Rows /\ RowsUnique'
  BY RowsChangeInv DEF Installs, IInv, TypeOK, StoreTypeOK, Statuses
<1>8. HostTypeOK'
  BY DEF Installs, HostChange, IInv, TypeOK, HostTypeOK
<1>9. TypeOK'
  BY <1>5, <1>7, <1>8
     DEF IInv, TypeOK, EnvironmentTypeOK, StoreTypeOK, JobTypeOK, ReqTypeOK, Installs
<1>10. (\A q \in Requests : JobOK(q))' /\ (\A q \in Requests : CallOK(q))'
  BY <1>6 DEF IInv, JobOK, CallOK, InFlight
<1>11. SidsOK'
  BY <1>6 DEF IInv, SidsOK, Drew, SidOf
<1>12. QED
  BY <1>7, <1>9, <1>10, <1>11 DEF IInv

\* The helpers of the installation.
LEMMA JobGotoGoes ==
    ASSUME IInv, NEW id \in Requests, Active(id),
           NEW pc \in (ActivePcs \cup {"ended"}) \ {job[id].pc}, JobGoto(id, pc)
    PROVE  \E mounted \in BOOLEAN :
              job' = [job EXCEPT ![id].pc = pc, ![id].diskMounted = mounted]
<1>1. job \in [Requests -> Jobs] /\ job[id] \in Jobs
  BY JobHostType DEF IInv, TypeOK, JobTypeOK
<1>2. job[id].diskMounted \in BOOLEAN
  BY <1>1 DEF Jobs
<1>3. job' = [job EXCEPT ![id].pc = pc, ![id].diskMounted = job[id].diskMounted]
  BY <1>1 DEF JobGoto, Jobs
<1>4. QED
  BY <1>2, <1>3

\* A step of the installation proper, ending well or badly, Installs.
LEMMA InstallStepInstalls ==
    ASSUME IInv, NEW id \in Requests, NEW pc \in ActivePcs, NEW can,
           NEW new \in Containers, NEW next \in ActivePcs \ {pc},
           NEW partial \in SUBSET Containers, NEW onError \in ActivePcs \ {pc},
           InstallStep(id, pc, can, new, next, partial, onError)
    PROVE  Installs(id)
<1>1. Active(id)
  BY DEF InstallStep, Active
<1>2. \E to \in ActivePcs \ {job[id].pc} : JobGoto(id, to)
  BY DEF InstallStep
<1>3. HostChange(job[id].sid)
  BY DEF InstallStep, HostChange
<1>4. QED
  BY <1>1, <1>2, <1>3, JobGotoGoes, FaultsBounded DEF InstallStep, Installs, RowsChange

\* Updating the status of the installed row Installs.
LEMMA JobMarkInstalls ==
    ASSUME IInv, NEW id \in Requests, NEW pc \in ActivePcs, NEW status \in {"RUNNING", "ERROR"},
           NEW next \in (ActivePcs \cup {"ended"}) \ {pc}, JobMark(id, pc, status, next)
    PROVE  Installs(id)
<1>1. Active(id)
  BY DEF JobMark, Active
<1>2. QED
  BY <1>1, JobGotoGoes, FaultsBounded DEF JobMark, Installs, RowsChange, HostChange

\* A step of the cleanup Installs.
LEMMA CleanupStepInstalls ==
    ASSUME IInv, NEW id \in Requests, NEW pc \in ActivePcs, NEW called, NEW can,
           NEW new \in Containers, NEW next \in (ActivePcs \cup {"ended"}) \ {pc},
           CleanupStep(id, pc, called, can, new, next)
    PROVE  Installs(id)
<1>1. Active(id)
  BY DEF CleanupStep, Active
<1>2. HostChange(job[id].sid)
  BY DEF CleanupStep, IgnoringErrors, HostChange
<1>3. QED
  BY <1>1, <1>2, JobGotoGoes, FaultsBounded
     DEF CleanupStep, IgnoringErrors, Installs, RowsChange

-----------------------------------------------------------------------------
\* The two steps that note in the job whether the disk is mounted.
LEMMA MountDiskInstalls ==
    ASSUME IInv, NEW id \in Requests, MountDisk(id) \/ UnmountDisk(id)
    PROVE  Installs(id)
<1>1. Active(id)
  BY DEF MountDisk, UnmountDisk, Active, ActivePcs, InstallPcs
<1>2. JobHost(id) \in Containers
  BY <1>1, JobHostType
<1>3. /\ [JobHost(id) EXCEPT !.mounted = TRUE] \in Containers
      /\ Unmounted(JobHost(id)) \in Containers
  BY <1>2 DEF Containers, Unmounted
<1>4. job \in [Requests -> Jobs]
  BY DEF IInv, TypeOK, JobTypeOK
<1>5. HostChange(job[id].sid)
  BY <1>3 DEF MountDisk, UnmountDisk, HostChange, JobHost
<1>6. \E pc \in (ActivePcs \cup {"ended"}) \ {job[id].pc}, mounted \in BOOLEAN :
         job' = [job EXCEPT ![id].pc = pc, ![id].diskMounted = mounted]
  <2>1. CASE JobGoto(id, "kmark")
    BY <1>1, <2>1, JobGotoGoes DEF MountDisk, UnmountDisk, ActivePcs, CleanupPcs
  <2>2. CASE job' = [job EXCEPT ![id].pc = "copy", ![id].diskMounted = TRUE]
    BY <2>2 DEF MountDisk, UnmountDisk, ActivePcs, InstallPcs
  <2>3. CASE job' = [job EXCEPT ![id].pc = IF JobHost(id).dir THEN "start" ELSE "kmark",
                                ![id].diskMounted = FALSE]
    <3>1. PICK to \in {"start", "kmark"} :
             job' = [job EXCEPT ![id].pc = to, ![id].diskMounted = FALSE]
      BY <2>3
    <3>2. to \in (ActivePcs \cup {"ended"}) \ {job[id].pc}
      BY DEF MountDisk, UnmountDisk, ActivePcs, InstallPcs, CleanupPcs
    <3>3. QED
      BY <3>1, <3>2
  <2>4. QED
    BY <2>1, <2>2, <2>3 DEF MountDisk, UnmountDisk
<1>7. QED
  BY <1>1, <1>5, <1>6, FaultsBounded DEF MountDisk, UnmountDisk, Installs, RowsChange

\* The states in which the steps of the installation may leave a container.
LEMMA InstallTypes ==
    ASSUME NEW h \in Containers
    PROVE  /\ [h EXCEPT !.tree = FALSE] \in Containers
           /\ [h EXCEPT !.tree = FALSE, !.disk = "empty"] \in Containers
           /\ [h EXCEPT !.disk = "full"] \in Containers
BY DEF Containers

-----------------------------------------------------------------------------
\* Every step of createServerAsync is such a step.
LEMMA JobActionInstalls ==
    ASSUME IInv, NEW id \in Requests, JobAction(id)
    PROVE  Installs(id)
<1>1. CASE CheckBridge(id)
  <2>1. Active(id)
    BY <1>1 DEF CheckBridge, InstallStep, Active, ActivePcs, InstallPcs, CleanupPcs
  <2>2. JobHost(id) \in Containers
    BY <2>1, JobHostType
  <2>3. NoConfig \in Configs
    BY DEF NoConfig, Configs
  <2>4. QED
    BY <1>1, <2>2, <2>3, ContainerTypes, InstallTypes, InstallStepInstalls
       DEF CheckBridge, ActivePcs, InstallPcs, CleanupPcs
<1>2. CASE CreateContainer(id)
  <2>1. Active(id)
    BY <1>2 DEF CreateContainer, InstallStep, Active, ActivePcs, InstallPcs, CleanupPcs
  <2>2. JobHost(id) \in Containers
    BY <2>1, JobHostType
  <2>3. NoConfig \in Configs
    BY DEF NoConfig, Configs
  <2>4. QED
    BY <1>2, <2>2, <2>3, ContainerTypes, InstallTypes, InstallStepInstalls
       DEF CreateContainer, ActivePcs, InstallPcs, CleanupPcs
<1>3. CASE MakeDisk(id)
  <2>1. Active(id)
    BY <1>3 DEF MakeDisk, InstallStep, Active, ActivePcs, InstallPcs, CleanupPcs
  <2>2. JobHost(id) \in Containers
    BY <2>1, JobHostType
  <2>3. NoConfig \in Configs
    BY DEF NoConfig, Configs
  <2>4. QED
    BY <1>3, <2>2, <2>3, ContainerTypes, InstallTypes, InstallStepInstalls
       DEF MakeDisk, ActivePcs, InstallPcs, CleanupPcs
<1>4. CASE MountDisk(id)
  BY <1>4, MountDiskInstalls
<1>5. CASE CopyTree(id)
  <2>1. Active(id)
    BY <1>5 DEF CopyTree, InstallStep, Active, ActivePcs, InstallPcs, CleanupPcs
  <2>2. JobHost(id) \in Containers
    BY <2>1, JobHostType
  <2>3. NoConfig \in Configs
    BY DEF NoConfig, Configs
  <2>4. QED
    BY <1>5, <2>2, <2>3, ContainerTypes, InstallTypes, InstallStepInstalls
       DEF CopyTree, ActivePcs, InstallPcs, CleanupPcs
<1>6. CASE Configure(id)
  <2>1. Active(id)
    BY <1>6 DEF Configure, InstallStep, Active, ActivePcs, InstallPcs, CleanupPcs
  <2>2. JobHost(id) \in Containers
    BY <2>1, JobHostType
  <2>3. job[id].memory \in Memories \cup {0} /\ job[id].cpu \in Cpus \cup {0}
    BY <2>1, JobHostType DEF Jobs
  <2>4. DiskConfig(job[id].memory, job[id].cpu) \in Configs
    BY <2>3 DEF DiskConfig, Configs
  <2>5. QED
    BY <1>6, <2>2, <2>4, ContainerTypes, InstallStepInstalls
       DEF Configure, ActivePcs, InstallPcs, CleanupPcs
<1>7. CASE CheckInit(id)
  <2>1. Active(id)
    BY <1>7 DEF CheckInit, InstallStep, Active, ActivePcs, InstallPcs, CleanupPcs
  <2>2. JobHost(id) \in Containers
    BY <2>1, JobHostType
  <2>3. NoConfig \in Configs
    BY DEF NoConfig, Configs
  <2>4. QED
    BY <1>7, <2>2, <2>3, ContainerTypes, InstallTypes, InstallStepInstalls
       DEF CheckInit, ActivePcs, InstallPcs, CleanupPcs
<1>8. CASE UnmountDisk(id)
  BY <1>8, MountDiskInstalls
<1>9. CASE StartInstalled(id)
  <2>1. Active(id)
    BY <1>9 DEF StartInstalled, InstallStep, Active, ActivePcs, InstallPcs, CleanupPcs
  <2>2. JobHost(id) \in Containers
    BY <2>1, JobHostType
  <2>3. job[id].memory \in Memories \cup {0} /\ job[id].cpu \in Cpus \cup {0}
    BY <2>1, JobHostType DEF Jobs
  <2>4. DiskConfig(job[id].memory, job[id].cpu) \in Configs
    BY <2>3 DEF DiskConfig, Configs
  <2>5. QED
    BY <1>9, <2>2, <2>4, ContainerTypes, InstallStepInstalls
       DEF StartInstalled, ActivePcs, InstallPcs, CleanupPcs
<1>10. CASE BootInstalled(id)
  <2>1. Active(id)
    BY <1>10 DEF BootInstalled, InstallStep, Active, ActivePcs, InstallPcs, CleanupPcs
  <2>2. JobHost(id) \in Containers
    BY <2>1, JobHostType
  <2>3. NoConfig \in Configs
    BY DEF NoConfig, Configs
  <2>4. QED
    BY <1>10, <2>2, <2>3, ContainerTypes, InstallTypes, InstallStepInstalls
       DEF BootInstalled, ActivePcs, InstallPcs, CleanupPcs
<1>11. CASE FinishInstall(id)
  BY <1>11, JobMarkInstalls DEF FinishInstall, ActivePcs, InstallPcs, CleanupPcs, Statuses
<1>12. CASE Abort(id)
  BY <1>12, JobMarkInstalls DEF Abort, ActivePcs, InstallPcs, CleanupPcs, Statuses
<1>13. CASE CleanupMark(id)
  BY <1>13, JobMarkInstalls DEF CleanupMark, ActivePcs, InstallPcs, CleanupPcs, Statuses
<1>14. CASE CleanupStop(id)
  <2>1. JobHost(id) \in Containers /\ NoConfig \in Configs
    BY <1>14, JobHostType
       DEF CleanupStop, CleanupStep, Active, ActivePcs, InstallPcs, CleanupPcs, NoConfig, Configs
  <2>2. QED
    BY <1>14, <2>1, ContainerTypes, CleanupStepInstalls
       DEF CleanupStop, ActivePcs, InstallPcs, CleanupPcs
<1>15. CASE CleanupUnmount(id)
  <2>1. JobHost(id) \in Containers /\ NoConfig \in Configs
    BY <1>15, JobHostType
       DEF CleanupUnmount, CleanupStep, Active, ActivePcs, InstallPcs, CleanupPcs, NoConfig, Configs
  <2>2. QED
    BY <1>15, <2>1, ContainerTypes, CleanupStepInstalls
       DEF CleanupUnmount, ActivePcs, InstallPcs, CleanupPcs
<1>16. CASE CleanupDestroy(id)
  <2>1. JobHost(id) \in Containers /\ NoConfig \in Configs
    BY <1>16, JobHostType
       DEF CleanupDestroy, CleanupStep, Active, ActivePcs, InstallPcs, CleanupPcs, NoConfig, Configs
  <2>2. QED
    BY <1>16, <2>1, ContainerTypes, CleanupStepInstalls
       DEF CleanupDestroy, ActivePcs, InstallPcs, CleanupPcs
<1>17. CASE CleanupRemove(id)
  <2>1. JobHost(id) \in Containers /\ NoConfig \in Configs
    BY <1>17, JobHostType
       DEF CleanupRemove, CleanupStep, Active, ActivePcs, InstallPcs, CleanupPcs, NoConfig, Configs
  <2>2. QED
    BY <1>17, <2>1, ContainerTypes, CleanupStepInstalls
       DEF CleanupRemove, ActivePcs, InstallPcs, CleanupPcs
<1>18. CASE BindHost(id)
  <2>1. Active(id)
    BY <1>18 DEF BindHost, InstallStep, Active, ActivePcs, InstallPcs
  <2>2. JobHost(id) \in Containers /\ NoConfig \in Configs
    BY <2>1, JobHostType DEF NoConfig, Configs
  <2>3. MadeDir(JobHost(id)) \in Containers /\ Bound(MadeDir(JobHost(id))) \in Containers
    BY <2>2, ContainerTypes
  <2>4. QED
    BY <1>18, <2>2, <2>3, InstallStepInstalls DEF BindHost, ActivePcs, InstallPcs
<1>19. CASE InstallInit(id)
  <2>1. Active(id)
    BY <1>19 DEF InstallInit, InstallStep, Active, ActivePcs, InstallPcs
  <2>2. JobHost(id) \in Containers
    BY <2>1, JobHostType
  <2>3. QED
    BY <1>19, <2>2, InstallStepInstalls DEF InstallInit, ActivePcs, InstallPcs
<1>20. CASE UnbindHost(id)
  <2>1. Active(id)
    BY <1>20 DEF UnbindHost, CleanupStep, Active, ActivePcs, InstallPcs
  <2>2. JobHost(id) \in Containers /\ NoConfig \in Configs
    BY <2>1, JobHostType DEF NoConfig, Configs
  <2>3. QED
    BY <1>20, <2>2, ContainerTypes, CleanupStepInstalls
       DEF UnbindHost, ActivePcs, InstallPcs, CleanupPcs
<1>21. QED
  BY <1>1, <1>2, <1>3, <1>4, <1>5, <1>6, <1>7, <1>8, <1>9, <1>10, <1>11, <1>12, <1>13,
     <1>14, <1>15, <1>16, <1>17, <1>18, <1>19, <1>20 DEF JobAction

-----------------------------------------------------------------------------
\* The invariant holds at first, and every step of the agent preserves it.
LEMMA InitInv == Init => IInv
<1>1. Nothing \in Containers
  BY DEF Nothing, Containers, Configs, NoConfig
<1>2. Idle \in Calls /\ NoJob \in Jobs
  BY DEF Idle, Calls, Configs, NoConfig, NoJob, Jobs
<1>3. Init => TypeOK
  <2>1. Init => EnvironmentTypeOK /\ StoreTypeOK
    <3>1. 0 \in 0..MaxFaults /\ 0 \in 0..MaxCrashes
      BY EnvironmentAssumption
    <3>2. QED
      BY <3>1 DEF Init, EnvironmentInit, EnvironmentTypeOK, StoreInit, StoreTypeOK
  <2>2. Init => HostTypeOK
    BY <1>1 DEF Init, HostInit, HostTypeOK
  <2>3. Init => JobTypeOK /\ ReqTypeOK
    BY <1>2 DEF Init, JobInit, JobTypeOK, ReqInit, ReqTypeOK
  <2>4. QED
    BY <2>1, <2>2, <2>3 DEF TypeOK
<1>4. Init => \A r \in Requests : ~Spawned(r) /\ ~InFlight(r) /\ req[r].pc = "new"
  BY DEF Init, JobInit, ReqInit, NoJob, Idle, Spawned, InFlight, HandlerPcs
<1>5. Init => servers = {} /\ ~up
  BY DEF Init, StoreInit, EnvironmentInit
<1>6. QED
  BY <1>3, <1>4, <1>5 DEF IInv, CallOK, JobOK, SidsOK, Drew, RowsUnique, CreatePcs

\* Every step of a request is of one of four kinds.
LEMMA ServeKinds ==
    ASSUME IInv, NEW r \in Requests, Serve(r)
    PROVE  Handles(r) \/ ArrivesStep(r) \/ CreateIncr(r) \/ CreateInsert(r)
<1>1. CASE StartServer(r)
  <2>1. CASE \E id \in Requests : StartFind(r, id)
    BY <2>1, LookupArrives DEF StartFind, AllOps, HandlerPcs, CreatePcs
  <2>2. QED
    BY <1>1, <2>1, StartHandles DEF StartServer
<1>2. CASE StopServer(r)
  <2>1. CASE \E id \in Requests : StopFind(r, id)
    BY <2>1, LookupArrives DEF StopFind, AllOps, HandlerPcs, CreatePcs
  <2>2. QED
    BY <1>2, <2>1, StopHandles DEF StopServer
<1>3. CASE RestartServer(r)
  <2>1. CASE \E id \in Requests : RestartFind(r, id)
    BY <2>1, LookupArrives DEF RestartFind, AllOps, HandlerPcs, CreatePcs
  <2>2. QED
    BY <1>3, <2>1, RestartHandles DEF RestartServer
<1>4. CASE CreateServer(r)
  <2>1. CASE CreateReject(r)
    BY <2>1, RejectArrives
  <2>2. CASE \E name \in Names, memory \in Memories, cpu \in Cpus :
                CreateLookup(r, name, memory, cpu)
    BY <2>2, CreateLookupArrives
  <2>3. QED
    BY <1>4, <2>1, <2>2, PurgeHandles DEF CreateServer
<1>5. CASE UpdateServer(r)
  <2>1. CASE UpdateReject(r)
    BY <2>1, RejectArrives
  <2>2. CASE \E id \in Requests, memory \in Memories \cup {0}, cpu \in Cpus \cup {0} :
                UpdateFind(r, id, memory, cpu)
    BY <2>2, LookupArrives DEF UpdateFind, AllOps, HandlerPcs, CreatePcs
  <2>3. QED
    BY <1>5, <2>1, <2>2, UpdateHandles DEF UpdateServer
<1>6. CASE DeleteServer(r)
  <2>1. CASE \E id \in Requests : DeleteFind(r, id)
    BY <2>1, LookupArrives DEF DeleteFind, AllOps, HandlerPcs, CreatePcs
  <2>2. QED
    BY <1>6, <2>1, DeleteHandles DEF DeleteServer
<1>7. QED
  BY <1>1, <1>2, <1>3, <1>4, <1>5, <1>6 DEF Serve, RequestStep

\* Every step of a request keeps the inductive invariant.
LEMMA ServeInv ==
    ASSUME IInv, NEW r \in Requests, Serve(r)
    PROVE  IInv'
BY ServeKinds, HandlesInv, ArrivesInv, CreateIncrInv, CreateInsertInv DEF Serve

\* Starting the agent keeps the inductive invariant: SETNX never lowers the counter.
LEMMA BootInv == IInv /\ Boot => IInv'
<1> SUFFICES ASSUME IInv, Boot
             PROVE  IInv'
  OBVIOUS
<1>1. /\ lxcId' \in {0} \cup (FirstSid - 1)..MaxSid
      /\ lxcId' # 0
      /\ lxcId # 0 => lxcId' = lxcId
  BY StoreAssumption DEF Boot, SetNX, IInv, TypeOK, StoreTypeOK, FirstSid
<1>2. TypeOK' /\ RowsUnique'
  BY <1>1 DEF IInv, TypeOK, EnvironmentTypeOK, StoreTypeOK, HostTypeOK, JobTypeOK,
              ReqTypeOK, RowsUnique, Boot
<1>3. (\A r \in Requests : CallOK(r))' /\ (\A id \in Requests : JobOK(id))'
  BY DEF IInv, CallOK, InFlight, JobOK, Spawned, Boot
<1>4. SidsOK'
  <2>1. CASE lxcId # 0
    BY <1>1, <2>1 DEF IInv, SidsOK, Drew, SidOf, Spawned, Boot
  <2>2. CASE lxcId = 0
    <3>1. ASSUME NEW r \in Requests, Drew(r) PROVE FALSE
      <4>1. SidOf(r) <= 0
        BY <2>2, <3>1 DEF IInv, SidsOK
      <4>2. SidOf(r) \in Sids
        BY <3>1 DEF IInv, CallOK, JobOK, Drew, SidOf, InFlight, HandlerPcs
      <4>3. QED
        BY <4>1, <4>2, StoreAssumption DEF Sids, FirstSid
    <3>2. QED
      BY <3>1 DEF SidsOK, Drew, SidOf, Spawned, Boot
  <2>3. QED
    BY <2>1, <2>2
<1>5. QED
  BY <1>1, <1>2, <1>3, <1>4 DEF IInv

\* The death of the agent keeps the inductive invariant.
LEMMA CrashInv == IInv /\ Crash => IInv'
<1> SUFFICES ASSUME IInv, Crash
             PROVE  IInv'
  OBVIOUS
<1>1. /\ req' \in [Requests -> Calls]
      /\ \A r \in Requests : \/ req'[r] = req[r] /\ ~InFlight(r)
                             \/ req'[r].pc = "lost"
  <2> DEFINE lost(r) == [req[r] EXCEPT !.pc = "lost", !.handle = NoConfig]
  <2>1. ASSUME NEW r \in Requests
        PROVE  lost(r) \in Calls /\ lost(r).pc = "lost"
    <3>1. req[r] \in Calls
      BY CallTypes
    <3>2. QED
      BY <3>1 DEF Calls, Configs, NoConfig
  <2>2. req' = [r \in Requests |-> IF InFlight(r) THEN lost(r) ELSE req[r]]
    BY DEF Crash
  <2> HIDE DEF lost
  <2>3. QED
    BY <2>1, <2>2, CallTypes
<1>2. /\ job' \in [Requests -> Jobs]
      /\ \A id \in Requests : /\ Spawned(id)' <=> Spawned(id)
                              /\ job'[id].sid = job[id].sid
                              /\ job'[id].memory = job[id].memory
                              /\ job'[id].cpu = job[id].cpu
  <2> DEFINE lost(id) == [job[id] EXCEPT !.pc = "lost"]
  <2>1. \A id \in Requests : job[id] \in Jobs
    BY DEF IInv, TypeOK, JobTypeOK
  <2>2. \A id \in Requests : /\ lost(id) \in Jobs
                             /\ lost(id).pc = "lost"
                             /\ lost(id).sid = job[id].sid
                             /\ lost(id).memory = job[id].memory
                             /\ lost(id).cpu = job[id].cpu
    BY <2>1 DEF Jobs
  <2>3. job' = [id \in Requests |-> IF Active(id) THEN lost(id) ELSE job[id]]
    BY DEF Crash
  <2> HIDE DEF lost
  <2>4. QED
    BY <2>1, <2>2, <2>3
       DEF Spawned, Active, ActivePcs, InstallPcs, CleanupPcs
<1>3. HostTypeOK'
  <2>1. \A sid \in Sids : Unmounted(host[sid]) \in Containers
    <3>1. NoConfig \in Configs
      BY DEF NoConfig, Configs
    <3>2. QED
      BY <3>1, ContainerTypes DEF IInv, TypeOK, HostTypeOK
  <2>2. QED
    BY <2>1 DEF Crash, IInv, TypeOK, HostTypeOK
<1>4. crashes' \in 0..MaxCrashes
  <2>1. crashes \in 0..MaxCrashes /\ crashes < MaxCrashes /\ crashes' = crashes + 1
    BY DEF Crash, IInv, TypeOK, EnvironmentTypeOK
  <2>2. QED
    BY <2>1, EnvironmentAssumption
<1>5. TypeOK' /\ RowsUnique'
  BY <1>1, <1>2, <1>3, <1>4 DEF IInv, TypeOK, EnvironmentTypeOK, StoreTypeOK, JobTypeOK,
              ReqTypeOK, RowsUnique, Crash
<1>6. (\A r \in Requests : CallOK(r))'
  BY <1>1, <1>2 DEF IInv, CallOK, InFlight, HandlerPcs, CreatePcs
<1>7. (\A id \in Requests : JobOK(id))'
  BY <1>2 DEF IInv, JobOK
<1>8. SidsOK'
  <2>1. \A r \in Requests : Drew(r)' => Drew(r) /\ SidOf(r)' = SidOf(r)
    BY <1>1, <1>2 DEF Drew, SidOf
  <2>2. QED
    BY <2>1 DEF IInv, SidsOK, Crash
<1>9. QED
  BY <1>5, <1>6, <1>7, <1>8 DEF IInv, Crash

\* A container that halts keeps the inductive invariant.
LEMMA GuestHaltInv ==
    ASSUME IInv, NEW sid \in Sids, GuestHalt(sid)
    PROVE  IInv'
<1>1. HostTypeOK'
  <2>1. host[sid] \in Containers
    BY DEF IInv, TypeOK, HostTypeOK
  <2>2. Stopped(host[sid]) \in Containers
    BY <2>1 DEF Stopped, Containers, Configs, NoConfig
  <2>3. QED
    BY <2>2 DEF GuestHalt, IInv, TypeOK, HostTypeOK
<1>2. QED
  BY <1>1 DEF GuestHalt, environment, IInv, TypeOK, EnvironmentTypeOK, StoreTypeOK, JobTypeOK,
              ReqTypeOK, RowsUnique, CallOK, InFlight, JobOK, Spawned, SidsOK, Drew, SidOf

\* Every step of the agent keeps the inductive invariant.
LEMMA NextInv == IInv /\ [Next]_vars => IInv'
<1> SUFFICES ASSUME IInv, [Next]_vars
             PROVE  IInv'
  OBVIOUS
<1>1. CASE Boot
  BY <1>1, BootInv
<1>2. CASE Crash
  BY <1>2, CrashInv
<1>3. CASE \E sid \in Sids : GuestHalt(sid)
  BY <1>3, GuestHaltInv
<1>4. CASE \E r \in Requests : Serve(r)
  BY <1>4, ServeInv
<1>5. ASSUME NEW id \in Requests, Install(id)
      PROVE  IInv'
  BY <1>5, JobActionInstalls, InstallsInv DEF Install, JobStep
<1>6. CASE UNCHANGED vars
  BY <1>6 DEF vars, environment, IInv, TypeOK, EnvironmentTypeOK, StoreTypeOK, HostTypeOK,
              JobTypeOK, ReqTypeOK, RowsUnique, CallOK, InFlight, JobOK, Spawned, SidsOK,
              Drew, SidOf
<1>7. QED
  BY <1>1, <1>2, <1>3, <1>4, <1>5, <1>6 DEF Next

\* The inductive invariant holds in every reachable state.
THEOREM Invariance == Spec => []IInv
BY InitInv, NextInv, PTL DEF Spec

-----------------------------------------------------------------------------
\* Every variable keeps its type, for any number of requests, names and limits,
\* and however many faults and crashes.
THEOREM TypeCorrect == Spec => []TypeOK
<1>1. IInv => TypeOK
  BY DEF IInv
<1>2. QED
  BY <1>1, Invariance, PTL

\* A name, a container number and an id belong to one row.
THEOREM RowsStayUnique == Spec => []RowsUnique
<1>1. IInv => RowsUnique
  BY DEF IInv
<1>2. QED
  BY <1>1, Invariance, PTL

\* No two installations share a container directory, restarts included.
THEOREM SidsStayDistinct == Spec => []SidsDistinct
<1>1. IInv => SidsDistinct
  BY DEF IInv, SidsOK, Drew, SidOf, SidsDistinct
<1>2. QED
  BY <1>1, Invariance, PTL

-----------------------------------------------------------------------------
\* A statement of a handler or an installation makes no row appear, and gives
\* no other row a new status.
LEMMA RowsChangeKeys ==
    ASSUME servers \subseteq Rows, RowsUnique, NEW id, NEW statuses \in SUBSET Statuses,
           RowsChange(id, statuses), NEW new \in servers'
    PROVE  \E row \in servers :
              /\ row.id = new.id
              /\ new.status = row.status \/ (new.id = id /\ new.status \in statuses)
<1>1. CASE UNCHANGED servers
  BY <1>1
<1>2. ASSUME NEW status \in statuses, UpdateStatus(id, status)
      PROVE  \E row \in servers :
                /\ row.id = new.id
                /\ new.status = row.status \/ (new.id = id /\ new.status \in statuses)
  BY <1>2 DEF UpdateStatus, Rows
<1>3. ASSUME NEW memory, NEW cpu, UpdateLimits(id, memory, cpu)
      PROVE  \E row \in servers : row.id = new.id /\ new.status = row.status
  BY <1>3 DEF UpdateLimits, Rows
<1>4. CASE DeleteRow(id)
  BY <1>4 DEF DeleteRow
<1>5. QED
  BY <1>1, <1>2, <1>3, <1>4 DEF RowsChange

\* Every step but an insert leaves the table to one handler or installation.
LEMMA RowsStep ==
    ASSUME IInv, [Next]_vars
    PROVE  \/ UNCHANGED servers
           \/ \E r \in Requests : Handles(r)
           \/ \E r \in Requests : CreateInsert(r)
           \/ \E id \in Requests : Installs(id)
<1>1. CASE \E r \in Requests : Serve(r)
  BY <1>1, ServeKinds DEF ArrivesStep, Arrives, CreateIncr
<1>2. CASE \E id \in Requests : Install(id)
  BY <1>2, JobActionInstalls DEF Install, JobStep
<1>3. QED
  BY <1>1, <1>2 DEF Next, Boot, Crash, GuestHalt, vars

\* A row whose server was created and deleted never comes back.
THEOREM DeletedRowsStayDeleted == Spec => DeletedStaysDeleted
<1>1. ASSUME IInv, [Next]_vars, NEW id \in Requests, Spawned(id), RowsWithId(id) = {}
      PROVE  RowsWithId(id)' = {}
  <2>1. servers \subseteq Rows /\ RowsUnique
    BY <1>1 DEF IInv, TypeOK, StoreTypeOK
  <2>2. SUFFICES ASSUME NEW new \in servers', new.id = id
                 PROVE  FALSE
    BY DEF RowsWithId
  <2>3. \A row \in servers : row.id # id
    BY <1>1 DEF RowsWithId
  <2>4. ASSUME NEW owner, NEW statuses \in SUBSET Statuses, RowsChange(owner, statuses)
        PROVE  FALSE
    BY <2>1, <2>2, <2>3, <2>4, RowsChangeKeys
  <2>5. ASSUME NEW r \in Requests, CreateInsert(r)
        PROVE  FALSE
    <3>1. ~Spawned(r)
      BY <1>1, <2>5 DEF IInv, CallOK, CreateInsert, CreatePcs
    <3>2. new.id = r \/ new \in servers
      BY <2>2, <2>5 DEF CreateInsert, Insert
    <3>3. QED
      BY <1>1, <2>2, <2>3, <3>1, <3>2
  <2>6. QED
    BY <1>1, <2>2, <2>3, <2>4, <2>5, RowsStep DEF Handles, Installs, Statuses
<1>2. IInv /\ [Next]_vars
        => [\A id \in Requests :
               Spawned(id) /\ RowsWithId(id) = {} => RowsWithId(id)' = {}]_vars
  BY <1>1
<1>3. QED
  BY <1>2, Invariance, PTL DEF Spec, DeletedStaysDeleted

\* Only the installation of a server turns it into a failed one.
THEOREM ErrorsComeFromOwnJob == Spec => ErrorFromOwnJob
<1>1. ASSUME IInv, [Next]_vars, NEW row \in servers, NEW new \in servers',
             row.id = new.id, row.status # "ERROR", new.status = "ERROR"
      PROVE  job'[row.id].pc # job[row.id].pc
  <2>1. servers \subseteq Rows /\ RowsUnique
    BY <1>1 DEF IInv, TypeOK, StoreTypeOK
  <2>2. \A old \in servers : old.id = new.id => old = row
    BY <1>1, <2>1 DEF RowsUnique
  <2>3. ~UNCHANGED servers
    BY <1>1, <2>2
  <2>4. ASSUME NEW r \in Requests, Handles(r)
        PROVE  FALSE
    BY <1>1, <2>1, <2>2, <2>4, RowsChangeKeys DEF Handles, Statuses
  <2>5. ASSUME NEW r \in Requests, CreateInsert(r)
        PROVE  FALSE
    BY <1>1, <2>2, <2>5 DEF CreateInsert, Insert
  <2>6. ASSUME NEW id \in Requests, Installs(id)
        PROVE  job'[row.id].pc # job[row.id].pc
    <3>1. row.id = id
      BY <1>1, <2>1, <2>2, <2>6, RowsChangeKeys DEF Installs, Statuses
    <3>2. job \in [Requests -> Jobs] /\ job[id] \in Jobs
      BY <1>1 DEF IInv, TypeOK, JobTypeOK
    <3>3. job'[id].pc # job[id].pc
      BY <2>6, <3>2 DEF Installs, Jobs
    <3>4. QED
      BY <3>1, <3>3
  <2>7. QED
    BY <1>1, <2>3, <2>4, <2>5, <2>6, RowsStep
<1>2. IInv /\ [Next]_vars
        => [\A row \in servers, new \in servers' :
               row.id = new.id /\ row.status # "ERROR" /\ new.status = "ERROR"
                 => job'[row.id].pc # job[row.id].pc]_vars
  BY <1>1
<1>3. QED
  BY <1>2, Invariance, PTL DEF Spec, ErrorFromOwnJob

-----------------------------------------------------------------------------
InstallingInv ==
    \A row \in servers : row.status = "INSTALLING" => job[row.id].pc \in UndecidedPcs

\* An installation gives its verdict by marking its row, when the database does
\* not fail.
LEMMA JobMarksRow ==
    ASSUME "db" \notin FaultKinds, IInv, NEW id \in Requests, JobAction(id),
           job[id].pc \in UndecidedPcs, job'[id].pc \notin UndecidedPcs
    PROVE  \E status \in {"RUNNING", "ERROR"} : UpdateStatus(id, status)
<1>1. job \in [Requests -> Jobs]
  BY DEF IInv, TypeOK, JobTypeOK
<1>2. \A pc : JobGoto(id, pc) => job'[id].pc = pc
  BY <1>1 DEF JobGoto, Jobs
<1>3. ASSUME NEW pc, NEW can, NEW new, NEW next \in UndecidedPcs, NEW partial,
             NEW onError \in UndecidedPcs,
             InstallStep(id, pc, can, new, next, partial, onError)
      PROVE  FALSE
  BY <1>2, <1>3 DEF InstallStep
<1>4. ASSUME NEW pc, NEW status \in {"RUNNING", "ERROR"}, NEW next,
             JobMark(id, pc, status, next)
      PROVE  UpdateStatus(id, status)
  BY <1>4 DEF JobMark, Fails
<1>5. ASSUME NEW pc, pc \notin UndecidedPcs, NEW called, NEW can, NEW new, NEW next,
             CleanupStep(id, pc, called, can, new, next)
      PROVE  FALSE
  BY <1>5 DEF CleanupStep
<1>6. ~CheckBridge(id) /\ ~CreateContainer(id) /\ ~MakeDisk(id) /\ ~CopyTree(id)
  BY <1>3 DEF CheckBridge, CreateContainer, MakeDisk, CopyTree, UndecidedPcs, InstallPcs
<1>7. ~BindHost(id) /\ ~InstallInit(id) /\ ~UnbindHost(id) /\ ~Configure(id) /\ ~CheckInit(id)
  <2>1. ~UnbindHost(id)
    BY <1>2 DEF UnbindHost, CleanupStep, UndecidedPcs, InstallPcs
  <2>2. QED
    BY <1>3, <2>1 DEF BindHost, InstallInit, Configure, CheckInit, UndecidedPcs, InstallPcs
<1>8. ~StartInstalled(id) /\ ~BootInstalled(id)
  BY <1>3 DEF StartInstalled, BootInstalled, UndecidedPcs, InstallPcs
<1>9. ~MountDisk(id)
  <2>1. ASSUME job' = [job EXCEPT ![id].pc = "copy", ![id].diskMounted = TRUE]
        PROVE  job'[id].pc = "copy"
    BY <1>1, <2>1 DEF Jobs
  <2>2. QED
    BY <1>2, <2>1 DEF MountDisk, UndecidedPcs, InstallPcs
<1>10. ~UnmountDisk(id)
  <2>1. ASSUME NEW to, job' = [job EXCEPT ![id].pc = to, ![id].diskMounted = FALSE]
        PROVE  job'[id].pc = to
    BY <1>1, <2>1 DEF Jobs
  <2>2. UnmountDisk(id)
          => \/ JobGoto(id, "kmark")
             \/ \E to \in {"start", "kmark"} :
                   job' = [job EXCEPT ![id].pc = to, ![id].diskMounted = FALSE]
    BY DEF UnmountDisk
  <2>3. QED
    BY <1>2, <2>1, <2>2 DEF UndecidedPcs, InstallPcs
<1>11. ~CleanupStop(id) /\ ~CleanupUnmount(id)
  BY <1>5 DEF CleanupStop, CleanupUnmount, UndecidedPcs, InstallPcs
<1>12. ~CleanupDestroy(id) /\ ~CleanupRemove(id)
  BY <1>5 DEF CleanupDestroy, CleanupRemove, UndecidedPcs, InstallPcs
<1>13. FinishInstall(id) \/ Abort(id) \/ CleanupMark(id)
  BY <1>6, <1>7, <1>8, <1>9, <1>10, <1>11, <1>12 DEF JobAction
<1>14. QED
  BY <1>4, <1>13 DEF FinishInstall, Abort, CleanupMark

\* Without deaths and database errors, a row that says INSTALLING keeps its
\* installation until it says something else.
LEMMA InstallingStep ==
    ASSUME MaxCrashes = 0, "db" \notin FaultKinds, IInv, InstallingInv, [Next]_vars
    PROVE  InstallingInv'
<1>1. /\ servers \subseteq Rows
      /\ RowsUnique
      /\ job \in [Requests -> Jobs]
  BY DEF IInv, TypeOK, StoreTypeOK, JobTypeOK
<1>2. ASSUME UNCHANGED <<servers, job>>
      PROVE  InstallingInv'
  BY <1>2 DEF InstallingInv
<1>3. ~Crash
  BY DEF Crash, IInv, TypeOK, EnvironmentTypeOK
<1>4. ASSUME NEW r \in Requests, Handles(r)
      PROVE  InstallingInv'
  <2>1. ASSUME NEW new \in servers', new.status = "INSTALLING"
        PROVE  job'[new.id].pc \in UndecidedPcs
    <3>1. PICK row \in servers : row.id = new.id /\ row.status = "INSTALLING"
      BY <1>1, <1>4, <2>1, RowsChangeKeys DEF Handles, Statuses
    <3>2. QED
      BY <1>4, <3>1 DEF InstallingInv, Handles
  <2>2. QED
    BY <2>1 DEF InstallingInv
<1>5. ASSUME NEW r \in Requests, CreateInsert(r)
      PROVE  InstallingInv'
  <2>1. CASE UNCHANGED <<servers, job>>
    BY <1>2, <2>1
  <2>2. CASE /\ Insert([id |-> r, sid |-> req[r].sid, name |-> req[r].name,
                        memory |-> req[r].memory, cpu |-> req[r].cpu,
                        status |-> "INSTALLING"])
             /\ Spawn(r, req[r].sid, req[r].memory, req[r].cpu)
    <3>1. job'[r].pc = "bridge" /\ \A q \in Requests \ {r} : job'[q] = job[q]
      BY <1>1, <2>2 DEF Spawn
    <3>2. \A new \in servers' : new \in servers \/ new.id = r
      BY <2>2 DEF Insert
    <3>3. QED
      BY <1>1, <3>1, <3>2 DEF InstallingInv, UndecidedPcs, InstallPcs, Rows
  <2>3. QED
    BY <1>5, <2>1, <2>2 DEF CreateInsert
<1>6. ASSUME NEW id \in Requests, Install(id)
      PROVE  InstallingInv'
  <2>1. Installs(id) /\ JobAction(id)
    BY <1>6, JobActionInstalls DEF Install, JobStep
  <2>2. \A q \in Requests \ {id} : job'[q] = job[q]
    BY <1>1, <2>1 DEF Installs
  <2>3. ASSUME NEW new \in servers', new.status = "INSTALLING"
        PROVE  job'[new.id].pc \in UndecidedPcs
    <3>1. PICK row \in servers : row.id = new.id /\ row.status = "INSTALLING"
      BY <1>1, <2>1, <2>3, RowsChangeKeys DEF Installs, Statuses
    <3>2. job[new.id].pc \in UndecidedPcs /\ new.id \in Requests
      BY <1>1, <3>1 DEF InstallingInv, Rows
    <3>3. CASE new.id # id
      BY <2>2, <3>2, <3>3
    <3>4. CASE new.id = id /\ job'[id].pc \notin UndecidedPcs
      <4>1. PICK status \in {"RUNNING", "ERROR"} : UpdateStatus(id, status)
        BY <2>1, <3>2, <3>4, JobMarksRow
      <4>2. new.status = status
        BY <1>1, <3>4, <4>1 DEF UpdateStatus, Rows
      <4>3. QED
        BY <2>3, <4>2
    <3>5. QED
      BY <3>3, <3>4
  <2>4. QED
    BY <2>3 DEF InstallingInv
<1>7. ASSUME NEW r \in Requests, Serve(r)
      PROVE  InstallingInv'
  BY <1>2, <1>4, <1>5, <1>7, ServeKinds DEF ArrivesStep, Arrives, CreateIncr
<1>8. QED
  BY <1>2, <1>3, <1>6, <1>7 DEF Next, Boot, GuestHalt, vars

\* As long as the agent lives and the database answers, a row that says
\* INSTALLING has an installation at work on it, whatever the clients do and
\* whatever calls on the host and on Redis fail.
THEOREM InstallingRowsHaveJobs ==
    ASSUME MaxCrashes = 0, "db" \notin FaultKinds
    PROVE  Spec => []InstallingHasJob
<1>1. Init => InstallingInv
  BY DEF Init, StoreInit, InstallingInv
<1>2. IInv /\ InstallingInv /\ [Next]_vars => InstallingInv'
  BY InstallingStep
<1>3. IInv /\ InstallingInv => InstallingHasJob
  BY DEF InstallingInv, InstallingHasJob, Active, UndecidedPcs, ActivePcs, CleanupPcs
<1>4. QED
  BY <1>1, <1>2, <1>3, Invariance, PTL DEF Spec

=============================================================================
