-------------------------- MODULE ServerController --------------------------
(***************************************************************************)
(* The handlers that change a server: start, stop, restart, create, update *)
(* and delete.  Each request runs in a goroutine of its own and takes no   *)
(* lock, so a handler is one action per access to the database, to Redis   *)
(* or to the host.  A request is served once and keeps its answer.         *)
(***************************************************************************)
EXTENDS Provisioner

CONSTANTS
    Ops,     \* the operations clients use
    Clients  \* what clients wait for: see MayTarget and MayCreate

AllOps == {"start", "stop", "restart", "create", "update", "delete"}

ASSUME ControllerAssumption ==
    /\ Ops \subseteq AllOps
    /\ Clients \in {"free", "patient", "polite"}

VARIABLE req  \* the requests

\* 2xx, 400, 404 and 500, "timeout" being the 500 of a handler that waited in vain
\* for the container to stop; "lost" when the agent died first.
Answers == {"ok", "bad", "notfound", "error", "timeout"}
HandlerPcs == {"start_running", "start_disk", "start_load", "start_start", "start_mark",
               "stop_running", "stop_stop", "stop_mark",
               "restart_load", "restart_reboot", "restart_mark",
               "create_pstop", "create_pdestroy", "create_pumount", "create_premove",
               "create_pdelete", "create_incr", "create_insert",
               "update_running", "update_stop", "update_wait", "update_stopped",
               "update_load", "update_save", "update_write", "update_start", "update_mark",
               "delete_running", "delete_stop", "delete_wait", "delete_stopped",
               "delete_umount", "delete_defined", "delete_destroy", "delete_remove", "delete_row"}

Idle == [op |-> "none", pc |-> "new", id |-> "none", sid |-> NoSid, name |-> NoName,
         memory |-> 0, cpu |-> 0, handle |-> NoConfig]

Calls == [op: AllOps \cup {"none"},
          pc: {"new", "lost"} \cup Answers \cup HandlerPcs,
          id: Requests \cup {"none"},   \* the row the handler works on
          sid: Sids \cup {NoSid},       \* and its container
          name: Names \cup {NoName},    \* the body of the request
          memory: Memories \cup {0}, cpu: Cpus \cup {0},
          handle: Configs]              \* the configuration held by its handle

ReqTypeOK == req \in [Requests -> Calls]

ReqInit == req = [r \in Requests |-> Idle]

InFlight(r) == req[r].pc \in HandlerPcs

-----------------------------------------------------------------------------
\* The clients.  A client names a server it has seen.  A patient one waits for
\* the installation to succeed, a polite one also for earlier requests to be
\* answered; neither touches a failed server but by creating it again.
Engaged(id) == \E q \in Requests : InFlight(q) /\ req[q].id = id

MayTarget(id) ==
    /\ Spawned(id)
    /\ Clients # "free" => \A row \in RowsWithId(id) : row.status \in {"RUNNING", "STOPPED"}
    /\ Clients = "polite" => ~Engaged(id)

MayCreate(name) ==
    Clients = "polite" => \A q \in Requests : InFlight(q) => req[q].name # name

-----------------------------------------------------------------------------
\* A handler goes on at pc; when it answers, it releases its handle.
Goto(r, pc) ==
    req' = [req EXCEPT ![r].pc = pc,
                       ![r].handle = IF pc \in Answers THEN NoConfig ELSE @]

ReqHost(r) == host[req[r].sid]

\* The server is looked up by uuid; a failed query is answered like a missing row.
Lookup(r, op, id, memory, cpu, next) ==
    /\ req[r].pc = "new"
    /\ op \in Ops
    /\ MayTarget(id)
    /\ LET call == [Idle EXCEPT !.op = op, !.id = id, !.memory = memory, !.cpu = cpu]
       IN  \/ /\ Works
              /\ \E row \in RowsWithId(id) :
                    req' = [req EXCEPT ![r] = [call EXCEPT !.pc = next, !.sid = row.sid]]
           \/ /\ \/ Works /\ RowsWithId(id) = {}
                 \/ Fails("db")
              /\ req' = [req EXCEPT ![r] = [call EXCEPT !.pc = "notfound"]]
    /\ UNCHANGED <<servers, lxcId, host, job>>

\* The handler asks LXC, or the file system, and cannot fail.
Ask(r, pc, next) ==
    /\ req[r].pc = pc
    /\ Works
    /\ Goto(r, next)
    /\ UNCHANGED <<servers, lxcId, host, job>>

\* NewContainer, which can fail, and then a question to the handle it gives.
OpenAndAsk(r, pc, next) ==
    \/ Ask(r, pc, next)
    \/ /\ req[r].pc = pc
       /\ Fails("host")
       /\ Goto(r, "error")
       /\ UNCHANGED <<servers, lxcId, host, job>>

\* A call on the container: its success leads on, its failure to a 500.
HostCall(r, pc, can, new, next) ==
    /\ req[r].pc = pc
    /\ \/ /\ Works
          /\ can
          /\ host' = [host EXCEPT ![req[r].sid] = new]
          /\ Goto(r, next)
       \/ /\ \/ Works /\ ~can
             \/ Fails("host")
          /\ Goto(r, "error")
          /\ UNCHANGED host
    /\ UNCHANGED <<servers, lxcId, job>>

\* c.Wait(STOPPED, 30s): it may be over before LXC reports the container stopped,
\* and then nothing is marked.
WaitStopped(r, pc, next) ==
    /\ req[r].pc = pc
    /\ \/ Works /\ Goto(r, IF ReqHost(r).running THEN "timeout" ELSE next)
       \/ Fails("host") /\ Goto(r, "timeout")
    /\ UNCHANGED <<servers, lxcId, host, job>>

\* ClearConfig and LoadConfigFile into the handle, once the container is `ready`.
LoadConfig(r, pc, ready, next) ==
    /\ req[r].pc = pc
    /\ \/ /\ Works
          /\ host' = [host EXCEPT ![req[r].sid] = ready]
          /\ IF Defined(ReqHost(r))
               THEN req' = [req EXCEPT ![r].pc = next, ![r].handle = ReqHost(r).config]
               ELSE Goto(r, "error")
       \/ /\ Fails("host")
          /\ \E left \in {ReqHost(r), ready} : host' = [host EXCEPT ![req[r].sid] = left]
          /\ Goto(r, "error")
    /\ UNCHANGED <<servers, lxcId, job>>

\* A statement on the row: an error is answered with a 500.
Statement(r, pc, update, next) ==
    /\ req[r].pc = pc
    /\ \/ Works /\ update /\ Goto(r, next)
       \/ Fails("db") /\ UNCHANGED servers /\ Goto(r, "error")
    /\ UNCHANGED <<lxcId, host, job>>

\* Mutant of Mark: Save, which inserts the row when there is none.
SaveMark(r, pc, status, next) ==
    LET id == req[r].id
        row == [id |-> id, sid |-> req[r].sid, name |-> NoName,
                memory |-> 0, cpu |-> 0, status |-> status]
    IN  Statement(r, pc, IF RowsWithId(id) = {} THEN Insert(row) ELSE UpdateStatus(id, status),
                  next)

Mark(r, pc, status, next) == Statement(r, pc, UpdateStatus(req[r].id, status), next)

\* A call whose error the handler ignores.
Attempt(r, pc, called, can, new, next) ==
    /\ req[r].pc = pc
    /\ IgnoringErrors(req[r].sid, called, can, new)
    /\ Goto(r, next)
    /\ UNCHANGED <<servers, lxcId, job>>

-----------------------------------------------------------------------------
\* PATCH /start/{uuid}
StartFind(r, id) == Lookup(r, "start", id, 0, 0, "start_running")
StartRunning(r) ==
    OpenAndAsk(r, "start_running", IF ReqHost(r).running THEN "bad" ELSE "start_disk")
StartDisk(r) ==
    Ask(r, "start_disk", IF ReqHost(r).disk = "none" THEN "error" ELSE "start_load")
StartLoad(r) == LoadConfig(r, "start_load", MadeDir(ReqHost(r)), "start_start")
StartStart(r) == HostCall(r, "start_start", CanStart(ReqHost(r), req[r].handle),
                          Started(ReqHost(r), req[r].handle), "start_mark")
StartMark(r) == Mark(r, "start_mark", "RUNNING", "ok")

StartServer(r) ==
    \/ \E id \in Requests : StartFind(r, id)
    \/ StartRunning(r) \/ StartDisk(r) \/ StartLoad(r) \/ StartStart(r) \/ StartMark(r)

-----------------------------------------------------------------------------
\* PATCH /stop/{uuid}
StopFind(r, id) == Lookup(r, "stop", id, 0, 0, "stop_running")
StopRunning(r) ==
    OpenAndAsk(r, "stop_running", IF ReqHost(r).running THEN "stop_stop" ELSE "bad")
StopStop(r) ==
    HostCall(r, "stop_stop", CanStop(ReqHost(r)), Stopped(ReqHost(r)), "stop_mark")
StopMark(r) == Mark(r, "stop_mark", "STOPPED", "ok")

StopServer(r) ==
    \/ \E id \in Requests : StopFind(r, id)
    \/ StopRunning(r) \/ StopStop(r) \/ StopMark(r)

-----------------------------------------------------------------------------
\* PATCH /restart/{uuid}
RestartFind(r, id) == Lookup(r, "restart", id, 0, 0, "restart_load")
RestartLoad(r) == LoadConfig(r, "restart_load", MadeDir(ReqHost(r)), "restart_reboot")
RestartReboot(r) == HostCall(r, "restart_reboot", CanReboot(ReqHost(r)),
                             Rebooted(ReqHost(r)), "restart_mark")
RestartMark(r) == Mark(r, "restart_mark", "RUNNING", "ok")

RestartServer(r) ==
    \/ \E id \in Requests : RestartFind(r, id)
    \/ RestartLoad(r) \/ RestartReboot(r) \/ RestartMark(r)

-----------------------------------------------------------------------------
\* POST /provision
CreateReject(r) ==
    /\ req[r].pc = "new"
    /\ "create" \in Ops
    /\ Works
    /\ req' = [req EXCEPT ![r] = [Idle EXCEPT !.op = "create", !.pc = "bad"]]
    /\ UNCHANGED <<servers, lxcId, host, job>>

\* Mutant of Purgeable: a server that does not run may be replaced.
PurgeableUnlessRunning(row) == row.status # "RUNNING"

\* The server that has the name failed to install.
Purgeable(row) == row.status = "ERROR"

\* A name in use ends the request, unless its server failed to install: that
\* one is purged first.  A failed query is taken for a free name.
CreateLookup(r, name, memory, cpu) ==
    /\ req[r].pc = "new"
    /\ "create" \in Ops
    /\ MayCreate(name)
    /\ LET call == [Idle EXCEPT !.op = "create", !.id = r, !.name = name,
                                !.memory = memory, !.cpu = cpu]
           found == {row \in servers : row.name = name}
       IN  \/ /\ Works
              /\ \E row \in found :
                    req' = [req EXCEPT ![r] =
                              IF Purgeable(row)
                                THEN [call EXCEPT !.pc = "create_pstop", !.id = row.id,
                                                  !.sid = row.sid]
                                ELSE [call EXCEPT !.pc = "bad"]]
           \/ /\ \/ Works /\ found = {}
                 \/ Fails("db")
              /\ req' = [req EXCEPT ![r] = [call EXCEPT !.pc = "create_incr"]]
    /\ UNCHANGED <<servers, lxcId, host, job>>

\* Purging the failed server `id` ignores every error but that of the DELETE.
\* Without a container handle it neither stops nor destroys the container.  Its
\* wait for the container to stop goes on when it is over, however it ends.
CreatePurgeStop(r) ==
    \/ Attempt(r, "create_pstop", ReqHost(r).running, CanStop(ReqHost(r)),
               Stopped(ReqHost(r)), "create_pdestroy")
    \/ /\ req[r].pc = "create_pstop"
       /\ Fails("host")
       /\ Goto(r, "create_pumount")
       /\ UNCHANGED <<servers, lxcId, host, job>>
CreatePurgeDestroy(r) ==
    Attempt(r, "create_pdestroy", Defined(ReqHost(r)), CanDestroy(ReqHost(r)),
            Destroyed(ReqHost(r)), "create_pumount")
CreatePurgeUnmount(r) ==
    Attempt(r, "create_pumount", ReqHost(r).mounted, TRUE,
            Unmounted(ReqHost(r)), "create_premove")
CreatePurgeRemove(r) ==
    Attempt(r, "create_premove", TRUE, TRUE, Removed(ReqHost(r)), "create_pdelete")
CreatePurgeDelete(r) ==
    Statement(r, "create_pdelete", DeleteRow(req[r].id), "create_incr")

\* The server gets the next container number ...
CreateIncr(r) ==
    /\ req[r].pc = "create_incr"
    /\ \/ /\ Works
          /\ Incr
          /\ req' = [req EXCEPT ![r].pc = "create_insert", ![r].id = r,
                                ![r].sid = lxcId + 1]
       \/ /\ Fails("redis")
          /\ Goto(r, "error")
          /\ UNCHANGED lxcId
    /\ UNCHANGED <<servers, host, job>>

\* ... its row is inserted, its installation spawned, and the answer is 201.
CreateInsert(r) ==
    LET call == req[r]
        row == [id |-> r, sid |-> call.sid, name |-> call.name, memory |-> call.memory,
                cpu |-> call.cpu, status |-> "INSTALLING"]
    IN  /\ call.pc = "create_insert"
        /\ \/ /\ Works
              /\ MayInsert(row)
              /\ Insert(row)
              /\ Spawn(r, call.sid, call.memory, call.cpu)
              /\ Goto(r, "ok")
           \/ /\ \/ Works /\ ~MayInsert(row)
                 \/ Fails("db")
              /\ Goto(r, "error")
              /\ UNCHANGED <<servers, job>>
        /\ UNCHANGED <<lxcId, host>>

CreateServer(r) ==
    \/ CreateReject(r)
    \/ \E name \in Names, memory \in Memories, cpu \in Cpus : CreateLookup(r, name, memory, cpu)
    \/ CreatePurgeStop(r) \/ CreatePurgeDestroy(r) \/ CreatePurgeUnmount(r)
    \/ CreatePurgeRemove(r) \/ CreatePurgeDelete(r)
    \/ CreateIncr(r) \/ CreateInsert(r)

-----------------------------------------------------------------------------
\* PATCH /update/{uuid}; 0 stands for a limit the body leaves out.
UpdateReject(r) ==
    /\ req[r].pc = "new"
    /\ "update" \in Ops
    /\ Works
    /\ req' = [req EXCEPT ![r] = [Idle EXCEPT !.op = "update", !.pc = "bad"]]
    /\ UNCHANGED <<servers, lxcId, host, job>>

UpdateFind(r, id, memory, cpu) ==
    /\ memory # 0 \/ cpu # 0
    /\ Lookup(r, "update", id, memory, cpu, "update_running")
UpdateRunning(r) ==
    OpenAndAsk(r, "update_running", IF ReqHost(r).running THEN "update_stop" ELSE "update_stopped")

\* Mutant of UpdateStop: it waits for a running container to stop.
UpdateStopPatiently(r) ==
    /\ req[r].pc = "update_stop"
    /\ ReqHost(r).running
    /\ HostCall(r, "update_stop", CanStop(ReqHost(r)), Stopped(ReqHost(r)), "update_wait")

UpdateStop(r) ==
    HostCall(r, "update_stop", CanStop(ReqHost(r)), Stopped(ReqHost(r)), "update_wait")
UpdateWait(r) == WaitStopped(r, "update_wait", "update_stopped")

\* Mutant of UpdateStopped: the row keeps its status while the server is down.
UpdateStoppedUnmarked(r) == Ask(r, "update_stopped", "update_load")

UpdateStopped(r) == Mark(r, "update_stopped", "STOPPED", "update_load")
UpdateLoad(r) == LoadConfig(r, "update_load", ReqHost(r), "update_save")

\* The configuration loaded before, with the given limits replaced, is saved.
UpdateSave(r) ==
    LET new == [req[r].handle EXCEPT !.memory = Given(req[r].memory, @),
                                     !.cpu = Given(req[r].cpu, @)]
    IN  /\ req[r].pc = "update_save"
        /\ \/ /\ Works
              /\ CanSave(ReqHost(r))
              /\ host' = [host EXCEPT ![req[r].sid] = Saved(@, new)]
              /\ req' = [req EXCEPT ![r].pc = "update_write", ![r].handle = new]
           \/ /\ \/ Works /\ ~CanSave(ReqHost(r))
                 \/ Fails("host")
              /\ Goto(r, "error")
              /\ UNCHANGED host
        /\ UNCHANGED <<servers, lxcId, job>>

UpdateWrite(r) == Statement(r, "update_write",
                            UpdateLimits(req[r].id, req[r].memory, req[r].cpu), "update_start")
UpdateStart(r) == HostCall(r, "update_start", CanStart(ReqHost(r), req[r].handle),
                           Started(ReqHost(r), req[r].handle), "update_mark")
UpdateMark(r) == Mark(r, "update_mark", "RUNNING", "ok")

UpdateServer(r) ==
    \/ UpdateReject(r)
    \/ \E id \in Requests, memory \in Memories \cup {0}, cpu \in Cpus \cup {0} :
          UpdateFind(r, id, memory, cpu)
    \/ UpdateRunning(r) \/ UpdateStop(r) \/ UpdateWait(r) \/ UpdateStopped(r)
    \/ UpdateLoad(r) \/ UpdateSave(r) \/ UpdateWrite(r) \/ UpdateStart(r) \/ UpdateMark(r)

-----------------------------------------------------------------------------
\* DELETE /delete/{uuid}
DeleteFind(r, id) == Lookup(r, "delete", id, 0, 0, "delete_running")
DeleteRunning(r) ==
    OpenAndAsk(r, "delete_running", IF ReqHost(r).running THEN "delete_stop" ELSE "delete_stopped")
DeleteStop(r) ==
    HostCall(r, "delete_stop", CanStop(ReqHost(r)), Stopped(ReqHost(r)), "delete_wait")
DeleteWait(r) == WaitStopped(r, "delete_wait", "delete_stopped")

\* Mutant of DeleteStopped: the row goes first, and what is on the host after it.
DeleteRowFirst(r) == Statement(r, "delete_stopped", DeleteRow(req[r].id), "delete_umount")

DeleteStopped(r) == Mark(r, "delete_stopped", "STOPPED", "delete_umount")
DeleteUnmount(r) == Attempt(r, "delete_umount", ReqHost(r).mounted, TRUE,
                            Unmounted(ReqHost(r)), "delete_defined")
DeleteDefined(r) ==
    Ask(r, "delete_defined", IF Defined(ReqHost(r)) THEN "delete_destroy" ELSE "delete_remove")
DeleteDestroy(r) == HostCall(r, "delete_destroy", CanDestroy(ReqHost(r)),
                             Destroyed(ReqHost(r)), "delete_remove")
DeleteRemove(r) ==
    Attempt(r, "delete_remove", TRUE, TRUE, Removed(ReqHost(r)), "delete_row")
DeleteDelete(r) == Statement(r, "delete_row", DeleteRow(req[r].id), "ok")

DeleteServer(r) ==
    \/ \E id \in Requests : DeleteFind(r, id)
    \/ DeleteRunning(r) \/ DeleteStop(r) \/ DeleteWait(r) \/ DeleteStopped(r)
    \/ DeleteUnmount(r) \/ DeleteDefined(r) \/ DeleteDestroy(r) \/ DeleteRemove(r)
    \/ DeleteDelete(r)

-----------------------------------------------------------------------------
RequestStep(r) ==
    \/ StartServer(r) \/ StopServer(r) \/ RestartServer(r)
    \/ CreateServer(r) \/ UpdateServer(r) \/ DeleteServer(r)

=============================================================================
