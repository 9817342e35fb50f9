-------------------------- MODULE LifecycleProofs --------------------------
(***************************************************************************)
(* Agent implements ServerLifecycle, for every value of its constants.     *)
(* The invariant says which rows a handler and an installation may still   *)
(* change: without it a handler that looked a row up long ago could switch *)
(* a server that has not been installed, or that failed to be.             *)
(***************************************************************************)
EXTENDS AgentProofs

PurgePcs == CreatePcs \ {"create_incr", "create_insert"}
OtherPcs == HandlerPcs \ CreatePcs

Orderly == Clients # "free"

RowsAre(id, statuses) == \A row \in servers : row.id = id => row.status \in statuses

\* What a handler found stays true of the rows it works on.
KnowsRows(r) ==
    /\ req[r].pc \in OtherPcs => RowsAre(req[r].id, {"RUNNING", "STOPPED"})
    /\ req[r].pc \in PurgePcs => RowsAre(req[r].id, {"ERROR"})

\* A row with a verdict has no installation that could still give one.
Decided(row) == row.status # "INSTALLING" => job[row.id].pc \notin UndecidedPcs

LInv ==
    /\ \A row \in servers : Spawned(row.id)
    /\ \A r \in Requests : req[r].pc \in OtherPcs \cup PurgePcs => Spawned(req[r].id)
    /\ Orderly => /\ \A row \in servers : Decided(row)
                  /\ \A r \in Requests : KnowsRows(r)

-----------------------------------------------------------------------------
\* The kinds of steps of a request, told apart by the rows they may change.
Purges(r) ==
    /\ req[r].pc \in PurgePcs
    /\ \E pc \in PurgePcs \cup {"create_incr"} \cup Answers : \E handle :
          req' = [req EXCEPT ![r].pc = pc, ![r].handle = handle]
    /\ UNCHANGED servers \/ DeleteRow(req[r].id)
    /\ UNCHANGED job

Finds(r) ==
    /\ req[r].pc = "new"
    /\ \E call \in Calls :
          /\ req' = [req EXCEPT ![r] = call]
          /\ call.pc \in OtherPcs =>
                /\ Spawned(call.id)
                /\ Orderly => RowsAre(call.id, {"RUNNING", "STOPPED"})
          /\ call.pc \in PurgePcs =>
                \E row \in servers : row.id = call.id /\ row.status = "ERROR"
    /\ UNCHANGED <<servers, job>>

\* The purge before a retry deletes the failed row, and changes no other.
LEMMA PurgeSteps ==
    ASSUME IInv, NEW r \in Requests,
           CreatePurgeStop(r) \/ CreatePurgeDestroy(r) \/ CreatePurgeUnmount(r) \/
           CreatePurgeRemove(r) \/ CreatePurgeDelete(r)
    PROVE  Purges(r)
<1>1. req \in [Requests -> Calls] /\ req[r] \in Calls
  BY DEF IInv, TypeOK, ReqTypeOK
<1>2. ASSUME NEW pc, Goto(r, pc)
      PROVE  \E handle : req' = [req EXCEPT ![r].pc = pc, ![r].handle = handle]
  <2>1. req' = [req EXCEPT ![r].pc = pc,
                           ![r].handle = IF pc \in Answers THEN NoConfig ELSE req[r].handle]
    BY <1>1, <1>2 DEF Goto, Calls
  <2>2. QED
    BY <2>1
<1>3. \E pc \in PurgePcs \cup {"create_incr"} \cup Answers : Goto(r, pc)
  BY DEF CreatePurgeStop, CreatePurgeDestroy, CreatePurgeUnmount, CreatePurgeRemove,
         CreatePurgeDelete, Attempt, Statement, PurgePcs, CreatePcs, Answers
<1>4. req[r].pc \in PurgePcs /\ UNCHANGED job
  BY DEF CreatePurgeStop, CreatePurgeDestroy, CreatePurgeUnmount, CreatePurgeRemove,
         CreatePurgeDelete, Attempt, Statement, PurgePcs, CreatePcs
<1>5. UNCHANGED servers \/ DeleteRow(req[r].id)
  BY DEF CreatePurgeStop, CreatePurgeDestroy, CreatePurgeUnmount, CreatePurgeRemove,
         CreatePurgeDelete, Attempt, Statement
<1>6. QED
  BY <1>2, <1>3, <1>4, <1>5 DEF Purges

\* A request that looks its server up finds one that its client may name.
LEMMA LookupFinds ==
    ASSUME IInv, NEW r \in Requests, NEW op \in AllOps, NEW id \in Requests,
           NEW memory \in Memories \cup {0}, NEW cpu \in Cpus \cup {0},
           NEW next \in HandlerPcs \ CreatePcs, Lookup(r, op, id, memory, cpu, next)
    PROVE  Finds(r)
<1> DEFINE asked == [Idle EXCEPT !.op = op, !.id = id, !.memory = memory, !.cpu = cpu]
<1>1. asked \in Calls /\ asked.id = id
  BY DEF Idle, Calls, Configs, NoConfig
<1>2. PICK call \in Calls : req' = [req EXCEPT ![r] = call]
  BY LookupArrives DEF ArrivesStep, Arrives
<1>3. req'[r] = call /\ req[r].pc = "new"
  BY <1>2 DEF IInv, TypeOK, ReqTypeOK, Lookup
<1>4. call.id = id /\ (call.pc = next \/ call.pc = "notfound")
  <2>1. \/ \E sid \in Sids : req' = [req EXCEPT ![r] = [asked EXCEPT !.pc = next, !.sid = sid]]
        \/ req' = [req EXCEPT ![r] = [asked EXCEPT !.pc = "notfound"]]
    BY DEF Lookup, RowsWithId, IInv, TypeOK, StoreTypeOK, Rows
  <2>2. req \in [Requests -> Calls]
    BY DEF IInv, TypeOK, ReqTypeOK
  <2> HIDE DEF asked
  <2>3. \/ \E sid \in Sids : call = [asked EXCEPT !.pc = next, !.sid = sid]
        \/ call = [asked EXCEPT !.pc = "notfound"]
    BY <1>3, <2>1, <2>2
  <2>4. QED
    BY <1>1, <2>3 DEF Calls
<1>5. /\ Spawned(id)
      /\ Orderly => RowsAre(id, {"RUNNING", "STOPPED"})
  BY DEF Lookup, MayTarget, RowsWithId, Orderly, RowsAre
<1>6. call.pc \notin PurgePcs
  BY <1>4 DEF PurgePcs, CreatePcs, HandlerPcs
<1>7. UNCHANGED <<servers, job>>
  BY DEF Lookup
<1>8. QED
  BY <1>2, <1>3, <1>4, <1>5, <1>6, <1>7 DEF Finds

\* A request with a malformed body is answered.
LEMMA RejectFinds ==
    ASSUME IInv, NEW r \in Requests, CreateReject(r) \/ UpdateReject(r)
    PROVE  Finds(r)
<1>1. PICK call \in Calls : req' = [req EXCEPT ![r] = call] /\ call.pc = "bad"
  <2>1. PICK op \in AllOps : req' = [req EXCEPT ![r] = [Idle EXCEPT !.op = op, !.pc = "bad"]]
    BY DEF CreateReject, UpdateReject, AllOps
  <2> DEFINE call == [Idle EXCEPT !.op = op, !.pc = "bad"]
  <2>2. call \in Calls /\ call.pc = "bad"
    BY DEF Idle, Calls, Configs, NoConfig, Answers
  <2>3. QED
    BY <2>1, <2>2
<1>2. QED
  BY <1>1 DEF CreateReject, UpdateReject, Finds, OtherPcs, PurgePcs, HandlerPcs, CreatePcs

\* A create request finds its name free, in use, or that of a failed server.
LEMMA CreateLookupFinds ==
    ASSUME IInv, NEW r \in Requests, NEW name \in Names, NEW memory \in Memories,
           NEW cpu \in Cpus, CreateLookup(r, name, memory, cpu)
    PROVE  Finds(r)
<1>1. PICK call \in Calls : req' = [req EXCEPT ![r] = call]
  BY CreateLookupArrives DEF ArrivesStep, Arrives
<1>2. req'[r] = call /\ req[r].pc = "new" /\ UNCHANGED <<servers, job>>
  BY <1>1 DEF IInv, TypeOK, ReqTypeOK, CreateLookup
<1>3. \/ /\ call.pc = "create_pstop"
         /\ \E row \in servers : row.id = call.id /\ row.status = "ERROR"
      \/ call.pc \in {"bad", "create_incr"}
  <2> DEFINE asked == [Idle EXCEPT !.op = "create", !.id = r, !.name = name,
                                   !.memory = memory, !.cpu = cpu]
  <2>1. asked \in Calls
    BY DEF Idle, Calls, Configs, NoConfig, AllOps
  <2>2. \/ \E row \in servers : /\ row.status = "ERROR"
                                /\ req' = [req EXCEPT ![r] = [asked EXCEPT !.pc = "create_pstop",
                                                               !.id = row.id, !.sid = row.sid]]
        \/ \E pc \in {"bad", "create_incr"} : req' = [req EXCEPT ![r] = [asked EXCEPT !.pc = pc]]
    BY DEF CreateLookup, Purgeable
  <2>3. req \in [Requests -> Calls]
    BY DEF IInv, TypeOK, ReqTypeOK
  <2> HIDE DEF asked
  <2>4. \/ \E row \in servers : /\ row.status = "ERROR"
                                /\ call = [asked EXCEPT !.pc = "create_pstop",
                                                        !.id = row.id, !.sid = row.sid]
        \/ \E pc \in {"bad", "create_incr"} : call = [asked EXCEPT !.pc = pc]
    BY <1>2, <2>2, <2>3
  <2>5. QED
    BY <2>1, <2>4 DEF Calls
<1>4. QED
  BY <1>1, <1>2, <1>3 DEF Finds, OtherPcs, PurgePcs, HandlerPcs, CreatePcs

-----------------------------------------------------------------------------
\* The kinds of steps of an installation: it gives its verdict, or not yet.
Keeps(id) ==
    /\ UNCHANGED servers
    /\ job'[id].pc \in UndecidedPcs <=> job[id].pc \in UndecidedPcs

Gives(id) ==
    /\ job[id].pc \in UndecidedPcs
    /\ job'[id].pc \notin UndecidedPcs
    /\ UNCHANGED servers \/ \E status \in {"RUNNING", "ERROR"} : UpdateStatus(id, status)

\* The step that leaves the undecided points is the one that marks the row.
LEMMA JobVerdict ==
    ASSUME IInv, NEW id \in Requests, JobAction(id)
    PROVE  Keeps(id) \/ Gives(id)
<1>1. job \in [Requests -> Jobs]
  BY DEF IInv, TypeOK, JobTypeOK
<1>2. \A pc : JobGoto(id, pc) => job'[id].pc = pc
  BY <1>1 DEF JobGoto, Jobs
<1>3. ASSUME NEW pc \in UndecidedPcs, NEW can, NEW new, NEW next \in UndecidedPcs,
             NEW partial, NEW onError \in UndecidedPcs,
             InstallStep(id, pc, can, new, next, partial, onError)
      PROVE  Keeps(id)
  BY <1>2, <1>3 DEF InstallStep, Keeps
<1>4. ASSUME NEW pc \in UndecidedPcs, NEW status \in {"RUNNING", "ERROR"},
             NEW next, next \notin UndecidedPcs, JobMark(id, pc, status, next)
      PROVE  Gives(id)
  BY <1>2, <1>4 DEF JobMark, Gives
<1>5. ASSUME NEW pc, pc \notin UndecidedPcs, NEW called, NEW can, NEW new, NEW next,
             next \notin UndecidedPcs, CleanupStep(id, pc, called, can, new, next)
      PROVE  Keeps(id)
  BY <1>2, <1>5 DEF CleanupStep, Keeps
<1>6. CheckBridge(id) \/ CreateContainer(id) \/ MakeDisk(id) => Keeps(id)
  BY <1>3 DEF CheckBridge, CreateContainer, MakeDisk, UndecidedPcs, InstallPcs
<1>7. CopyTree(id) \/ BindHost(id) \/ InstallInit(id) \/ UnbindHost(id) \/ Configure(id)
         \/ CheckInit(id) => Keeps(id)
  <2>1. UnbindHost(id) => Keeps(id)
    BY <1>2 DEF UnbindHost, CleanupStep, Keeps, UndecidedPcs, InstallPcs
  <2>2. QED
    BY <1>3, <2>1
       DEF CopyTree, BindHost, InstallInit, Configure, CheckInit, UndecidedPcs, InstallPcs
<1>8. StartInstalled(id) \/ BootInstalled(id) => Keeps(id)
  BY <1>3 DEF StartInstalled, BootInstalled, UndecidedPcs, InstallPcs
<1>9. MountDisk(id) => Keeps(id)
  <2>1. ASSUME job' = [job EXCEPT ![id].pc = "copy", ![id].diskMounted = TRUE]
        PROVE  job'[id].pc = "copy"
    BY <1>1, <2>1 DEF Jobs
  <2>2. QED
    BY <1>2, <2>1 DEF MountDisk, Keeps, UndecidedPcs, InstallPcs
<1>10. UnmountDisk(id) => Keeps(id)
  <2>1. ASSUME NEW to, job' = [job EXCEPT ![id].pc = to, ![id].diskMounted = FALSE]
        PROVE  job'[id].pc = to
    BY <1>1, <2>1 DEF Jobs
  <2>2. UnmountDisk(id)
          => /\ job[id].pc = "unmount" /\ UNCHANGED servers
             /\ \/ JobGoto(id, "kmark")
                \/ \E to \in {"start", "kmark"} :
                      job' = [job EXCEPT ![id].pc = to, ![id].diskMounted = FALSE]
    BY DEF UnmountDisk
  <2>3. UnmountDisk(id) => job'[id].pc \in {"start", "kmark"}
    BY <1>2, <2>1, <2>2
  <2>4. QED
    BY <2>2, <2>3 DEF Keeps, UndecidedPcs, InstallPcs
<1>11. CleanupStop(id) \/ CleanupUnmount(id) => Keeps(id)
  BY <1>5 DEF CleanupStop, CleanupUnmount, UndecidedPcs, InstallPcs
<1>12. CleanupDestroy(id) \/ CleanupRemove(id) => Keeps(id)
  BY <1>5 DEF CleanupDestroy, CleanupRemove, UndecidedPcs, InstallPcs
<1>13. FinishInstall(id) \/ Abort(id) \/ CleanupMark(id) => Gives(id)
  BY <1>4 DEF FinishInstall, Abort, CleanupMark, UndecidedPcs, InstallPcs
<1>14. QED
  BY <1>6, <1>7, <1>8, <1>9, <1>10, <1>11, <1>12, <1>13 DEF JobAction

-----------------------------------------------------------------------------
\* Every step of a request is of one of five kinds.
LEMMA StepKinds ==
    ASSUME IInv, NEW r \in Requests, Serve(r)
    PROVE  \/ req[r].pc \in OtherPcs /\ Handles(r)
           \/ Purges(r)
           \/ Finds(r)
           \/ CreateIncr(r)
           \/ CreateInsert(r)
<1>1. CASE StartServer(r)
  <2>1. CASE \E id \in Requests : StartFind(r, id)
    BY <2>1, LookupFinds DEF StartFind, AllOps, HandlerPcs, CreatePcs
  <2>2. CASE StartRunning(r) \/ StartDisk(r) \/ StartLoad(r) \/ StartStart(r) \/ StartMark(r)
    <3>1. req[r].pc \in {"start_running", "start_disk", "start_load", "start_start",
                         "start_mark"}
      BY <2>2 DEF StartRunning, StartDisk, StartLoad, StartStart, StartMark, OpenAndAsk, Ask,
                  LoadConfig, HostCall, Mark, Statement
    <3>2. QED
      BY <2>2, <3>1, StartHandles DEF OtherPcs, HandlerPcs, CreatePcs
  <2>3. QED
    BY <1>1, <2>1, <2>2 DEF StartServer
<1>2. CASE StopServer(r)
  <2>1. CASE \E id \in Requests : StopFind(r, id)
    BY <2>1, LookupFinds DEF StopFind, AllOps, HandlerPcs, CreatePcs
  <2>2. CASE StopRunning(r) \/ StopStop(r) \/ StopMark(r)
    <3>1. req[r].pc \in {"stop_running", "stop_stop", "stop_mark"}
      BY <2>2 DEF StopRunning, StopStop, StopMark, OpenAndAsk, Ask, HostCall, Mark, Statement
    <3>2. QED
      BY <2>2, <3>1, StopHandles DEF OtherPcs, HandlerPcs, CreatePcs
  <2>3. QED
    BY <1>2, <2>1, <2>2 DEF StopServer
<1>3. CASE RestartServer(r)
  <2>1. CASE \E id \in Requests : RestartFind(r, id)
    BY <2>1, LookupFinds DEF RestartFind, AllOps, HandlerPcs, CreatePcs
  <2>2. CASE RestartLoad(r) \/ RestartReboot(r) \/ RestartMark(r)
    <3>1. req[r].pc \in {"restart_load", "restart_reboot", "restart_mark"}
      BY <2>2 DEF RestartLoad, RestartReboot, RestartMark, LoadConfig, HostCall, Mark,
                  Statement
    <3>2. QED
      BY <2>2, <3>1, RestartHandles DEF OtherPcs, HandlerPcs, CreatePcs
  <2>3. QED
    BY <1>3, <2>1, <2>2 DEF RestartServer
<1>4. CASE CreateServer(r)
  <2>1. CASE CreateReject(r)
    BY <2>1, RejectFinds
  <2>2. CASE \E name \in Names, memory \in Memories, cpu \in Cpus :
                CreateLookup(r, name, memory, cpu)
    BY <2>2, CreateLookupFinds
  <2>3. QED
    BY <1>4, <2>1, <2>2, PurgeSteps DEF CreateServer
<1>5. CASE UpdateServer(r)
  <2>1. CASE UpdateReject(r)
    BY <2>1, RejectFinds
  <2>2. CASE \E id \in Requests, memory \in Memories \cup {0}, cpu \in Cpus \cup {0} :
                UpdateFind(r, id, memory, cpu)
    BY <2>2, LookupFinds DEF UpdateFind, AllOps, HandlerPcs, CreatePcs
  <2>3. CASE UpdateRunning(r) \/ UpdateStop(r) \/ UpdateWait(r) \/ UpdateStopped(r) \/
             UpdateLoad(r) \/ UpdateSave(r) \/ UpdateWrite(r) \/ UpdateStart(r) \/ UpdateMark(r)
    <3>1. req[r].pc \in {"update_running", "update_stop", "update_wait", "update_stopped",
                         "update_load", "update_save", "update_write", "update_start",
                         "update_mark"}
      BY <2>3 DEF UpdateRunning, UpdateStop, UpdateWait, UpdateStopped, UpdateLoad, UpdateSave,
                  UpdateWrite, UpdateStart, UpdateMark, OpenAndAsk, Ask, WaitStopped,
                  LoadConfig, HostCall, Mark, Statement
    <3>2. QED
      BY <2>3, <3>1, UpdateHandles DEF OtherPcs, HandlerPcs, CreatePcs
  <2>4. QED
    BY <1>5, <2>1, <2>2, <2>3 DEF UpdateServer
<1>6. CASE DeleteServer(r)
  <2>1. CASE \E id \in Requests : DeleteFind(r, id)
    BY <2>1, LookupFinds DEF DeleteFind, AllOps, HandlerPcs, CreatePcs
  <2>2. CASE DeleteRunning(r) \/ DeleteStop(r) \/ DeleteWait(r) \/ DeleteStopped(r)
             \/ DeleteUnmount(r) \/ DeleteDefined(r) \/ DeleteDestroy(r) \/ DeleteRemove(r)
             \/ DeleteDelete(r)
    <3>1. req[r].pc \in {"delete_running", "delete_stop", "delete_wait", "delete_stopped",
                         "delete_umount", "delete_defined", "delete_destroy", "delete_remove",
                         "delete_row"}
      BY <2>2 DEF DeleteRunning, DeleteStop, DeleteWait, WaitStopped, DeleteStopped,
                  DeleteUnmount, DeleteDefined, DeleteDestroy, DeleteRemove, DeleteDelete,
                  OpenAndAsk, Ask, HostCall, Mark, Statement, Attempt
    <3>2. QED
      BY <2>2, <3>1, DeleteHandles DEF OtherPcs, HandlerPcs, CreatePcs
  <2>3. QED
    BY <1>6, <2>1, <2>2 DEF DeleteServer
<1>7. QED
  BY <1>1, <1>2, <1>3, <1>4, <1>5, <1>6 DEF Serve, RequestStep

-----------------------------------------------------------------------------
\* A request goes on working on the row it was at, or has just found it.
Remains(r) ==
    /\ req'[r].pc \in OtherPcs =>
          /\ req[r].pc \in OtherPcs
          /\ req'[r].id = req[r].id
    /\ req'[r].pc \in PurgePcs =>
          /\ req[r].pc \in PurgePcs
          /\ req'[r].id = req[r].id

\* A handler of an installed server.
LEMMA HandlesRemains ==
    ASSUME IInv, NEW r \in Requests, req[r].pc \in OtherPcs, Handles(r)
    PROVE  \A q \in Requests : Remains(q)
<1>1. PICK pc \in (HandlerPcs \ {"create_insert"}) \cup Answers, handle \in Configs :
          /\ pc \in CreatePcs => req[r].pc \in CreatePcs
          /\ req' = [req EXCEPT ![r].pc = pc, ![r].handle = handle]
  BY DEF Handles, Goes
<1>2. req \in [Requests -> Calls] /\ req[r] \in Calls
  BY DEF IInv, TypeOK, ReqTypeOK
<1>3. /\ \A q \in Requests \ {r} : req'[q] = req[q]
      /\ req'[r].pc = pc
      /\ req'[r].id = req[r].id
  BY <1>1, <1>2 DEF Calls
<1>4. pc \notin PurgePcs
  BY <1>1 DEF OtherPcs, PurgePcs, HandlerPcs, CreatePcs
<1>5. QED
  BY <1>3, <1>4 DEF Remains

\* A purge before a retry.
LEMMA PurgesRemains ==
    ASSUME IInv, NEW r \in Requests, Purges(r)
    PROVE  \A q \in Requests : Remains(q)
<1>0. PICK pc \in PurgePcs \cup {"create_incr"} \cup Answers :
         \E handle : req' = [req EXCEPT ![r].pc = pc, ![r].handle = handle]
  BY DEF Purges
<1>1. PICK handle : req' = [req EXCEPT ![r].pc = pc, ![r].handle = handle]
  BY <1>0
<1>2. req \in [Requests -> Calls] /\ req[r] \in Calls
  BY DEF IInv, TypeOK, ReqTypeOK
<1>3. /\ \A q \in Requests \ {r} : req'[q] = req[q]
      /\ req'[r].pc = pc
      /\ req'[r].id = req[r].id
  BY <1>0, <1>1, <1>2 DEF Calls
<1>4. pc \notin OtherPcs
  BY <1>0 DEF OtherPcs, PurgePcs, HandlerPcs, CreatePcs, Answers
<1>5. QED
  BY <1>3, <1>4 DEF Purges, Remains

\* A create request that draws its number or inserts its row works on no other.
LEMMA CreateRemains ==
    ASSUME IInv, NEW r \in Requests, CreateIncr(r) \/ CreateInsert(r)
    PROVE  \A q \in Requests : Remains(q)
<1>1. req \in [Requests -> Calls] /\ req[r] \in Calls
  BY DEF IInv, TypeOK, ReqTypeOK
<1>2. /\ \A q \in Requests \ {r} : req'[q] = req[q]
      /\ req'[r].pc \in {"ok", "error", "create_insert"}
  <2>1. \A pc : Goto(r, pc) => /\ \A q \in Requests \ {r} : req'[q] = req[q]
                               /\ req'[r].pc = pc
    BY <1>1 DEF Goto, Calls
  <2>2. CASE CreateInsert(r)
    BY <2>1, <2>2 DEF CreateInsert
  <2>3. CASE CreateIncr(r)
    <3>1. CASE req' = [req EXCEPT ![r].pc = "create_insert", ![r].id = r, ![r].sid = lxcId + 1]
      BY <1>1, <3>1 DEF Calls
    <3>2. QED
      BY <2>1, <2>3, <3>1 DEF CreateIncr
  <2>4. QED
    BY <2>2, <2>3
<1>3. QED
  BY <1>2 DEF Remains, OtherPcs, PurgePcs, HandlerPcs, CreatePcs

\* The death of the agent ends all its work.
LEMMA CrashRemains ==
    ASSUME IInv, Crash
    PROVE  \A q \in Requests : /\ Remains(q)
                               /\ Spawned(q)' <=> Spawned(q)
                               /\ job'[q].pc \notin UndecidedPcs
<1>1. req \in [Requests -> Calls] /\ job \in [Requests -> Jobs]
  BY DEF IInv, TypeOK, ReqTypeOK, JobTypeOK
<1>2. ASSUME NEW q \in Requests
      PROVE  req'[q] = req[q] \/ req'[q].pc = "lost"
  <2>1. req[q] \in Calls
    BY <1>1
  <2>2. [req[q] EXCEPT !.pc = "lost", !.handle = NoConfig].pc = "lost"
    BY <2>1 DEF Calls
  <2>3. QED
    BY <2>2 DEF Crash
<1>3. ASSUME NEW q \in Requests
      PROVE  IF Active(q) THEN job'[q].pc = "lost" ELSE job'[q] = job[q]
  <2>1. job[q] \in Jobs
    BY <1>1
  <2>2. [job[q] EXCEPT !.pc = "lost"].pc = "lost"
    BY <2>1 DEF Jobs
  <2>3. QED
    BY <2>2 DEF Crash
<1>4. ASSUME NEW q \in Requests
      PROVE  Remains(q)
  BY <1>2 DEF Remains, OtherPcs, PurgePcs, HandlerPcs, CreatePcs
<1>5. ASSUME NEW q \in Requests
      PROVE  /\ Spawned(q)' <=> Spawned(q)
             /\ job'[q].pc \notin UndecidedPcs
  BY <1>3 DEF Spawned, Active, ActivePcs, CleanupPcs, UndecidedPcs, InstallPcs
<1>6. QED
  BY <1>4, <1>5

-----------------------------------------------------------------------------
\* A step that leaves the rows alone, reopens no installation and lets requests
\* remain where they are keeps the invariant.
LEMMA QuietLInv ==
    ASSUME IInv, LInv, UNCHANGED servers,
           \A q \in Requests : /\ Remains(q)
                               /\ Spawned(q)' <=> Spawned(q)
                               /\ job'[q].pc \in UndecidedPcs => job[q].pc \in UndecidedPcs
    PROVE  LInv'
<1>1. \A row \in servers : row.id \in Requests
  BY DEF IInv, TypeOK, StoreTypeOK, Rows
<1>2. (\A row \in servers : Spawned(row.id))'
  BY <1>1 DEF LInv
<1>3. ASSUME NEW q \in Requests, (req[q].pc \in OtherPcs \cup PurgePcs)'
      PROVE  Spawned(req[q].id)'
  <2>1. req[q].pc \in OtherPcs \cup PurgePcs /\ req'[q].id = req[q].id
    BY <1>3 DEF Remains
  <2>2. req[q].id \in Requests
    BY <2>1 DEF IInv, CallOK, InFlight, OtherPcs, PurgePcs, HandlerPcs, CreatePcs
  <2>3. QED
    BY <2>1, <2>2 DEF LInv
<1>4. Orderly => (\A row \in servers : Decided(row))'
  BY <1>1 DEF LInv, Decided
<1>5. Orderly => (\A q \in Requests : KnowsRows(q))'
  BY DEF LInv, KnowsRows, RowsAre, Remains
<1>6. QED
  BY <1>2, <1>3, <1>4, <1>5 DEF LInv, Orderly

\* A statement of a request on its own row, known to have one of `known`, keeps
\* the invariant when it writes one of them.
LEMMA ServedLInv ==
    ASSUME IInv, LInv, NEW id \in Requests, NEW known \in {{"RUNNING", "STOPPED"}, {"ERROR"}},
           NEW writes \in SUBSET known, RowsChange(id, writes), UNCHANGED job,
           Orderly => RowsAre(id, known),
           \A q \in Requests : Remains(q)
    PROVE  LInv'
<1>1. /\ servers \subseteq Rows
      /\ RowsUnique
      /\ known \subseteq Statuses /\ writes \subseteq Statuses /\ "INSTALLING" \notin known
  BY DEF IInv, TypeOK, StoreTypeOK, Statuses
<1>2. \A new \in servers' : \E row \in servers :
         /\ row.id = new.id
         /\ new.status = row.status \/ (new.id = id /\ new.status \in writes)
  BY <1>1, RowsChangeKeys
<1>3. (\A row \in servers : Spawned(row.id))'
  BY <1>2 DEF LInv, Spawned
<1>4. (\A q \in Requests : req[q].pc \in OtherPcs \cup PurgePcs => Spawned(req[q].id))'
  BY DEF LInv, Spawned, Remains
<1>5. ASSUME Orderly
      PROVE  (\A row \in servers : Decided(row))'
  <2>1. ASSUME NEW new \in servers', new.status # "INSTALLING"
        PROVE  job[new.id].pc \notin UndecidedPcs
    <3>1. PICK row \in servers :
             /\ row.id = new.id
             /\ new.status = row.status \/ (new.id = id /\ new.status \in writes)
      BY <1>2
    <3>2. row.status # "INSTALLING"
      BY <1>1, <1>5, <2>1, <3>1 DEF RowsAre
    <3>3. QED
      BY <1>5, <3>1, <3>2 DEF LInv, Decided
  <2>2. QED
    BY <2>1 DEF Decided
<1>6. ASSUME Orderly, NEW q \in Requests
      PROVE  KnowsRows(q)'
  <2>1. ASSUME NEW statuses \in {{"RUNNING", "STOPPED"}, {"ERROR"}},
               RowsAre(req[q].id, statuses)
        PROVE  \A new \in servers' : new.id = req[q].id => new.status \in statuses
    <3>1. req[q].id = id => statuses = known \/ RowsWithId(req[q].id) = {}
      BY <1>6, <2>1 DEF RowsAre, RowsWithId
    <3>2. SUFFICES ASSUME NEW new \in servers', new.id = req[q].id
                   PROVE  new.status \in statuses
      OBVIOUS
    <3>3. PICK row \in servers :
             /\ row.id = new.id
             /\ new.status = row.status \/ (new.id = id /\ new.status \in writes)
      BY <1>2
    <3>4. QED
      BY <2>1, <3>1, <3>2, <3>3 DEF RowsAre, RowsWithId
  <2>2. KnowsRows(q) /\ Remains(q)
    BY <1>6 DEF LInv
  <2>3. QED
    BY <2>1, <2>2 DEF KnowsRows, RowsAre, Remains
<1>7. QED
  BY <1>3, <1>4, <1>5, <1>6 DEF LInv, Orderly

\* A request that finds its row learns what its client waited for.
LEMMA FindsLInv ==
    ASSUME IInv, LInv, NEW r \in Requests, Finds(r)
    PROVE  LInv'
<1>1. PICK call \in Calls :
          /\ req' = [req EXCEPT ![r] = call]
          /\ call.pc \in OtherPcs =>
                /\ Spawned(call.id)
                /\ Orderly => RowsAre(call.id, {"RUNNING", "STOPPED"})
          /\ call.pc \in PurgePcs =>
                \E row \in servers : row.id = call.id /\ row.status = "ERROR"
  BY DEF Finds
<1>2. /\ \A q \in Requests \ {r} : req'[q] = req[q]
      /\ req'[r] = call
      /\ UNCHANGED <<servers, job>>
  BY <1>1 DEF IInv, TypeOK, ReqTypeOK, Finds
<1>3. call.pc \in PurgePcs => Spawned(call.id) /\ RowsAre(call.id, {"ERROR"})
  BY <1>1 DEF IInv, RowsUnique, LInv, RowsAre
<1>4. (\A row \in servers : Spawned(row.id))' /\ (Orderly => (\A row \in servers : Decided(row))')
  BY <1>2 DEF LInv, Spawned, Decided
<1>5. (\A q \in Requests : req[q].pc \in OtherPcs \cup PurgePcs => Spawned(req[q].id))'
  BY <1>1, <1>2, <1>3 DEF LInv, Spawned
<1>6. Orderly => (\A q \in Requests : KnowsRows(q))'
  BY <1>1, <1>2, <1>3 DEF LInv, KnowsRows, RowsAre
<1>7. QED
  BY <1>4, <1>5, <1>6 DEF LInv, Orderly

\* An insert either fails or adds the row of a server nobody worked on before,
\* together with its installation.
Inserts(r) ==
    /\ ~Spawned(r)
    /\ \E row \in Rows :
          /\ row.id = r
          /\ row.status = "INSTALLING"
          /\ MayInsert(row)
          /\ Insert(row)
    /\ job'[r].pc = "bridge"
    /\ \A q \in Requests \ {r} : job'[q] = job[q]

\* An insert fails, or is one of these.
LEMMA InsertKinds ==
    ASSUME IInv, NEW r \in Requests, CreateInsert(r)
    PROVE  UNCHANGED <<servers, job>> \/ Inserts(r)
<1> DEFINE row == [id |-> r, sid |-> req[r].sid, name |-> req[r].name,
                   memory |-> req[r].memory, cpu |-> req[r].cpu, status |-> "INSTALLING"]
<1>1. /\ req[r].sid \in Sids
      /\ req[r].name \in Names /\ req[r].memory \in Memories /\ req[r].cpu \in Cpus
      /\ ~Spawned(r)
  BY DEF CreateInsert, IInv, CallOK, CreatePcs, InFlight, HandlerPcs
<1>2. row \in Rows /\ row.id = r /\ row.status = "INSTALLING"
  BY <1>1 DEF Rows, Statuses
<1>3. CASE MayInsert(row) /\ Insert(row) /\ Spawn(r, req[r].sid, req[r].memory, req[r].cpu)
  <2>1. job'[r].pc = "bridge" /\ \A q \in Requests \ {r} : job'[q] = job[q]
    BY <1>3 DEF Spawn, IInv, TypeOK, JobTypeOK
  <2> HIDE DEF row
  <2>2. QED
    BY <1>1, <1>2, <1>3, <2>1 DEF Inserts
<1>4. QED
  BY <1>3 DEF CreateInsert

\* The new server waits for its verdict.
LEMMA InsertsLInv ==
    ASSUME IInv, LInv, NEW r \in Requests, CreateInsert(r), Inserts(r)
    PROVE  LInv'
<1>1. PICK row \in Rows : row.id = r /\ row.status = "INSTALLING" /\ Insert(row)
  BY DEF Inserts
<1>2. servers' = servers \cup {row}
  BY <1>1 DEF Insert
<1>3. /\ Spawned(r)'
      /\ \A q \in Requests : Spawned(q) => Spawned(q)' /\ job'[q] = job[q]
  BY DEF Inserts, Spawned
<1>4. \A q \in Requests : Remains(q)
  BY CreateRemains
<1>5. \A old \in servers : old.id \in Requests /\ Spawned(old.id)
  BY DEF IInv, TypeOK, StoreTypeOK, Rows, LInv
<1>6. \A q \in Requests : req[q].pc \in OtherPcs \cup PurgePcs
                            => req[q].id \in Requests /\ Spawned(req[q].id)
  BY DEF LInv, IInv, CallOK, InFlight, OtherPcs, PurgePcs, HandlerPcs, CreatePcs
<1>7. (\A old \in servers : Spawned(old.id))'
  BY <1>1, <1>2, <1>3, <1>5
<1>8. (\A q \in Requests : req[q].pc \in OtherPcs \cup PurgePcs => Spawned(req[q].id))'
  BY <1>3, <1>4, <1>6 DEF Remains
<1>9. Orderly => (\A old \in servers : Decided(old))'
  BY <1>1, <1>2, <1>3, <1>5 DEF LInv, Decided
<1>10. Orderly => (\A q \in Requests : KnowsRows(q))'
  BY <1>1, <1>2, <1>4, <1>6 DEF LInv, KnowsRows, RowsAre, Remains, Inserts
<1>11. QED
  BY <1>7, <1>8, <1>9, <1>10 DEF LInv, Orderly

\* A step of an installation: the verdict falls on a row nobody works on.
LEMMA InstallLInv ==
    ASSUME IInv, LInv, NEW id \in Requests, Install(id)
    PROVE  LInv'
<1>1. Installs(id) /\ (Keeps(id) \/ Gives(id)) /\ UNCHANGED req
  BY JobActionInstalls, JobVerdict DEF Install, JobStep
<1>2. /\ job \in [Requests -> Jobs]
      /\ \A q \in Requests \ {id} : job'[q] = job[q]
      /\ \A q \in Requests : Remains(q)
  BY <1>1 DEF IInv, TypeOK, JobTypeOK, Installs, Remains
<1>3. \A q \in Requests : Spawned(q)' <=> Spawned(q)
  <2>1. Spawned(id)
    BY <1>1 DEF Installs, Active, Spawned, ActivePcs, InstallPcs, CleanupPcs
  <2>2. job[id] \in Jobs
    BY <1>2
  <2>3. Spawned(id)'
    BY <1>1, <1>2, <2>2 DEF Installs, Spawned, Jobs, ActivePcs, InstallPcs, CleanupPcs
  <2>4. QED
    BY <1>2, <2>1, <2>3 DEF Spawned
<1>4. CASE UNCHANGED servers
  <2>1. \A q \in Requests : job'[q].pc \in UndecidedPcs => job[q].pc \in UndecidedPcs
    BY <1>1, <1>2 DEF Keeps, Gives
  <2>2. QED
    BY <1>2, <1>3, <1>4, <2>1, QuietLInv
<1>5. ASSUME NEW status \in {"RUNNING", "ERROR"}, UpdateStatus(id, status), Gives(id)
      PROVE  LInv'
  <2>1. /\ servers \subseteq Rows
        /\ \A old \in servers : old.id \in Requests
        /\ \A new \in servers' :
              \/ new \in servers
              \/ /\ new.id = id
                 /\ \E old \in servers : old.id = id
    BY <1>5 DEF UpdateStatus, IInv, TypeOK, StoreTypeOK, Rows
  <2>2. (\A old \in servers : Spawned(old.id))'
    BY <1>3, <2>1 DEF LInv
  <2>3. (\A q \in Requests : req[q].pc \in OtherPcs \cup PurgePcs => Spawned(req[q].id))'
    BY <1>1, <1>3 DEF LInv, IInv, CallOK, InFlight, OtherPcs, PurgePcs, HandlerPcs, CreatePcs
  <2>4. Orderly => (\A old \in servers : Decided(old))'
    BY <1>2, <1>5, <2>1 DEF LInv, Decided, Gives
  <2>5. ASSUME Orderly, NEW q \in Requests
        PROVE  KnowsRows(q)'
    <3>1. \A old \in servers : old.id = id => old.status = "INSTALLING"
      BY <1>5, <2>5 DEF LInv, Decided, Gives
    <3>2. KnowsRows(q)
      BY <2>5 DEF LInv
    <3>3. QED
      BY <1>1, <2>1, <3>1, <3>2 DEF KnowsRows, RowsAre
  <2>6. QED
    BY <2>2, <2>3, <2>4, <2>5 DEF LInv, Orderly
<1>6. QED
  BY <1>1, <1>4, <1>5 DEF Keeps, Gives

-----------------------------------------------------------------------------
\* Every step of a request keeps the invariant.
LEMMA ServeLInv ==
    ASSUME IInv, LInv, NEW r \in Requests, Serve(r)
    PROVE  LInv'
<1>1. CASE req[r].pc \in OtherPcs /\ Handles(r)
  <2>1. Orderly => RowsAre(req[r].id, {"RUNNING", "STOPPED"})
    BY <1>1 DEF LInv, KnowsRows
  <2>2. \A q \in Requests : Remains(q)
    BY <1>1, HandlesRemains
  <2>3. RowsChange(req[r].id, {"RUNNING", "STOPPED"}) /\ UNCHANGED job
    BY <1>1 DEF Handles
  <2>4. req[r].id \in Requests
    BY <1>1 DEF IInv, CallOK, InFlight, OtherPcs
  <2>5. QED
    BY <2>1, <2>2, <2>3, <2>4, ServedLInv
<1>2. CASE Purges(r)
  <2>1. Orderly => RowsAre(req[r].id, {"ERROR"})
    BY <1>2 DEF LInv, KnowsRows, Purges
  <2>2. \A q \in Requests : Remains(q)
    BY <1>2, PurgesRemains
  <2>3. RowsChange(req[r].id, {}) /\ UNCHANGED job
    BY <1>2 DEF Purges, RowsChange
  <2>4. req[r].id \in Requests
    BY <1>2 DEF Purges, IInv, CallOK, InFlight, PurgePcs, HandlerPcs, CreatePcs
  <2>5. QED
    BY <2>1, <2>2, <2>3, <2>4, ServedLInv
<1>3. CASE Finds(r)
  BY <1>3, FindsLInv
<1>4. CASE CreateIncr(r)
  BY <1>4, CreateRemains, QuietLInv DEF CreateIncr, Spawned
<1>5. CASE CreateInsert(r)
  <2>1. CASE UNCHANGED <<servers, job>>
    BY <1>5, <2>1, CreateRemains, QuietLInv DEF Spawned
  <2>2. QED
    BY <1>5, <2>1, InsertKinds, InsertsLInv
<1>6. QED
  BY <1>1, <1>2, <1>3, <1>4, <1>5, StepKinds

\* Every step of the agent keeps the invariant.
LEMMA NextLInv == IInv /\ LInv /\ [Next]_vars => LInv'
<1> SUFFICES ASSUME IInv, LInv, [Next]_vars
             PROVE  LInv'
  OBVIOUS
<1>1. CASE UNCHANGED <<servers, job, req>>
  BY <1>1, QuietLInv DEF Remains, Spawned
<1>2. CASE Crash
  BY <1>2, CrashRemains, QuietLInv DEF Crash
<1>3. CASE \E r \in Requests : Serve(r)
  BY <1>3, ServeLInv
<1>4. CASE \E id \in Requests : Install(id)
  BY <1>4, InstallLInv
<1>5. QED
  BY <1>1, <1>2, <1>3, <1>4 DEF Next, Boot, GuestHalt, vars

\* There are no rows and no requests at work at first.
LEMMA InitLInv == Init => LInv
BY DEF Init, StoreInit, ReqInit, Idle, LInv, Decided, KnowsRows, OtherPcs, PurgePcs, HandlerPcs,
       CreatePcs

-----------------------------------------------------------------------------
\* The refinement mapping.
Entry(row) == [id |-> row.id, name |-> row.name, status |-> row.status]
Table == {Entry(row) : row \in servers}
Used == {id \in Requests : Spawned(id)}
Open == {id \in Requests : job[id].pc \in UndecidedPcs}

\* What a statement does to a row, it does to its entry.
LEMMA StatusMaps ==
    ASSUME IInv, NEW id, NEW status \in Statuses, UpdateStatus(id, status)
    PROVE  Table' = {IF e.id = id THEN [e EXCEPT !.status = status] ELSE e : e \in Table}
<1> DEFINE New(row) == IF row.id = id THEN [row EXCEPT !.status = status] ELSE row
           NewEntry(e) == IF e.id = id THEN [e EXCEPT !.status = status] ELSE e
<1>1. servers' = {New(row) : row \in servers}
  BY DEF UpdateStatus
<1>2. ASSUME NEW row \in servers
      PROVE  Entry(New(row)) = NewEntry(Entry(row))
  <2>1. row \in Rows
    BY DEF IInv, TypeOK, StoreTypeOK
  <2>2. CASE row.id # id
    BY <2>2 DEF Entry
  <2>3. CASE row.id = id
    <3>1. /\ New(row).id = row.id /\ New(row).name = row.name /\ New(row).status = status
      BY <2>1, <2>3 DEF Rows
    <3>2. NewEntry(Entry(row)) = [id |-> row.id, name |-> row.name, status |-> status]
      BY <2>3 DEF Entry
    <3> HIDE DEF New, NewEntry
    <3>3. QED
      BY <3>1, <3>2 DEF Entry
  <2>4. QED
    BY <2>2, <2>3
<1> HIDE DEF New, NewEntry
<1>3. Table' = {NewEntry(e) : e \in Table}
  BY <1>1, <1>2 DEF Table
<1>4. QED
  BY <1>3 DEF NewEntry

\* The panel does not see the limits change in its list.
LEMMA LimitsMap ==
    ASSUME IInv, NEW id, NEW memory, NEW cpu, UpdateLimits(id, memory, cpu)
    PROVE  UNCHANGED Table
<1> DEFINE New(row) == IF row.id = id
                         THEN [row EXCEPT !.memory = Given(memory, @), !.cpu = Given(cpu, @)]
                         ELSE row
<1>1. servers' = {New(row) : row \in servers}
  BY DEF UpdateLimits
<1>2. ASSUME NEW row \in servers
      PROVE  Entry(New(row)) = Entry(row)
  <2>1. row \in Rows
    BY DEF IInv, TypeOK, StoreTypeOK
  <2>2. /\ New(row).id = row.id /\ New(row).name = row.name /\ New(row).status = row.status
    BY <2>1 DEF Rows
  <2> HIDE DEF New
  <2>3. QED
    BY <2>2 DEF Entry
<1> HIDE DEF New
<1>3. QED
  BY <1>1, <1>2 DEF Table

\* A deleted row takes its entry with it.
LEMMA DeleteMaps ==
    ASSUME IInv, NEW id, DeleteRow(id)
    PROVE  Table' = {e \in Table : e.id # id}
<1>1. \A row : Entry(row).id = row.id
  BY DEF Entry
<1>2. \A row : row \in servers' <=> row \in servers /\ row.id # id
  BY DEF DeleteRow, RowsWithId
<1>3. QED
  BY <1>1, <1>2 DEF Table

\* What is known of rows is known of entries.
LEMMA TableRows ==
    ASSUME NEW id, NEW statuses, RowsAre(id, statuses)
    PROVE  \A e \in Table : e.id = id => e.status \in statuses
BY DEF Table, Entry, RowsAre

-----------------------------------------------------------------------------
Stutters == UNCHANGED <<Table, Used, Open>>

\* What leaves the mapped variables alone is invisible.
LEMMA StuttersMap == Stutters => UNCHANGED Lifecycle!vars
BY DEF Stutters, Lifecycle!vars, Table, Entry, Used, Open

\* The steps of the abstract specification.
LEMMA LifecycleSteps ==
    ASSUME NEW id \in Requests,
           \/ \E name \in Names : Lifecycle!Provision(id, name)
           \/ Lifecycle!Verdict(id)
           \/ Lifecycle!Switch(id)
           \/ Lifecycle!Remove(id)
    PROVE  Lifecycle!Next
BY DEF Lifecycle!Next

\* A handler switches its server, removes it, or the panel sees nothing.
LEMMA HandlesMap ==
    ASSUME IInv, LInv, NEW r \in Requests, req[r].pc \in OtherPcs, Handles(r)
    PROVE  [Lifecycle!Next]_(Lifecycle!vars)
<1>1. PICK id \in Requests : id = req[r].id
  BY DEF IInv, CallOK, InFlight, OtherPcs
<1>2. UNCHANGED <<Used, Open>>
  BY DEF Handles, Used, Open, Spawned
<1>3. Orderly => \A e \in Table : e.id = id => e.status \in {"RUNNING", "STOPPED"}
  BY <1>1, TableRows DEF LInv, KnowsRows
<1>4. CASE UNCHANGED Table
  BY <1>2, <1>4, StuttersMap DEF Stutters
<1>5. ASSUME NEW status \in {"RUNNING", "STOPPED"}, UpdateStatus(id, status)
      PROVE  Lifecycle!Next
  <2>1. Table' = {IF e.id = id THEN [e EXCEPT !.status = status] ELSE e : e \in Table}
    BY <1>5, StatusMaps DEF Statuses
  <2>2. Lifecycle!Switch(id)
    BY <1>2, <1>3, <2>1
       DEF Lifecycle!Switch, Lifecycle!SetStatus, Lifecycle!In, Table, Entry, Used, Open, Orderly
  <2>3. QED
    BY <1>1, <2>2, LifecycleSteps
<1>6. ASSUME DeleteRow(id)
      PROVE  Lifecycle!Next
  <2>1. Table' = {e \in Table : e.id # id}
    BY <1>6, DeleteMaps
  <2>2. Lifecycle!Remove(id)
    BY <1>2, <1>3, <2>1
       DEF Lifecycle!Remove, Lifecycle!In, Table, Entry, Used, Open, Orderly
  <2>3. QED
    BY <1>1, <2>2, LifecycleSteps
<1>7. UNCHANGED servers => UNCHANGED Table
  BY DEF Table, Entry
<1>8. QED
  BY <1>1, <1>4, <1>5, <1>6, <1>7, LimitsMap DEF Handles, RowsChange

\* A purge removes a failed server, or the panel sees nothing.
LEMMA PurgesMap ==
    ASSUME IInv, LInv, NEW r \in Requests, Purges(r)
    PROVE  [Lifecycle!Next]_(Lifecycle!vars)
<1>1. PICK id \in Requests : id = req[r].id
  BY DEF Purges, IInv, CallOK, InFlight, PurgePcs, HandlerPcs, CreatePcs
<1>2. UNCHANGED <<Used, Open>>
  BY DEF Purges, Used, Open, Spawned
<1>3. Orderly => \A e \in Table : e.id = id => e.status \in {"ERROR"}
  BY <1>1, TableRows DEF LInv, KnowsRows, Purges
<1>4. CASE UNCHANGED servers
  BY <1>2, <1>4, StuttersMap DEF Stutters, Table, Entry
<1>5. ASSUME DeleteRow(id)
      PROVE  Lifecycle!Next
  <2>1. Table' = {e \in Table : e.id # id}
    BY <1>5, DeleteMaps
  <2>2. Lifecycle!Remove(id)
    BY <1>2, <1>3, <2>1
       DEF Lifecycle!Remove, Lifecycle!In, Table, Entry, Used, Open, Orderly
  <2>3. QED
    BY <2>2, LifecycleSteps
<1>6. QED
  BY <1>1, <1>4, <1>5 DEF Purges

\* An insert creates the server, under a name no other has.
LEMMA InsertsMap ==
    ASSUME IInv, LInv, NEW r \in Requests, Inserts(r)
    PROVE  [Lifecycle!Next]_(Lifecycle!vars)
<1>1. PICK row \in Rows : /\ row.id = r
                          /\ row.status = "INSTALLING"
                          /\ MayInsert(row)
                          /\ Insert(row)
  BY DEF Inserts
<1> DEFINE name == row.name
<1>2. name \in Names
  BY DEF Rows
<1>3. Table' = Table \cup {[id |-> r, name |-> name, status |-> "INSTALLING"]}
  <2>1. Entry(row) = [id |-> r, name |-> name, status |-> "INSTALLING"]
    BY <1>1 DEF Entry
  <2>2. Table' = Table \cup {Entry(row)}
    BY <1>1 DEF Insert, Table, Entry
  <2>3. QED
    BY <2>1, <2>2
<1>4. \A e \in Table : e.name # name
  BY <1>1 DEF MayInsert, Table, Entry
<1>5. r \notin Used /\ Used' = Used \cup {r} /\ Open' = Open \cup {r}
  BY DEF Inserts, Used, Open, Spawned, UndecidedPcs, InstallPcs
<1> HIDE DEF name
<1>6. Lifecycle!Provision(r, name)
  BY <1>3, <1>4, <1>5 DEF Lifecycle!Provision, Table, Entry, Used, Open
<1>7. QED
  BY <1>2, <1>6, LifecycleSteps

\* An installation gives its verdict, or the panel sees nothing.
LEMMA InstallMap ==
    ASSUME IInv, LInv, NEW id \in Requests, Install(id)
    PROVE  [Lifecycle!Next]_(Lifecycle!vars)
<1>1. Installs(id) /\ (Keeps(id) \/ Gives(id))
  BY JobActionInstalls, JobVerdict DEF Install, JobStep
<1>2. job \in [Requests -> Jobs]
  BY DEF IInv, TypeOK, JobTypeOK
<1>3. \A q \in Requests \ {id} : job'[q] = job[q]
  BY <1>1, <1>2 DEF Installs
<1>4. UNCHANGED Used
  <2>1. Spawned(id)
    BY <1>1 DEF Installs, Active, Spawned, ActivePcs, InstallPcs, CleanupPcs
  <2>2. job[id] \in Jobs
    BY <1>2
  <2>3. Spawned(id)'
    BY <1>1, <1>2, <2>2 DEF Installs, Spawned, Jobs, ActivePcs, InstallPcs, CleanupPcs
  <2>4. QED
    BY <1>3, <2>1, <2>3 DEF Used, Spawned
<1>5. CASE Keeps(id)
  <2>1. UNCHANGED <<Table, Open>>
    BY <1>3, <1>5 DEF Keeps, Table, Entry, Open
  <2>2. QED
    BY <1>4, <2>1, StuttersMap DEF Stutters
<1>6. CASE Gives(id)
  <2>1. id \in Open /\ Open' = Open \ {id}
    BY <1>3, <1>6 DEF Gives, Open
  <2>2. \/ UNCHANGED Table
        \/ \E status \in {"RUNNING", "ERROR"} :
              Table' = {IF e.id = id THEN [e EXCEPT !.status = status] ELSE e : e \in Table}
    BY <1>6, StatusMaps DEF Gives, Statuses, Table, Entry
  <2>3. Lifecycle!Verdict(id)
    BY <1>4, <2>1, <2>2 DEF Lifecycle!Verdict, Lifecycle!SetStatus, Table, Entry, Used, Open
  <2>4. QED
    BY <2>3, LifecycleSteps
<1>7. QED
  BY <1>1, <1>5, <1>6

\* The death of the agent abandons its installations.
LEMMA CrashMap ==
    ASSUME IInv, Crash
    PROVE  [Lifecycle!Next]_(Lifecycle!vars)
<1>1. Open' = {} /\ UNCHANGED <<Table, Used>>
  BY CrashRemains DEF Crash, Open, Used, Table, Entry
<1>2. Lifecycle!Abandon
  BY <1>1 DEF Lifecycle!Abandon, Table, Entry, Used, Open
<1>3. QED
  BY <1>2 DEF Lifecycle!Next

\* Every step of the agent is a step of the life of a server, or invisible.
LEMMA StepMap == IInv /\ LInv /\ [Next]_vars => [Lifecycle!Next]_(Lifecycle!vars)
<1> SUFFICES ASSUME IInv, LInv, [Next]_vars
             PROVE  [Lifecycle!Next]_(Lifecycle!vars)
  OBVIOUS
<1>1. CASE UNCHANGED <<servers, job>>
  BY <1>1, StuttersMap DEF Stutters, Table, Entry, Used, Open, Spawned
<1>2. ASSUME NEW r \in Requests, Serve(r)
      PROVE  [Lifecycle!Next]_(Lifecycle!vars)
  <2>1. Finds(r) \/ CreateIncr(r) => UNCHANGED <<servers, job>>
    BY DEF Finds, CreateIncr
  <2>2. QED
    BY <1>1, <1>2, <2>1, StepKinds, HandlesMap, PurgesMap, InsertKinds, InsertsMap
<1>3. CASE \E id \in Requests : Install(id)
  BY <1>3, InstallMap
<1>4. CASE Crash
  BY <1>4, CrashMap
<1>5. QED
  BY <1>1, <1>2, <1>3, <1>4 DEF Next, Boot, GuestHalt, vars

\* Whatever the clients do and whatever fails, a server lives the life of
\* ServerLifecycle; one of an orderly panel is never switched before it is
\* installed nor after its installation failed, however late the handlers and
\* the cleanups of createServerAsync write.
THEOREM AgentImplementsLifecycle == Spec => LifecycleSpec
<1>1. Init => Lifecycle!Init
  BY DEF Init, StoreInit, JobInit, NoJob, Lifecycle!Init, Spawned, UndecidedPcs, InstallPcs
<1>2. QED
  BY <1>1, StepMap, InitLInv, NextLInv, Invariance, PTL
     DEF Spec, LifecycleSpec, Lifecycle!Spec

=============================================================================
