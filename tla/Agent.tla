------------------------------- MODULE Agent -------------------------------
(***************************************************************************)
(* The agent: requests and installations interleaved over the stores and   *)
(* the host, with the death and restart of the process.  systemd restarts  *)
(* it; it reads nothing back at start but the counter in Redis.            *)
(***************************************************************************)
EXTENDS ServerController

vars == <<environment, servers, lxcId, host, job, req>>

Init ==
    /\ EnvironmentInit
    /\ StoreInit
    /\ HostInit
    /\ JobInit
    /\ ReqInit

\* main: Redis answers and the counter is set if it was absent.
Boot ==
    /\ ~up
    /\ up' = TRUE
    /\ SetNX
    /\ UNCHANGED <<crashes, faults, servers, host, job, req>>

\* The process dies: every handler and installation stops where it is.
\* Containers go on.  Mounts made by the agent go with the mount namespace of its
\* service (lynx-agent.service), or stay when it has none or something holds it.
Crash ==
    /\ up
    /\ crashes < MaxCrashes
    /\ up' = FALSE
    /\ crashes' = crashes + 1
    /\ req' = [r \in Requests |->
                 IF InFlight(r) THEN [req[r] EXCEPT !.pc = "lost", !.handle = NoConfig]
                                ELSE req[r]]
    /\ job' = [id \in Requests |->
                 IF Active(id) THEN [job[id] EXCEPT !.pc = "lost"] ELSE job[id]]
    /\ \/ UNCHANGED host
       \/ host' = [sid \in Sids |-> Unmounted(host[sid])]
    /\ UNCHANGED <<faults, servers, lxcId>>

\* A container powers itself off.
GuestHalt(sid) ==
    /\ GuestHalts
    /\ host[sid].running
    /\ host' = [host EXCEPT ![sid] = Stopped(@)]
    /\ UNCHANGED <<environment, servers, lxcId, job, req>>

Serve(r) == up /\ RequestStep(r) /\ UNCHANGED <<up, crashes>>

Install(id) == up /\ JobStep(id) /\ UNCHANGED <<up, crashes, req>>

Next ==
    \/ Boot
    \/ Crash
    \/ \E sid \in Sids : GuestHalt(sid)
    \/ \E r \in Requests : Serve(r)
    \/ \E id \in Requests : Install(id)

Spec == Init /\ [][Next]_vars

\* systemd restarts the process, and the Go scheduler runs every goroutine;
\* a client is free never to send a request.
Fairness ==
    /\ WF_vars(Boot)
    /\ \A r \in Requests : WF_vars(InFlight(r) /\ Serve(r))
    /\ \A id \in Requests : WF_vars(Install(id))

FairSpec == Spec /\ Fairness

-----------------------------------------------------------------------------
\* Every variable has its type.
TypeOK ==
    /\ EnvironmentTypeOK
    /\ StoreTypeOK
    /\ HostTypeOK
    /\ JobTypeOK
    /\ ReqTypeOK

\* However lookups and inserts of create requests interleave, a name, a
\* container number and an id belong to one row (CreateServer checks the name
\* long before it inserts, and takes a failed query for a free name).
RowsUnique ==
    \A r, s \in servers :
        r.id = s.id \/ r.sid = s.sid \/ r.name = s.name => r = s

\* No two installations, of the same or of different lives of the agent, work
\* on the same container directory (InitRedis, CreateServer).
SidsDistinct ==
    \A i, j \in Requests :
        Spawned(i) /\ Spawned(j) /\ job[i].sid = job[j].sid => i = j

\* A row that says INSTALLING has an installation at work on it, so that a
\* client who polls it waits for something (createServerAsync, CreateServer).
InstallingHasJob ==
    \A row \in servers : row.status = "INSTALLING" => Active(row.id)

\* A create request that is refused because its name is "already being created"
\* is told the truth: an installation is at work on the server that has the name
\* (CreateServer, and what a restart leaves of createServerAsync).
NameBeingCreated ==
    [][\A r \in Requests, row \in servers :
          /\ req[r].pc = "new" /\ req'[r].op = "create" /\ req'[r].pc = "bad"
          /\ req'[r].name = row.name /\ row.status = "INSTALLING"
          => Active(row.id)]_vars

\* Only the installation of a server turns it into a failed one; the late
\* cleanup of another, which may have had the same name, does not.
ErrorFromOwnJob ==
    [][\A row \in servers, new \in servers' :
          row.id = new.id /\ row.status # "ERROR" /\ new.status = "ERROR"
            => job'[row.id].pc # job[row.id].pc]_vars

\* A deleted row stays deleted, although handlers and installations that began
\* before go on to update the status of their row.
DeletedStaysDeleted ==
    [][\A id \in Requests :
          Spawned(id) /\ RowsWithId(id) = {} => RowsWithId(id)' = {}]_vars

\* An installation at one of these points has not marked its row.
UndecidedPcs == InstallPcs \cup {"abort", "kmark"}

\* The agent as the panel sees it.  Clients that wait for installations make an
\* orderly panel.
Lifecycle == INSTANCE ServerLifecycle WITH
    Ids <- Requests,
    Orderly <- Clients # "free",
    table <- {[id |-> row.id, name |-> row.name, status |-> row.status] : row \in servers},
    used <- {id \in Requests : Spawned(id)},
    open <- {id \in Requests : job[id].pc \in UndecidedPcs}

\* Whatever handlers, installations and their cleanups do to a row that they
\* looked up long before, its status goes through a life the panel can follow:
\* created once, one verdict of its own installation, switched by handlers, and
\* never back (server.controller.go).
LifecycleSpec == Lifecycle!Spec

-----------------------------------------------------------------------------
\* Nobody works on the server, and no handler died working on it.
Quiet(id) ==
    /\ job[id].pc = "ended"
    /\ \A r \in Requests : req[r].id = id => ~InFlight(r) /\ req[r].pc # "lost"

\* A handler gave up waiting for the container of the server to stop.
TimedOut(id) == \E r \in Requests : req[r].pc = "timeout" /\ req[r].id = id

\* Once every request on a server is answered, even with a 500, its status
\* says whether its container runs (all handlers).  Only a wait that was over too
\* early leaves RUNNING on a container that is stopped (UpdateServer,
\* DeleteServer); nothing leaves STOPPED on one that runs.
StatusTruthful ==
    \A row \in servers :
        Quiet(row.id) =>
            /\ row.status = "STOPPED" => ~host[row.sid].running
            /\ row.status = "RUNNING" => host[row.sid].running \/ TimedOut(row.id)

\* Once every request on a server is answered, even with a 500, the limits of
\* its row are those of its config file and of the running container
\* (UpdateServer saves, writes and starts in three steps).
LimitsEnforced ==
    \A row \in servers :
        LET h == host[row.sid] IN
        Quiet(row.id) /\ row.status \in {"RUNNING", "STOPPED"}
          => /\ h.config = DiskConfig(row.memory, row.cpu)
             /\ h.running => h.live = h.config

\* A container, an image or a mount on the host is known to a row, or someone
\* is still at work on it: none is left behind by a delete, a failed
\* installation, a retry or a crash (DeleteServer, cleanup, CreateServer).  An
\* empty directory may be, since the error of removing it is ignored.
NoOrphans ==
    \A sid \in Sids :
        LET h == host[sid] IN
        Defined(h) \/ h.disk # "none" \/ h.mounted \/ h.bound \/ h.running =>
            \/ \E row \in servers : row.sid = sid
            \/ \E id \in Requests : Active(id) /\ job[id].sid = sid
            \/ \E r \in Requests : InFlight(r) /\ req[r].sid = sid

\* The file system of an image is never mounted twice at once, by the agent on
\* rootfs and by LXC for the running container (createServerAsync, StartServer).
NoDoubleMount ==
    \A sid \in Sids :
        ~(host[sid].mounted /\ host[sid].running /\ host[sid].live.rootfs = "loop")

\* Nobody is about to remove the directory of a container while directories of
\* the host are bound into it: rm -r would empty those (cleanup, CreateServer and
\* DeleteServer, against the step of createServerAsync that binds them).
HostFilesKept ==
    \A sid \in Sids : host[sid].bound =>
        /\ \A id \in Requests : job[id].sid = sid => job[id].pc # "kremove"
        /\ \A r \in Requests :
              req[r].sid = sid => req[r].pc \notin {"create_premove", "delete_remove"}

-----------------------------------------------------------------------------
\* An installation leaves INSTALLING, whatever host call fails (README:
\* provisioning is asynchronous, poll to track progress).
InstallEnds ==
    \A id \in Requests :
        (\E row \in servers : row.id = id /\ row.status = "INSTALLING")
          ~> ~(\E row \in servers : row.id = id /\ row.status = "INSTALLING")

\* A request that was taken up is answered.
RequestsAnswered == \A r \in Requests : InFlight(r) ~> req[r].pc \in Answers

=============================================================================
