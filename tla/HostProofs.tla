----------------------------- MODULE HostProofs -----------------------------
(***************************************************************************)
(* What an orderly panel finds on the host, for every value of the other   *)
(* constants: no image is mounted twice; and, when its clients are polite, *)
(* nothing is left behind and a server at rest is what its row says.  The  *)
(* inductive invariant follows the container of each server through its    *)
(* installation, its cleanup, its handlers and its purge.                  *)
(***************************************************************************)
EXTENDS LifecycleProofs

Polite == Clients = "polite"

\* No UPDATE, and no DELETE, is lost.
Exact == Polite /\ "db" \notin FaultKinds

\* A host call fails at most once.
OneFault == "host" \notin FaultKinds \/ MaxFaults <= 1

\* No host call will fail from now on.
Reliable == "host" \notin FaultKinds \/ faults = MaxFaults

-----------------------------------------------------------------------------
\* What is left of a container that is gone, and one that can be started.
Clean(h) == ~Defined(h) /\ h.disk = "none" /\ ~h.mounted /\ ~h.bound /\ ~h.running

Whole(h) == h.dir /\ h.config.rootfs = "loop" /\ h.disk = "full" /\ ~h.mounted

\* The image of a failed server can be found by its config file, what is bound
\* into it goes when it is unmounted, and only the one fault could leave it
\* mounted or running.
Rooted(h) == (h.disk # "none" => Defined(h)) /\ (h.bound => h.mounted)
Failed(h) == Rooted(h) /\ (OneFault /\ (h.mounted \/ h.running) => Reliable)

\* What cleanups and purges do to a container.
Shrinks(h, new) ==
    /\ new.mounted => h.mounted
    /\ new.running => h.running
    /\ Clean(h) => Clean(new)
    /\ Rooted(h) => Rooted(new)

\* The image while the agent has it, or is about to have it, mounted.
Image(h, disk, mounted) ==
    h.dir /\ Defined(h) /\ h.disk = disk /\ h.mounted = mounted /\ ~h.running

\* How far an installation has come.
MadeAt(pc, memory, cpu, h) ==
    LET config == DiskConfig(memory, cpu) IN
    /\ pc \in {"bridge", "create"} => h = Nothing
    /\ pc = "disk" => h = Created(Nothing)
    /\ pc = "mount" => Image(h, "empty", FALSE)
    /\ pc = "copy" => Image(h, "empty", TRUE)
    /\ pc \in {"bind", "chroot", "unbind", "configure"} => Image(h, "full", TRUE)
    /\ pc \in {"init", "unmount"} => Image(h, "full", TRUE) /\ h.config = config
    /\ pc \in {"mount", "copy", "bind", "start", "boot", "finish"} => ~h.bound
    /\ pc \in {"configure", "init", "unmount"} => (OneFault /\ h.bound => Reliable)
    /\ pc = "start" => Whole(h) /\ h.config = config /\ ~h.running
    /\ pc \in {"boot", "finish"} =>
          /\ Whole(h) /\ h.config = config
          /\ h.running => h.live = config
          /\ GuestHalts \/ h.running
    /\ pc = "abort" => Clean(h)
    /\ pc \in {"kunbind", "kmark", "kstop", "kumount", "kdestroy", "kremove"} => Failed(h)
    /\ pc \in {"kdestroy", "kremove"} => (OneFault => ~h.mounted)

\* A mounted image is noted in the job, so that a cleanup unmounts it.
Noted(pc, noted, h) == pc \in ActivePcs /\ h.mounted => noted

Made(j, h) == MadeAt(j.pc, j.memory, j.cpu, h) /\ Noted(j.pc, j.diskMounted, h)

\* What a handler at pc, with its handle, has made of the container of a polite
\* client; a handler that has answered is at "ok".
HostAt(pc, handle, h) ==
    /\ Whole(h) \/ Clean(h)
    /\ pc \in {"delete_wait", "delete_stopped", "delete_umount", "delete_defined",
                "delete_destroy"} => ~h.running
    /\ pc \in {"delete_remove", "delete_row"} => Clean(h)
    /\ pc \in {"start_start", "update_save", "update_write", "update_start"} =>
          Whole(h) /\ handle = h.config

\* The points between which a handler knows that the container is stopped, and
\* that it runs, and those at which the status has not followed yet.
DownPcs == {"start_disk", "start_load", "start_start", "stop_mark", "update_wait",
            "update_stopped", "update_load", "update_save", "update_write", "update_start",
            "delete_wait", "delete_stopped", "delete_umount", "delete_defined",
            "delete_destroy", "delete_remove", "delete_row", "timeout"}
UpPcs == {"start_mark", "restart_mark", "update_mark"}
MarkPcs == {"start_mark", "stop_mark", "update_wait", "update_stopped", "update_mark",
            "delete_wait", "delete_stopped", "timeout"}

\* How the row and the container of a server agree while a handler of new limits
\* memory and cpu is at pc, after the requests `late` gave up waiting for the
\* container to stop.
RowAt(late, pc, memory, cpu, row, h) ==
    /\ pc \notin {"update_write", "delete_remove", "delete_row"} =>
          h.config = DiskConfig(row.memory, row.cpu)
    /\ pc = "update_write" =>
          h.config = DiskConfig(Given(memory, row.memory), Given(cpu, row.cpu))
    /\ h.running => h.live = h.config
    /\ pc \in DownPcs => ~h.running
    /\ pc \in UpPcs => GuestHalts \/ h.running
    /\ pc \notin MarkPcs =>
          /\ h.running => row.status = "RUNNING"
          /\ row.status = "RUNNING" => GuestHalts \/ late # {} \/ h.running

\* How far the purge of a failed server has come, if only one host call failed.
PurgeAt(pc, h) ==
    /\ Failed(h)
    /\ pc # "create_pstop" => ~h.running
    /\ pc \in {"create_pumount", "create_premove", "create_pdelete"} => Clean(h) \/ Reliable
    /\ pc \in {"create_premove", "create_pdelete"} => ~h.mounted
    /\ pc = "create_pdelete" => Clean(h)

-----------------------------------------------------------------------------
\* A handler works on a server; one died working on it.
WorksOn(r, id) == req[r].pc \in OtherPcs \cup PurgePcs /\ req[r].id = id
LostOn(id) == \E r \in Requests : req[r].pc = "lost" /\ req[r].id = id
LateOn(id) == {r \in Requests : req[r].pc = "timeout" /\ req[r].id = id}
Served(id) == \E r \in Requests : req[r].pc \in OtherPcs /\ req[r].id = id

RowOK(row, h) ==
    /\ row.status = "INSTALLING" => row.memory = job[row.id].memory /\ row.cpu = job[row.id].cpu
    /\ row.status = "ERROR" => Failed(h)
    /\ row.status \in {"RUNNING", "STOPPED"} =>
          /\ job[row.id].pc = "ended"
          /\ ~h.mounted
          /\ Polite => Whole(h) \/ Clean(h)
          /\ Exact /\ ~LostOn(row.id) /\ ~Served(row.id) =>
                RowAt(LateOn(row.id), "ok", 0, 0, row, h)

\* A handler of an installed server; a polite client has it to itself.
HandlerOK(r, h) ==
    /\ job[req[r].id].pc = "ended"
    /\ ~h.mounted
    /\ Polite => /\ HostAt(req[r].pc, req[r].handle, h)
                 /\ RowsWithId(req[r].id) # {}
                 /\ \A q \in Requests : WorksOn(q, req[r].id) => q = r
    /\ Exact /\ ~LostOn(req[r].id) =>
          \A row \in servers : row.id = req[r].id =>
              RowAt(LateOn(row.id), req[r].pc, req[r].memory, req[r].cpu, row, h)

PurgeOK(r, h) ==
    /\ job[req[r].id].pc \notin UndecidedPcs
    /\ Polite /\ OneFault => PurgeAt(req[r].pc, h)

GoneOK(id, h) ==
    /\ job[id].pc \notin UndecidedPcs
    /\ Polite /\ OneFault => Clean(h)

ServerOK(id, h) ==
    /\ ~(h.mounted /\ h.running)
    /\ Made(job[id], h)
    /\ \A row \in servers : row.id = id => RowOK(row, h)
    /\ RowsWithId(id) = {} => GoneOK(id, h)
    /\ \A r \in Requests : req[r].pc \in OtherPcs /\ req[r].id = id => HandlerOK(r, h)
    /\ \A r \in Requests : req[r].pc \in PurgePcs /\ req[r].id = id => PurgeOK(r, h)

\* A row, and a handler, have the container of the installation.
Links ==
    /\ \A row \in servers : row.sid = job[row.id].sid
    /\ \A r \in Requests : req[r].pc \in OtherPcs \cup PurgePcs
                             => req[r].sid = job[req[r].id].sid

\* A container number nobody has installed on is free.
Fresh ==
    \A sid \in Sids :
        (\A id \in Requests : Spawned(id) => job[id].sid # sid) => host[sid] = Nothing

HInv ==
    /\ Links
    /\ Fresh
    /\ \A id \in Requests : Spawned(id) => ServerOK(id, JobHost(id))

-----------------------------------------------------------------------------
\* What each call leaves of the container.
LEMMA CallFields ==
    ASSUME NEW h \in Containers, NEW c \in Configs
    PROVE  /\ Started(h, c).running /\ Started(h, c).live = c
           /\ ~Stopped(h).running /\ ~Unmounted(h).mounted /\ ~Unmounted(h).bound
           /\ MadeDir(h).dir
           /\ Saved(h, c).config = c
           /\ \A new \in {Started(h, c), Stopped(h), Unmounted(h), Saved(h, c)} : new.dir = h.dir
           /\ \A new \in {Started(h, c), Stopped(h), Unmounted(h), MadeDir(h)} :
                 new.config = h.config
           /\ \A new \in {Started(h, c), Stopped(h), Unmounted(h), MadeDir(h), Saved(h, c)} :
                 new.disk = h.disk
           /\ \A new \in {Started(h, c), Stopped(h), MadeDir(h), Saved(h, c), Removed(h)} :
                 new.mounted = h.mounted /\ new.bound = h.bound
           /\ \A new \in {Unmounted(h), MadeDir(h), Saved(h, c), Removed(h)} :
                 new.running = h.running
           /\ \A new \in {Unmounted(h), MadeDir(h), Saved(h, c)} : new.live = h.live
           /\ Removed(h).config = NoConfig /\ Removed(h).disk = "none"
<1>1. /\ Started(h, c).running /\ Started(h, c).live = c
      /\ Started(h, c).dir = h.dir /\ Started(h, c).config = h.config
      /\ Started(h, c).disk = h.disk /\ Started(h, c).mounted = h.mounted
      /\ Started(h, c).bound = h.bound
  BY DEF Started, Containers
<1>2. /\ ~Stopped(h).running
      /\ Stopped(h).dir = h.dir /\ Stopped(h).config = h.config
      /\ Stopped(h).disk = h.disk /\ Stopped(h).mounted = h.mounted
      /\ Stopped(h).bound = h.bound
  BY DEF Stopped, Containers
<1>3. /\ ~Unmounted(h).mounted /\ ~Unmounted(h).bound
      /\ Unmounted(h).dir = h.dir /\ Unmounted(h).config = h.config
      /\ Unmounted(h).disk = h.disk /\ Unmounted(h).running = h.running
      /\ Unmounted(h).live = h.live
  BY DEF Unmounted, Containers
<1>4. /\ MadeDir(h).dir
      /\ MadeDir(h).config = h.config /\ MadeDir(h).disk = h.disk
      /\ MadeDir(h).mounted = h.mounted /\ MadeDir(h).bound = h.bound
      /\ MadeDir(h).running = h.running
      /\ MadeDir(h).live = h.live
  BY DEF MadeDir, Containers
<1>5. /\ Saved(h, c).config = c
      /\ Saved(h, c).dir = h.dir /\ Saved(h, c).disk = h.disk
      /\ Saved(h, c).mounted = h.mounted /\ Saved(h, c).bound = h.bound
      /\ Saved(h, c).running = h.running
      /\ Saved(h, c).live = h.live
  BY DEF Saved, Containers
<1>6. /\ Removed(h).config = NoConfig /\ Removed(h).disk = "none"
      /\ Removed(h).mounted = h.mounted /\ Removed(h).bound = h.bound
      /\ Removed(h).running = h.running
  BY DEF Removed, Containers
<1>7. QED
  BY <1>1, <1>2, <1>3, <1>4, <1>5, <1>6

\* A container that does not exist.
LEMMA NothingClean == Clean(Nothing) /\ Rooted(Nothing) /\ Nothing \in Containers
<1>1. NoConfig \in Configs
  BY DEF NoConfig, Configs
<1>2. QED
  BY <1>1 DEF Nothing, Clean, Rooted, Defined, Containers

\* Stopping, unmounting, destroying and removing take away, and bring nothing back.
LEMMA CallsShrink ==
    ASSUME NEW h \in Containers
    PROVE  /\ Shrinks(h, h)
           /\ Shrinks(h, Stopped(h))
           /\ Shrinks(h, Unmounted(h))
           /\ Shrinks(h, Removed(h))
           /\ Shrinks(h, Destroyed(h))
<1>1. NoConfig \in Configs
  BY DEF NoConfig, Configs
<1>2. Shrinks(h, h)
  BY DEF Shrinks
<1>3. Shrinks(h, Stopped(h)) /\ Shrinks(h, Unmounted(h)) /\ Shrinks(h, Removed(h))
  BY <1>1, CallFields DEF Shrinks, Clean, Rooted, Defined
<1>4. Shrinks(h, Destroyed(h))
  BY NothingClean DEF Shrinks, Destroyed, Nothing
<1>5. QED
  BY <1>2, <1>3, <1>4

-----------------------------------------------------------------------------
\* The calls a host may still fail run out: a fault is the last if there is one.
LEMMA FaultsRunOut ==
    ASSUME IInv
    PROVE  /\ Works \/ (\E service : Fails(service)) => (Reliable => Reliable')
           /\ Reliable => ~Fails("host")
           /\ OneFault /\ Fails("host") => Reliable'
BY EnvironmentAssumption
   DEF IInv, TypeOK, EnvironmentTypeOK, Works, Fails, Reliable, OneFault

\* What shrinks stays a failed container, at the point its purge has reached.
LEMMA ShrinkKeeps ==
    ASSUME NEW h, NEW new, Shrinks(h, new), Reliable => Reliable'
    PROVE  /\ Failed(h) => Failed(new)'
           /\ \A pc : PurgeAt(pc, h) => PurgeAt(pc, new)'
<1>1. Failed(h) => Failed(new)'
  BY DEF Shrinks, Failed
<1>2. ASSUME NEW pc, PurgeAt(pc, h)
      PROVE  PurgeAt(pc, new)'
  BY <1>1, <1>2 DEF Shrinks, PurgeAt
<1>3. QED
  BY <1>1, <1>2

-----------------------------------------------------------------------------
\* Requests at these points left their server as it was.
LeftPcs == {"lost", "timeout"}

\* A request that works on no server but id, before a step and after it.
Joins(q, id) ==
    /\ req[q].pc \notin LeftPcs /\ req'[q].pc # "lost"
    /\ req[q].pc \in OtherPcs \cup PurgePcs => req[q].id = id
    /\ req'[q].pc \in OtherPcs \cup PurgePcs => req'[q].id = id /\ req'[q].sid = job'[id].sid

\* A step that works on the server id alone.
Only(id) ==
    /\ \A sid \in Sids : sid # job'[id].sid => host'[sid] = host[sid]
    /\ \A k \in Requests : k # id => job'[k] = job[k]
    /\ Spawned(id)'
    /\ Spawned(id) => job'[id].sid = job[id].sid
    /\ \A row : row.id # id => (row \in servers' <=> row \in servers)
    /\ \A row \in servers' : row.id = id => row.sid = job'[id].sid
    /\ \A q \in Requests : req'[q] = req[q] \/ Joins(q, id)
    /\ Reliable => Reliable'

\* A step that leaves the row, the installation and the handlers of a server alone.
Unmoved(k) ==
    /\ job'[k] = job[k]
    /\ \A row : row.id = k => (row \in servers' <=> row \in servers)
    /\ \A q \in Requests : \/ req'[q] = req[q]
                           \/ req[q].pc \notin LeftPcs /\ ~WorksOn(q, k) /\ ~WorksOn(q, k)'
    /\ Reliable => Reliable'

\* Once a request gave up waiting, less is known of the row, and never more again.
LEMMA LateGrows ==
    ASSUME NEW late, NEW more, late # {} => more # {}
    PROVE  \A pc, memory, cpu, row, h :
              RowAt(late, pc, memory, cpu, row, h) => RowAt(more, pc, memory, cpu, row, h)
BY DEF RowAt

\* What was known of that server is known after it.
LEMMA UnmovedKept ==
    ASSUME NEW k \in Requests, Unmoved(k), NEW h \in Containers, ServerOK(k, h)
    PROVE  ServerOK(k, h)'
<1>1. /\ job'[k] = job[k]
      /\ \A row : row.id = k => (row \in servers' <=> row \in servers)
      /\ Reliable => Reliable'
  BY DEF Unmoved
<1>2. ASSUME NEW q \in Requests
      PROVE  /\ req[q].pc \in LeftPcs => req'[q] = req[q]
             /\ WorksOn(q, k) => req'[q] = req[q]
             /\ WorksOn(q, k)' => req'[q] = req[q]
  BY DEF Unmoved
<1>3. /\ LostOn(k) => LostOn(k)'
      /\ Served(k) => Served(k)'
      /\ LateOn(k) # {} => LateOn(k)' # {}
  BY <1>2 DEF LostOn, Served, LateOn, LeftPcs, WorksOn
<1>4. Failed(h) => Failed(h)'
  BY <1>1, CallsShrink, ShrinkKeeps
<1>5. \A pc : PurgeAt(pc, h) => PurgeAt(pc, h)'
  BY <1>1, CallsShrink, ShrinkKeeps
<1>6. Made(job[k], h)'
  <2>1. Made(job[k], h)
    BY DEF ServerOK
  <2>2. ASSUME NEW pc, NEW memory, NEW cpu, MadeAt(pc, memory, cpu, h)
        PROVE  MadeAt(pc, memory, cpu, h)'
    BY <1>1, <1>4, <2>2 DEF MadeAt
  <2>3. QED
    BY <1>1, <2>1, <2>2 DEF Made, Noted
<1>7. (\A row \in servers : row.id = k => RowOK(row, h))'
  <2>1. \A row \in servers' : row.id = k => RowOK(row, h)
    BY <1>1 DEF ServerOK
  <2>2. ASSUME NEW row, row.id = k, RowOK(row, h)
        PROVE  RowOK(row, h)'
    BY <1>1, <1>3, <1>4, <2>2, LateGrows DEF RowOK
  <2>3. QED
    BY <2>1, <2>2
<1>8. (RowsWithId(k) = {} => GoneOK(k, h))'
  <2>1. RowsWithId(k)' = RowsWithId(k)
    BY <1>1 DEF RowsWithId
  <2>2. QED
    BY <1>1, <2>1 DEF ServerOK, GoneOK
<1>9. ASSUME NEW q \in Requests, (req[q].pc \in OtherPcs /\ req[q].id = k)'
      PROVE  HandlerOK(q, h)'
  <2>1. req'[q] = req[q]
    BY <1>2, <1>9 DEF WorksOn
  <2>2. HandlerOK(q, h)
    BY <1>9, <2>1 DEF ServerOK
  <2>3. RowsWithId(k)' = RowsWithId(k)
    BY <1>1 DEF RowsWithId
  <2>4. \A p \in Requests : WorksOn(p, k)' => WorksOn(p, k)
    BY <1>2 DEF WorksOn
  <2>5. QED
    BY <1>1, <1>3, <1>9, <2>1, <2>2, <2>3, <2>4, LateGrows DEF HandlerOK
<1>10. ASSUME NEW q \in Requests, (req[q].pc \in PurgePcs /\ req[q].id = k)'
       PROVE  PurgeOK(q, h)'
  <2>1. req'[q] = req[q]
    BY <1>2, <1>10 DEF WorksOn
  <2>2. PurgeOK(q, h)
    BY <1>10, <2>1 DEF ServerOK
  <2>3. QED
    BY <1>1, <1>5, <1>10, <2>1, <2>2 DEF PurgeOK
<1>11. ~(h.mounted /\ h.running)
  BY DEF ServerOK
<1>12. QED
  BY <1>6, <1>7, <1>8, <1>9, <1>10, <1>11 DEF ServerOK

\* A step that works on one server leaves every other as it was: the invariant
\* holds after it when it holds of that server.
LEMMA Framed ==
    ASSUME IInv, IInv', LInv, HInv, NEW id \in Requests, Only(id),
           ServerOK(id, JobHost(id))'
    PROVE  HInv'
<1>1. ASSUME NEW k \in Requests, k # id, Spawned(k)'
      PROVE  /\ Spawned(k)
             /\ job'[k].sid = job[k].sid
             /\ job[k].sid \in Sids
             /\ job[k].sid # job'[id].sid
             /\ JobHost(k)' = JobHost(k)
  <2>1. job'[k] = job[k] /\ Spawned(k) /\ Spawned(id)'
    BY <1>1 DEF Only, Spawned
  <2>2. job[k].sid \in Sids
    BY <2>1 DEF IInv, JobOK
  <2>3. job'[k].sid # job'[id].sid
    BY <1>1, <2>1 DEF IInv, SidsOK, Drew, SidOf
  <2>4. QED
    BY <2>1, <2>2, <2>3 DEF Only, JobHost
<1>2. ASSUME NEW k \in Requests, Spawned(k)'
      PROVE  ServerOK(k, JobHost(k))'
  <2>1. CASE k # id
    <3>1. PICK h \in Containers : h = JobHost(k)
      BY <1>1, <1>2, <2>1 DEF JobHost, IInv, TypeOK, HostTypeOK
    <3>2. ServerOK(k, h)
      BY <1>1, <1>2, <2>1, <3>1 DEF HInv
    <3>3. Unmoved(k)
      <4>1. \A q \in Requests : Joins(q, id) => /\ req[q].pc \notin LeftPcs
                                               /\ ~WorksOn(q, k) /\ ~WorksOn(q, k)'
        BY <2>1 DEF Joins, WorksOn
      <4>2. QED
        BY <2>1, <4>1 DEF Only, Unmoved
    <3>4. h = JobHost(k)'
      BY <1>1, <1>2, <2>1, <3>1
    <3>5. QED
      BY <3>2, <3>3, <3>4, UnmovedKept
  <2>2. QED
    BY <2>1
<1>3. Links'
  <2>1. ASSUME NEW row \in servers'
        PROVE  row.sid = job'[row.id].sid
    <3>1. CASE row.id # id
      <4>1. row \in servers /\ row.sid = job[row.id].sid
        BY <2>1, <3>1 DEF Only, HInv, Links
      <4>2. row.id \in Requests
        BY <4>1 DEF IInv, TypeOK, StoreTypeOK, Rows
      <4>3. QED
        BY <3>1, <4>1, <4>2 DEF Only
    <3>2. QED
      BY <2>1, <3>1 DEF Only
  <2>2. ASSUME NEW q \in Requests, (req[q].pc \in OtherPcs \cup PurgePcs)'
        PROVE  req'[q].sid = job'[req'[q].id].sid
    <3>1. CASE req'[q] = req[q]
      <4>1. /\ req[q].sid = job[req[q].id].sid
            /\ Spawned(req[q].id)
        BY <2>2, <3>1 DEF HInv, Links, LInv
      <4>2. req[q].id \in Requests
        BY <2>2, <3>1 DEF IInv, CallOK, InFlight, OtherPcs, PurgePcs, HandlerPcs, CreatePcs
      <4>3. QED
        BY <3>1, <4>1, <4>2 DEF Only
    <3>2. QED
      BY <2>2, <3>1 DEF Only, Joins
  <2>3. QED
    BY <2>1, <2>2 DEF Links
<1>4. Fresh'
  <2>1. ASSUME NEW sid \in Sids, \A k \in Requests : Spawned(k)' => job'[k].sid # sid
        PROVE  host'[sid] = Nothing
    <3>1. sid # job'[id].sid
      BY <2>1 DEF Only
    <3>2. \A k \in Requests : Spawned(k) => job[k].sid # sid
      BY <2>1, <3>1 DEF Only, Spawned
    <3>3. QED
      BY <3>1, <3>2 DEF Only, HInv, Fresh
  <2>2. QED
    BY <2>1 DEF Fresh
<1>5. QED
  BY <1>2, <1>3, <1>4 DEF HInv

\* A step that works on no server.
LEMMA IdleHInv ==
    ASSUME IInv, LInv, HInv, UNCHANGED <<servers, host, job>>, Reliable => Reliable',
           \A q \in Requests :
              \/ req'[q] = req[q]
              \/ /\ req[q].pc \notin OtherPcs \cup PurgePcs \cup LeftPcs
                 /\ req'[q].pc \notin OtherPcs \cup PurgePcs
    PROVE  HInv'
<1>1. ASSUME NEW k \in Requests, Spawned(k)'
      PROVE  ServerOK(k, JobHost(k))'
  <2>1. Spawned(k) /\ Unmoved(k) /\ JobHost(k)' = JobHost(k)
    BY <1>1 DEF Spawned, Unmoved, WorksOn, JobHost
  <2>2. PICK h \in Containers : h = JobHost(k)
    BY <2>1 DEF JobHost, IInv, JobOK, TypeOK, HostTypeOK
  <2>3. ServerOK(k, h)
    BY <2>1, <2>2 DEF HInv
  <2>4. h = JobHost(k)'
    BY <2>1, <2>2
  <2>5. QED
    BY <2>1, <2>3, <2>4, UnmovedKept
<1>2. Links'
  BY DEF HInv, Links
<1>3. Fresh'
  BY DEF HInv, Fresh, Spawned
<1>4. QED
  BY <1>1, <1>2, <1>3 DEF HInv

-----------------------------------------------------------------------------
\* The death of the agent: what it had mounted may be unmounted, and all its
\* work on a server is lost.
LEMMA CrashHInv ==
    ASSUME IInv, LInv, HInv, Crash
    PROVE  HInv'
<1>1. ASSUME NEW q \in Requests
      PROVE  \/ req'[q] = req[q] /\ ~InFlight(q)
             \/ InFlight(q) /\ req'[q].pc = "lost" /\ req'[q].id = req[q].id
  <2>1. req[q] \in Calls
    BY CallTypes
  <2>2. /\ [req[q] EXCEPT !.pc = "lost", !.handle = NoConfig].pc = "lost"
        /\ [req[q] EXCEPT !.pc = "lost", !.handle = NoConfig].id = req[q].id
    BY <2>1 DEF Calls
  <2>3. QED
    BY <2>2 DEF Crash
<1>2. ASSUME NEW q \in Requests
      PROVE  ~WorksOn(q, q)' /\ req'[q].pc \notin OtherPcs \cup PurgePcs
  BY <1>1 DEF InFlight, WorksOn, OtherPcs, PurgePcs, HandlerPcs, CreatePcs
<1>3. ASSUME NEW k \in Requests
      PROVE  /\ IF Active(k) THEN job'[k].pc = "lost" ELSE job'[k] = job[k]
             /\ job'[k].sid = job[k].sid
             /\ job'[k].memory = job[k].memory
             /\ job'[k].cpu = job[k].cpu
             /\ Spawned(k)' <=> Spawned(k)
             /\ job'[k].pc \notin ActivePcs
  <2> DEFINE lost == [job[k] EXCEPT !.pc = "lost"]
  <2>1. job[k] \in Jobs
    BY DEF IInv, TypeOK, JobTypeOK
  <2>2. /\ lost.pc = "lost" /\ lost.sid = job[k].sid
        /\ lost.memory = job[k].memory /\ lost.cpu = job[k].cpu
    BY <2>1 DEF Jobs
  <2>3. job'[k] = IF Active(k) THEN lost ELSE job[k]
    BY DEF Crash
  <2> HIDE DEF lost
  <2>4. QED
    BY <2>2, <2>3 DEF Spawned, Active, ActivePcs, InstallPcs, CleanupPcs
<1>4. \A sid \in Sids : host'[sid] \in {host[sid], Unmounted(host[sid])}
  BY DEF Crash, IInv, TypeOK, HostTypeOK
<1>5. UNCHANGED <<faults, servers>>
  BY DEF Crash
<1>6. ASSUME NEW k \in Requests
      PROVE  /\ LostOn(k) \/ Served(k) => LostOn(k)'
             /\ LateOn(k) # {} => LateOn(k)' # {}
  BY <1>1 DEF LostOn, Served, LateOn, InFlight, OtherPcs, HandlerPcs
<1>7. ASSUME NEW k \in Requests, Spawned(k), NEW h \in Containers, ServerOK(k, h),
             NEW new \in {h, Unmounted(h)}
      PROVE  ServerOK(k, new)'
  <2>1. /\ Shrinks(h, new)
        /\ Whole(h) => Whole(new)
        /\ \A late, pc, memory, cpu, row : RowAt(late, pc, memory, cpu, row, h)
                                             => RowAt(late, pc, memory, cpu, row, new)
    <3>1. /\ new.dir = h.dir /\ new.config = h.config /\ new.disk = h.disk
          /\ new.running = h.running /\ new.live = h.live
          /\ new.mounted => h.mounted
      BY DEF Unmounted, Containers
    <3>2. QED
      BY <3>1, CallsShrink DEF Whole, RowAt
  <2>2. Failed(h) => Failed(new)'
    BY <1>5, <2>1, ShrinkKeeps DEF Reliable
  <2>3. ~(new.mounted /\ new.running)
    BY <1>7, <2>1 DEF ServerOK, Shrinks
  <2>4. Made(job[k], new)'
    <3>1. job'[k].pc \notin ActivePcs
      BY <1>3
    <3>2. QED
      BY <3>1 DEF Made, MadeAt, Noted, ActivePcs, InstallPcs, CleanupPcs
  <2>5. ASSUME NEW row \in servers', row.id = k
        PROVE  RowOK(row, new)'
    <3>1. RowOK(row, h)
      BY <1>5, <1>7, <2>5 DEF ServerOK
    <3>2. job[k].pc = "ended" => job'[k] = job[k]
      BY <1>3 DEF Active, ActivePcs, InstallPcs, CleanupPcs
    <3>3. Exact /\ ~LostOn(k)' /\ ~Served(k)' /\ row.status \in {"RUNNING", "STOPPED"}
            => RowAt(LateOn(k)', "ok", 0, 0, row, new)
      BY <1>6, <2>1, <2>5, <3>1, LateGrows DEF RowOK
    <3>4. QED
      BY <1>3, <2>1, <2>2, <2>5, <3>1, <3>2, <3>3 DEF RowOK, Shrinks
  <2>6. (RowsWithId(k) = {} => GoneOK(k, new))'
    <3>1. job'[k].pc \notin UndecidedPcs
      BY <1>3 DEF UndecidedPcs, ActivePcs, CleanupPcs
    <3>2. RowsWithId(k)' = RowsWithId(k)
      BY <1>5 DEF RowsWithId
    <3>3. QED
      BY <1>7, <2>1, <3>1, <3>2 DEF ServerOK, GoneOK, Shrinks
  <2>7. QED
    BY <1>2, <2>3, <2>4, <2>5, <2>6 DEF ServerOK
<1>8. ASSUME NEW k \in Requests, Spawned(k)'
      PROVE  ServerOK(k, JobHost(k))'
  <2>1. Spawned(k) /\ job'[k].sid = job[k].sid /\ job[k].sid \in Sids
    BY <1>3, <1>8 DEF IInv, JobOK
  <2>2. PICK h \in Containers : h = JobHost(k)
    BY <2>1 DEF JobHost, IInv, TypeOK, HostTypeOK
  <2>3. PICK new \in {h, Unmounted(h)} : new = JobHost(k)'
    BY <1>4, <2>1, <2>2 DEF JobHost
  <2>4. ServerOK(k, h)
    BY <2>1, <2>2 DEF HInv
  <2>5. ServerOK(k, new)'
    BY <1>7, <2>1, <2>4
  <2>6. QED
    BY <2>3, <2>5
<1>9. Links'
  <2>1. \A row \in servers : row.id \in Requests
    BY DEF IInv, TypeOK, StoreTypeOK, Rows
  <2>2. QED
    BY <1>2, <1>3, <1>5, <2>1 DEF HInv, Links
<1>10. Fresh'
  <2>1. Unmounted(Nothing) = Nothing
    <3>1. Nothing \in Containers /\ Nothing.mounted = FALSE /\ Nothing.bound = FALSE
      BY NothingClean DEF Nothing
    <3>2. QED
      BY <3>1 DEF Unmounted, Containers
  <2>2. QED
    BY <1>3, <1>4, <2>1 DEF HInv, Fresh
<1>11. QED
  BY <1>8, <1>9, <1>10 DEF HInv

\* A container that powers itself off, which the invariant allows for.
LEMMA HaltHInv ==
    ASSUME IInv, IInv', LInv, HInv, NEW sid \in Sids, GuestHalt(sid)
    PROVE  HInv'
<1>1. PICK id \in Requests : Spawned(id) /\ job[id].sid = sid
  BY DEF HInv, Fresh, GuestHalt, Nothing
<1>2. PICK h \in Containers : h = host[sid]
  BY DEF IInv, TypeOK, HostTypeOK
<1> DEFINE new == Stopped(h)
<1>3. /\ ServerOK(id, h)
      /\ h.running /\ GuestHalts
      /\ UNCHANGED <<faults, servers, job, req>>
  BY <1>1, <1>2 DEF HInv, JobHost, GuestHalt, environment
<1>4. new.dir = h.dir /\ new.config = h.config /\ new.disk = h.disk
      /\ new.mounted = h.mounted /\ new.bound = h.bound /\ ~new.running
  BY CallFields DEF Stopped, Containers
<1>5. Shrinks(h, new)
  BY CallsShrink
<1>6. JobHost(id)' = new /\ \A other \in Sids : other # sid => host'[other] = host[other]
  BY <1>1, <1>2, <1>3 DEF GuestHalt, JobHost, IInv, TypeOK, HostTypeOK
<1> HIDE DEF new
<1>7. /\ Failed(h) => Failed(new)'
      /\ \A pc : PurgeAt(pc, h) => PurgeAt(pc, new)'
  BY <1>3, <1>5, ShrinkKeeps DEF Reliable
<1>8. /\ Whole(h) => Whole(new)
      /\ Clean(h) => Clean(new)
      /\ \A pc, handle : HostAt(pc, handle, h) => HostAt(pc, handle, new)
      /\ \A late, pc, memory, cpu, row : RowAt(late, pc, memory, cpu, row, h)
                                     => RowAt(late, pc, memory, cpu, row, new)
  <2>1. (Whole(h) => Whole(new)) /\ (Clean(h) => Clean(new))
    BY <1>4 DEF Whole, Clean, Defined
  <2>2. \A pc, handle : HostAt(pc, handle, h) => HostAt(pc, handle, new)
    BY <1>4, <2>1 DEF HostAt
  <2>3. \A late, pc, memory, cpu, row : RowAt(late, pc, memory, cpu, row, h)
                                    => RowAt(late, pc, memory, cpu, row, new)
    BY <1>3, <1>4 DEF RowAt
  <2>4. QED
    BY <2>1, <2>2, <2>3
<1>9. ServerOK(id, new)'
  <2>1. Made(job[id], new)'
    <3>1. Made(job[id], h)
      BY <1>3 DEF ServerOK
    <3>2. job[id].pc \notin {"bridge", "create", "disk"}
      <4>1. ~Nothing.running /\ ~Created(Nothing).running
        BY DEF Nothing, Created
      <4>2. QED
        BY <1>3, <3>1, <4>1 DEF Made, MadeAt
    <3>3. QED
      BY <1>3, <1>4, <1>7, <1>8, <3>1, <3>2 DEF Made, MadeAt, Noted, Image, Reliable
  <2>2. ASSUME NEW row \in servers', row.id = id
        PROVE  RowOK(row, new)'
    <3>1. RowOK(row, h)
      BY <1>3, <2>2 DEF ServerOK
    <3>2. /\ LostOn(row.id)' <=> LostOn(row.id)
          /\ Served(row.id)' <=> Served(row.id)
          /\ LateOn(row.id)' = LateOn(row.id)
      BY <1>3 DEF LostOn, Served, LateOn
    <3>3. QED
      BY <1>3, <1>4, <1>7, <1>8, <3>1, <3>2 DEF RowOK
  <2>3. (RowsWithId(id) = {} => GoneOK(id, new))'
    BY <1>3, <1>8 DEF ServerOK, GoneOK, RowsWithId
  <2>4. ASSUME NEW q \in Requests, (req[q].pc \in OtherPcs /\ req[q].id = id)'
        PROVE  HandlerOK(q, new)'
    <3>1. HandlerOK(q, h)
      BY <1>3, <2>4 DEF ServerOK
    <3>2. /\ LostOn(id)' <=> LostOn(id)
          /\ LateOn(id)' = LateOn(id)
          /\ RowsWithId(id)' = RowsWithId(id)
          /\ \A p \in Requests : WorksOn(p, id)' <=> WorksOn(p, id)
      BY <1>3 DEF LostOn, LateOn, RowsWithId, WorksOn
    <3>3. QED
      BY <1>3, <1>4, <1>8, <2>4, <3>1, <3>2 DEF HandlerOK
  <2>5. ASSUME NEW q \in Requests, (req[q].pc \in PurgePcs /\ req[q].id = id)'
        PROVE  PurgeOK(q, new)'
    <3>1. PurgeOK(q, h)
      BY <1>3, <2>5 DEF ServerOK
    <3>2. QED
      BY <1>3, <1>7, <3>1 DEF PurgeOK
  <2>6. ~(new.mounted /\ new.running)
    BY <1>4
  <2>7. QED
    BY <2>1, <2>2, <2>3, <2>4, <2>5, <2>6 DEF ServerOK
<1>10. Only(id)
  <2>1. \A row \in servers : row.sid = job[row.id].sid
    BY DEF HInv, Links
  <2>2. QED
    BY <1>1, <1>3, <1>6, <2>1 DEF Only, Spawned, Reliable
<1>11. QED
  BY <1>6, <1>9, <1>10, Framed

-----------------------------------------------------------------------------
\* A new server gets a container number that nobody has installed on.
LEMMA InsertHInv ==
    ASSUME IInv, IInv', LInv, HInv, NEW r \in Requests, CreateInsert(r)
    PROVE  HInv'
<1>1. /\ req[r].pc = "create_insert"
      /\ req[r].sid \in Sids
      /\ ~Spawned(r)
      /\ req \in [Requests -> Calls] /\ job \in [Requests -> Jobs]
      /\ UNCHANGED host
  BY DEF CreateInsert, IInv, CallOK, CreatePcs, InFlight, HandlerPcs, TypeOK, ReqTypeOK,
         JobTypeOK
<1>2. Reliable => Reliable'
  BY FaultsRunOut DEF CreateInsert
<1>3. /\ \A q \in Requests \ {r} : req'[q] = req[q]
      /\ req'[r].pc \in {"ok", "error"}
  <2>1. req[r] \in Calls
    BY <1>1
  <2>2. \A pc : Goto(r, pc) => /\ \A q \in Requests \ {r} : req'[q] = req[q]
                               /\ req'[r].pc = pc
    BY <1>1, <2>1 DEF Goto, Calls
  <2>3. QED
    BY <2>2 DEF CreateInsert
<1>4. /\ req'[r].pc \notin OtherPcs \cup PurgePcs \cup {"lost"}
      /\ req[r].pc \notin OtherPcs \cup PurgePcs \cup LeftPcs
  BY <1>1, <1>3 DEF OtherPcs, PurgePcs, HandlerPcs, CreatePcs, LeftPcs
<1>5. CASE UNCHANGED <<servers, job>>
  BY <1>1, <1>2, <1>3, <1>4, <1>5, IdleHInv
<1> DEFINE row == [id |-> r, sid |-> req[r].sid, name |-> req[r].name,
                   memory |-> req[r].memory, cpu |-> req[r].cpu, status |-> "INSTALLING"]
<1>6. CASE MayInsert(row) /\ Insert(row) /\ Spawn(r, req[r].sid, req[r].memory, req[r].cpu)
  <2>1. /\ job'[r].pc = "bridge"
        /\ job'[r].sid = req[r].sid
        /\ job'[r].memory = req[r].memory
        /\ job'[r].cpu = req[r].cpu
        /\ \A q \in Requests : q # r => job'[q] = job[q]
    BY <1>1, <1>6 DEF Spawn
  <2>2. /\ row.id = r /\ row.sid = req[r].sid
        /\ row.memory = req[r].memory /\ row.cpu = req[r].cpu /\ row.status = "INSTALLING"
    OBVIOUS
  <2> HIDE DEF row
  <2>3. servers' = servers \cup {row} /\ \A old \in servers : old.id # r
    BY <1>6, <2>2 DEF Insert, MayInsert
  <2>4. host[req[r].sid] = Nothing
    <3>1. \A id \in Requests : Spawned(id) => job[id].sid # req[r].sid
      BY <1>1 DEF IInv, SidsOK, Drew, SidOf
    <3>2. QED
      BY <1>1, <3>1 DEF HInv, Fresh
  <2>5. JobHost(r)' = Nothing
    BY <1>1, <2>1, <2>4 DEF JobHost
  <2>6. \A q \in Requests : ~WorksOn(q, r)'
    <3>1. \A q \in Requests : req[q].pc \in OtherPcs \cup PurgePcs => req[q].id # r
      BY <1>1 DEF LInv
    <3>2. QED
      BY <1>3, <1>4, <3>1 DEF WorksOn
  <2>7. ServerOK(r, Nothing)'
    <3>1. Made(job[r], Nothing)'
      BY <2>1 DEF Made, MadeAt, Noted, Nothing
    <3>2. ASSUME NEW new \in servers', new.id = r
          PROVE  RowOK(new, Nothing)'
      BY <2>1, <2>2, <2>3, <3>2 DEF RowOK
    <3>3. RowsWithId(r)' # {}
      BY <2>2, <2>3 DEF RowsWithId
    <3>4. ~Nothing.mounted
      BY DEF Nothing
    <3>5. QED
      BY <2>6, <3>1, <3>2, <3>3, <3>4 DEF ServerOK, WorksOn
  <2>8. Only(r)
    <3>1. Joins(r, r)
      BY <1>4 DEF Joins
    <3>2. Spawned(r)'
      BY <2>1 DEF Spawned
    <3>3. QED
      BY <1>1, <1>2, <1>3, <2>1, <2>2, <2>3, <3>1, <3>2 DEF Only
  <2>9. QED
    BY <2>5, <2>7, <2>8, Framed
<1>7. QED
  BY <1>5, <1>6 DEF CreateInsert

-----------------------------------------------------------------------------
\* The points at which the handlers of an installed server begin.
EntryPcs == {"start_running", "stop_running", "restart_load", "update_running", "delete_running"}

\* A request finds its server: an installed one, which a polite client finds
\* free, or a failed one to purge.
Seeks(r) ==
    /\ req[r].pc = "new"
    /\ \E call \in Calls :
          /\ req' = [req EXCEPT ![r] = call]
          /\ call.pc # "lost"
          /\ call.pc \in OtherPcs => /\ call.pc \in EntryPcs
                                     /\ Orderly => RowsAre(call.id, {"RUNNING", "STOPPED"})
                                     /\ Polite => ~Engaged(call.id)
          /\ call.pc \in PurgePcs => /\ call.pc = "create_pstop"
                                     /\ RowsAre(call.id, {"ERROR"})
          /\ call.pc \in OtherPcs \cup PurgePcs =>
                \E row \in servers : row.id = call.id /\ row.sid = call.sid
    /\ UNCHANGED <<servers, host, job>>
    /\ Reliable => Reliable'

\* A lookup by uuid.
LEMMA LookupSeeks ==
    ASSUME IInv, NEW r \in Requests, NEW op \in AllOps, NEW id \in Requests,
           NEW memory \in Memories \cup {0}, NEW cpu \in Cpus \cup {0},
           NEW next \in EntryPcs, Lookup(r, op, id, memory, cpu, next)
    PROVE  Seeks(r)
<1> DEFINE asked == [Idle EXCEPT !.op = op, !.id = id, !.memory = memory, !.cpu = cpu]
<1>1. asked \in Calls /\ asked.id = id
  BY DEF Idle, Calls, Configs, NoConfig
<1>2. next \in HandlerPcs /\ next \notin CreatePcs /\ next \notin PurgePcs /\ next # "lost"
  BY DEF EntryPcs, HandlerPcs, CreatePcs, PurgePcs
<1>3. \/ \E row \in servers :
            row.id = id /\ req' = [req EXCEPT ![r] = [asked EXCEPT !.pc = next, !.sid = row.sid]]
      \/ req' = [req EXCEPT ![r] = [asked EXCEPT !.pc = "notfound"]]
  BY DEF Lookup, RowsWithId
<1>4. /\ req[r].pc = "new"
      /\ RowsAre(id, {"RUNNING", "STOPPED"}) \/ ~Orderly
      /\ Polite => ~Engaged(id)
      /\ UNCHANGED <<servers, host, job>>
      /\ Reliable => Reliable'
  BY FaultsRunOut DEF Lookup, MayTarget, RowsWithId, RowsAre, Orderly, Polite
<1> HIDE DEF asked
<1>5. ASSUME NEW row \in servers, row.id = id,
             req' = [req EXCEPT ![r] = [asked EXCEPT !.pc = next, !.sid = row.sid]]
      PROVE  Seeks(r)
  <2> DEFINE call == [asked EXCEPT !.pc = next, !.sid = row.sid]
  <2>1. row.sid \in Sids
    BY DEF IInv, TypeOK, StoreTypeOK, Rows
  <2>2. call \in Calls /\ call.pc = next /\ call.id = id /\ call.sid = row.sid
    BY <1>1, <1>2, <2>1 DEF Calls
  <2>3. req' = [req EXCEPT ![r] = call]
    BY <1>5
  <2> HIDE DEF call
  <2>4. QED
    BY <1>2, <1>4, <1>5, <2>2, <2>3 DEF Seeks
<1>6. ASSUME req' = [req EXCEPT ![r] = [asked EXCEPT !.pc = "notfound"]]
      PROVE  Seeks(r)
  <2> DEFINE call == [asked EXCEPT !.pc = "notfound"]
  <2>1. call \in Calls /\ call.pc = "notfound"
    BY <1>1 DEF Calls, Answers
  <2>2. req' = [req EXCEPT ![r] = call]
    BY <1>6
  <2> HIDE DEF call
  <2>3. call.pc \notin OtherPcs \cup PurgePcs
    BY <2>1 DEF OtherPcs, PurgePcs, HandlerPcs, CreatePcs
  <2>4. QED
    BY <1>4, <2>1, <2>2, <2>3 DEF Seeks
<1>7. QED
  BY <1>3, <1>5, <1>6

\* A request that is rejected seeks nothing.
LEMMA RejectSeeks ==
    ASSUME IInv, NEW r \in Requests, CreateReject(r) \/ UpdateReject(r)
    PROVE  Seeks(r)
<1>1. PICK op \in AllOps : req' = [req EXCEPT ![r] = [Idle EXCEPT !.op = op, !.pc = "bad"]]
  BY DEF CreateReject, UpdateReject, AllOps
<1> DEFINE call == [Idle EXCEPT !.op = op, !.pc = "bad"]
<1>2. call \in Calls /\ call.pc = "bad"
  BY DEF Idle, Calls, Configs, NoConfig, Answers
<1>3. req' = [req EXCEPT ![r] = call]
  BY <1>1
<1> HIDE DEF call
<1>4. Reliable => Reliable'
  BY FaultsRunOut DEF CreateReject, UpdateReject
<1>5. QED
  BY <1>2, <1>3, <1>4 DEF CreateReject, UpdateReject, Seeks, OtherPcs, PurgePcs, HandlerPcs,
                          CreatePcs

\* A create request looks its name up.
LEMMA CreateLookupSeeks ==
    ASSUME IInv, NEW r \in Requests, NEW name \in Names, NEW memory \in Memories,
           NEW cpu \in Cpus, CreateLookup(r, name, memory, cpu)
    PROVE  Seeks(r)
<1> DEFINE asked == [Idle EXCEPT !.op = "create", !.id = r, !.name = name,
                                 !.memory = memory, !.cpu = cpu]
<1>1. asked \in Calls
  BY DEF Idle, Calls, Configs, NoConfig, AllOps
<1>2. \/ \E row \in servers : /\ row.status = "ERROR"
                              /\ req' = [req EXCEPT ![r] = [asked EXCEPT !.pc = "create_pstop",
                                                             !.id = row.id, !.sid = row.sid]]
      \/ \E pc \in {"bad", "create_incr"} : req' = [req EXCEPT ![r] = [asked EXCEPT !.pc = pc]]
  BY DEF CreateLookup, Purgeable
<1>3. /\ req[r].pc = "new"
      /\ UNCHANGED <<servers, host, job>>
      /\ Reliable => Reliable'
  BY FaultsRunOut DEF CreateLookup
<1> HIDE DEF asked
<1>4. ASSUME NEW row \in servers, row.status = "ERROR",
             req' = [req EXCEPT ![r] = [asked EXCEPT !.pc = "create_pstop", !.id = row.id,
                                                     !.sid = row.sid]]
      PROVE  Seeks(r)
  <2> DEFINE call == [asked EXCEPT !.pc = "create_pstop", !.id = row.id, !.sid = row.sid]
  <2>1. row.sid \in Sids /\ row.id \in Requests
    BY DEF IInv, TypeOK, StoreTypeOK, Rows
  <2>2. /\ call \in Calls /\ call.pc = "create_pstop"
        /\ call.id = row.id /\ call.sid = row.sid
    <3>1. "create_pstop" \in HandlerPcs
      BY DEF HandlerPcs
    <3>2. QED
      BY <1>1, <2>1, <3>1 DEF Calls
  <2>3. req' = [req EXCEPT ![r] = call]
    BY <1>4
  <2> HIDE DEF call
  <2>4. RowsAre(row.id, {"ERROR"})
    BY <1>4 DEF IInv, RowsUnique, RowsAre
  <2>5. call.pc \notin OtherPcs /\ call.pc # "lost"
    BY <2>2 DEF OtherPcs, HandlerPcs, CreatePcs
  <2>6. QED
    BY <1>3, <2>2, <2>3, <2>4, <2>5 DEF Seeks
<1>5. ASSUME NEW pc \in {"bad", "create_incr"}, req' = [req EXCEPT ![r] = [asked EXCEPT !.pc = pc]]
      PROVE  Seeks(r)
  <2> DEFINE call == [asked EXCEPT !.pc = pc]
  <2>1. call \in Calls /\ call.pc = pc
    <3>1. pc \in Answers \cup HandlerPcs
      BY DEF Answers, HandlerPcs
    <3>2. QED
      BY <1>1, <3>1 DEF Calls
  <2>2. req' = [req EXCEPT ![r] = call]
    BY <1>5
  <2> HIDE DEF call
  <2>3. call.pc \notin OtherPcs \cup PurgePcs \cup {"lost"}
    BY <2>1 DEF OtherPcs, PurgePcs, HandlerPcs, CreatePcs
  <2>4. QED
    BY <1>3, <2>1, <2>2, <2>3 DEF Seeks
<1>6. QED
  BY <1>2, <1>4, <1>5

\* What a request finds is what the invariant says of a server at rest, or of a
\* failed one.
LEMMA SeeksHInv ==
    ASSUME IInv, IInv', LInv, HInv, Orderly, NEW r \in Requests, Seeks(r)
    PROVE  HInv'
<1>1. PICK call \in Calls :
          /\ req' = [req EXCEPT ![r] = call]
          /\ call.pc # "lost"
          /\ call.pc \in OtherPcs => /\ call.pc \in EntryPcs
                                     /\ Orderly => RowsAre(call.id, {"RUNNING", "STOPPED"})
                                     /\ Polite => ~Engaged(call.id)
          /\ call.pc \in PurgePcs => /\ call.pc = "create_pstop"
                                     /\ RowsAre(call.id, {"ERROR"})
          /\ call.pc \in OtherPcs \cup PurgePcs =>
                \E row \in servers : row.id = call.id /\ row.sid = call.sid
  BY DEF Seeks
<1>2. /\ req[r].pc = "new"
      /\ UNCHANGED <<servers, host, job>>
      /\ Reliable => Reliable'
      /\ \A q \in Requests : q # r => req'[q] = req[q]
      /\ req'[r] = call
  BY <1>1 DEF Seeks, IInv, TypeOK, ReqTypeOK
<1>3. req[r].pc \notin OtherPcs \cup PurgePcs \cup LeftPcs
  BY <1>2 DEF OtherPcs, PurgePcs, HandlerPcs, CreatePcs, LeftPcs
<1>4. CASE call.pc \notin OtherPcs \cup PurgePcs
  BY <1>2, <1>3, <1>4, IdleHInv
<1>5. CASE call.pc \in OtherPcs \cup PurgePcs
  <2>1. PICK id \in Requests : id = call.id
    BY <1>1, <1>5 DEF IInv, TypeOK, StoreTypeOK, Rows
  <2>2. PICK row \in servers : row.id = id /\ row.sid = call.sid
    BY <1>1, <1>5, <2>1
  <2>3. Spawned(id) /\ job[id].sid = call.sid /\ job[id].sid \in Sids
    BY <2>1, <2>2 DEF LInv, HInv, Links, IInv, JobOK
  <2>4. PICK h \in Containers : h = JobHost(id)
    BY <2>3 DEF JobHost, IInv, TypeOK, HostTypeOK
  <2>5. ServerOK(id, h) /\ RowOK(row, h)
    BY <2>2, <2>3, <2>4 DEF HInv, ServerOK
  <2>6. /\ LostOn(id)' <=> LostOn(id)
        /\ Served(id) => Served(id)'
        /\ Spawned(id)'
        /\ RowsWithId(id)' = RowsWithId(id) /\ RowsWithId(id) # {}
        /\ LateOn(id) # {} => LateOn(id)' # {}
    BY <1>1, <1>2, <1>3, <2>2, <2>3 DEF LostOn, Served, Spawned, RowsWithId, LateOn, LeftPcs
  <2>7. Shrinks(h, h)
    BY CallsShrink
  <2>8. /\ Failed(h) => Failed(h)'
        /\ \A pc : PurgeAt(pc, h) => PurgeAt(pc, h)'
    BY <1>2, <2>7, ShrinkKeeps
  <2>9. Made(job[id], h)'
    BY <1>2, <2>5, <2>8 DEF ServerOK, Made, MadeAt
  <2>10. ASSUME NEW other \in servers', other.id = id
         PROVE  RowOK(other, h)'
    <3>1. RowOK(other, h)
      BY <1>2, <2>5, <2>10 DEF ServerOK
    <3>2. QED
      BY <1>2, <2>6, <2>8, <2>10, <3>1, LateGrows DEF RowOK
  <2>11. ASSUME call.pc \in OtherPcs
         PROVE  /\ \A q \in Requests : Polite => ~WorksOn(q, id)
                /\ HandlerOK(r, h)'
    <3>1. row.status \in {"RUNNING", "STOPPED"}
      BY <1>1, <2>1, <2>2, <2>11 DEF RowsAre
    <3>2. \A q \in Requests : Polite => ~WorksOn(q, id)
      BY <1>1, <2>1, <2>11
         DEF Engaged, InFlight, WorksOn, OtherPcs, PurgePcs, HandlerPcs, CreatePcs
    <3>3. Polite => ~Served(id)
      BY <3>2 DEF Served, WorksOn
    <3>4. job[id].pc = "ended" /\ ~h.mounted /\ (Polite => Whole(h) \/ Clean(h))
      BY <2>2, <2>5, <3>1 DEF RowOK
    <3>5. Polite => HostAt(call.pc, call.handle, h)
      BY <1>1, <2>11, <3>4 DEF HostAt, EntryPcs
    <3>6. ASSUME Exact, ~LostOn(id), NEW other \in servers, other.id = id
          PROVE  RowAt(LateOn(id)', call.pc, call.memory, call.cpu, other, h)
      <4>1. other.status \in {"RUNNING", "STOPPED"}
        BY <1>1, <2>1, <2>11, <3>6 DEF RowsAre
      <4>2. RowAt(LateOn(id)', "ok", 0, 0, other, h)
        BY <2>5, <2>6, <3>3, <3>6, <4>1, LateGrows DEF ServerOK, RowOK, Exact
      <4>3. QED
        BY <1>1, <2>11, <4>2 DEF RowAt, EntryPcs, DownPcs, UpPcs, MarkPcs
    <3>7. \A q \in Requests : Polite /\ WorksOn(q, id)' => q = r
      BY <1>2, <3>2 DEF WorksOn
    <3>8. QED
      BY <1>2, <2>1, <2>6, <3>2, <3>4, <3>5, <3>6, <3>7 DEF HandlerOK
  <2>12. ASSUME call.pc \in PurgePcs
         PROVE  /\ \A q \in Requests : Polite => ~(req[q].pc \in OtherPcs /\ req[q].id = id)
                /\ PurgeOK(r, h)'
    <3>1. row.status = "ERROR"
      BY <1>1, <2>1, <2>2, <2>12 DEF RowsAre
    <3>2. Failed(h) /\ job[id].pc \notin UndecidedPcs
      BY <2>2, <2>5, <3>1 DEF RowOK, LInv, Decided
    <3>3. PurgeAt("create_pstop", h)
      BY <3>2 DEF PurgeAt
    <3>4. \A q \in Requests : ~(req[q].pc \in OtherPcs /\ req[q].id = id)
      BY <2>2, <3>1 DEF LInv, KnowsRows, RowsAre
    <3>5. QED
      BY <1>1, <1>2, <2>1, <2>8, <2>12, <3>2, <3>3, <3>4 DEF PurgeOK
  <2>13. ASSUME NEW q \in Requests, (req[q].pc \in OtherPcs /\ req[q].id = id)'
         PROVE  HandlerOK(q, h)'
    <3>1. CASE q = r
      BY <1>2, <2>11, <2>13, <3>1
    <3>2. CASE q # r
      <4>1. HandlerOK(q, h) /\ WorksOn(q, id)
        BY <1>2, <2>5, <2>13, <3>2 DEF ServerOK, WorksOn
      <4>2. ~Polite
        BY <1>2, <1>5, <2>11, <2>12, <2>13, <3>2, <4>1
      <4>3. QED
        BY <1>2, <2>13, <3>2, <4>1, <4>2 DEF HandlerOK, Exact
    <3>3. QED
      BY <3>1, <3>2
  <2>14. ASSUME NEW q \in Requests, (req[q].pc \in PurgePcs /\ req[q].id = id)'
         PROVE  PurgeOK(q, h)'
    <3>1. CASE q = r
      BY <1>2, <2>12, <2>14, <3>1
    <3>2. CASE q # r
      <4>1. PurgeOK(q, h)
        BY <1>2, <2>5, <2>14, <3>2 DEF ServerOK
      <4>2. QED
        BY <1>2, <2>8, <2>14, <3>2, <4>1 DEF PurgeOK
    <3>3. QED
      BY <3>1, <3>2
  <2>15. ServerOK(id, h)'
    <3>1. ~(h.mounted /\ h.running)
      BY <2>5 DEF ServerOK
    <3>2. QED
      BY <2>6, <2>9, <2>10, <2>13, <2>14, <3>1 DEF ServerOK
  <2>16. Only(id)
    <3>1. Joins(r, id)
      BY <1>1, <1>2, <1>3, <2>1, <2>3 DEF Joins
    <3>2. \A other \in servers : other.sid = job[other.id].sid
      BY DEF HInv, Links
    <3>3. QED
      BY <1>2, <2>6, <3>1, <3>2 DEF Only
  <2>17. h = JobHost(id)'
    BY <1>2, <2>4 DEF JobHost
  <2>18. QED
    BY <2>15, <2>16, <2>17, Framed
<1>6. QED
  BY <1>4, <1>5

-----------------------------------------------------------------------------
\* A statement on the rows of a server touches no other row and moves no
\* container.
LEMMA RowsChangeOnly ==
    ASSUME servers \subseteq Rows, NEW id, NEW statuses, RowsChange(id, statuses)
    PROVE  /\ \A row : row.id # id => (row \in servers' <=> row \in servers)
           /\ \A new \in servers' : \E row \in servers : row.id = new.id /\ row.sid = new.sid
<1>1. CASE UNCHANGED servers
  BY <1>1
<1>2. ASSUME NEW status, UpdateStatus(id, status)
      PROVE  /\ \A row : row.id # id => (row \in servers' <=> row \in servers)
             /\ \A new \in servers' : \E row \in servers : row.id = new.id /\ row.sid = new.sid
  <2> DEFINE New(row) == IF row.id = id THEN [row EXCEPT !.status = status] ELSE row
  <2>1. servers' = {New(row) : row \in servers}
    BY <1>2 DEF UpdateStatus
  <2>2. \A row \in servers : /\ New(row).id = row.id /\ New(row).sid = row.sid
                             /\ row.id # id => New(row) = row
    BY DEF Rows
  <2> HIDE DEF New
  <2>3. QED
    BY <2>1, <2>2
<1>3. ASSUME NEW memory, NEW cpu, UpdateLimits(id, memory, cpu)
      PROVE  /\ \A row : row.id # id => (row \in servers' <=> row \in servers)
             /\ \A new \in servers' : \E row \in servers : row.id = new.id /\ row.sid = new.sid
  <2> DEFINE New(row) == IF row.id = id
                           THEN [row EXCEPT !.memory = Given(memory, @), !.cpu = Given(cpu, @)]
                           ELSE row
  <2>1. servers' = {New(row) : row \in servers}
    BY <1>3 DEF UpdateLimits
  <2>2. \A row \in servers : /\ New(row).id = row.id /\ New(row).sid = row.sid
                             /\ row.id # id => New(row) = row
    BY DEF Rows
  <2> HIDE DEF New
  <2>3. QED
    BY <2>1, <2>2
<1>4. CASE DeleteRow(id)
  BY <1>4 DEF DeleteRow, RowsWithId
<1>5. QED
  BY <1>1, <1>2, <1>3, <1>4 DEF RowsChange

\* A step of a handler of an installed server that leaves the container and the
\* row as the point it goes on at says.
Moves(r) ==
    /\ req[r].pc \in OtherPcs
    /\ \E pc \in OtherPcs \cup Answers, handle \in Configs, new \in Containers :
          /\ req' = [req EXCEPT ![r].pc = pc, ![r].handle = handle]
          /\ host' = [host EXCEPT ![req[r].sid] = new]
          /\ ~new.mounted
          /\ Polite => HostAt(pc, handle, new)
          /\ Exact /\ ~LostOn(req[r].id) =>
                \A row \in servers' : row.id = req[r].id =>
                    RowAt(LateOn(row.id), pc, req[r].memory, req[r].cpu, row, new)
          /\ \/ \E row \in servers' : row.id = req[r].id
             \/ RowsWithId(req[r].id) = {}
             \/ pc \in Answers /\ (Polite => Clean(new))
    /\ RowsChange(req[r].id, {"RUNNING", "STOPPED"})
    /\ UNCHANGED job
    /\ Reliable => Reliable'

\* What a handler works on, when it is at work.
LEMMA HandlerKnows ==
    ASSUME IInv, LInv, HInv, NEW r \in Requests, req[r].pc \in OtherPcs
    PROVE  /\ req[r].id \in Requests /\ Spawned(req[r].id)
           /\ req[r].sid \in Sids /\ req[r].sid = job[req[r].id].sid
           /\ ReqHost(r) \in Containers /\ ReqHost(r) = JobHost(req[r].id)
           /\ ServerOK(req[r].id, ReqHost(r))
           /\ HandlerOK(r, ReqHost(r))
           /\ WorksOn(r, req[r].id)
           /\ host' = [host EXCEPT ![req[r].sid] = ReqHost(r)] <=> UNCHANGED host
<1>1. InFlight(r) /\ req[r].pc # "create_incr"
  BY DEF InFlight, OtherPcs, CreatePcs
<1>2. req[r].id \in Requests /\ Spawned(req[r].id) /\ req[r].sid \in Sids
  BY <1>1 DEF LInv, IInv, CallOK
<1>3. req[r].sid = job[req[r].id].sid
  BY DEF HInv, Links
<1>4. ReqHost(r) \in Containers /\ ReqHost(r) = JobHost(req[r].id)
  BY <1>2, <1>3 DEF ReqHost, JobHost, IInv, TypeOK, HostTypeOK
<1>5. ServerOK(req[r].id, ReqHost(r))
  BY <1>2, <1>4 DEF HInv
<1>6. HandlerOK(r, ReqHost(r))
  BY <1>2, <1>5 DEF ServerOK
<1>7. WorksOn(r, req[r].id)
  BY DEF WorksOn
<1>8. host' = [host EXCEPT ![req[r].sid] = ReqHost(r)] <=> UNCHANGED host
  BY DEF ReqHost, IInv, TypeOK, HostTypeOK
<1>9. QED
  BY <1>2, <1>3, <1>4, <1>5, <1>6, <1>7, <1>8

\* Such a step keeps the invariant: a polite client's handler has its server to
\* itself, and any handler leaves the image unmounted.
LEMMA MovesHInv ==
    ASSUME IInv, IInv', LInv, HInv, Orderly, NEW r \in Requests, Moves(r)
    PROVE  HInv'
<1>1. PICK id \in Requests : id = req[r].id
  BY HandlerKnows DEF Moves
<1>2. PICK h \in Containers : h = ReqHost(r)
  BY HandlerKnows DEF Moves
<1>3. /\ Spawned(id) /\ req[r].sid = job[id].sid /\ job[id].sid \in Sids
      /\ ServerOK(id, h) /\ HandlerOK(r, h) /\ WorksOn(r, id) /\ req[r].pc \in OtherPcs
  BY <1>1, <1>2, HandlerKnows DEF Moves
<1>4. PICK pc \in OtherPcs \cup Answers, handle \in Configs, new \in Containers :
          /\ req' = [req EXCEPT ![r].pc = pc, ![r].handle = handle]
          /\ host' = [host EXCEPT ![req[r].sid] = new]
          /\ ~new.mounted
          /\ Polite => HostAt(pc, handle, new)
          /\ Exact /\ ~LostOn(id) =>
                \A row \in servers' : row.id = id =>
                    RowAt(LateOn(id), pc, req[r].memory, req[r].cpu, row, new)
          /\ \/ \E row \in servers' : row.id = id
             \/ RowsWithId(id) = {}
             \/ pc \in Answers /\ (Polite => Clean(new))
  BY <1>1 DEF Moves
<1>5. /\ \A q \in Requests : q # r => req'[q] = req[q]
      /\ req'[r].pc = pc /\ req'[r].handle = handle
      /\ req'[r].id = id /\ req'[r].sid = req[r].sid
      /\ req'[r].memory = req[r].memory /\ req'[r].cpu = req[r].cpu
  BY <1>1, <1>4, CallTypes DEF IInv, TypeOK, ReqTypeOK, Calls
<1>6. /\ \A sid \in Sids : sid # job[id].sid => host'[sid] = host[sid]
      /\ JobHost(id)' = new
      /\ UNCHANGED job
      /\ Reliable => Reliable'
  BY <1>3, <1>4 DEF Moves, JobHost, IInv, TypeOK, HostTypeOK
<1>7. /\ \A row : row.id # id => (row \in servers' <=> row \in servers)
      /\ \A row \in servers' : \E old \in servers : old.id = row.id /\ old.sid = row.sid
  BY <1>1, RowsChangeOnly DEF Moves, IInv, TypeOK, StoreTypeOK
<1>8. ASSUME NEW row \in servers', row.id = id
      PROVE  row.status \in {"RUNNING", "STOPPED"}
  <2>1. PICK old \in servers :
           /\ old.id = row.id
           /\ row.status = old.status \/ (row.id = id /\ row.status \in {"RUNNING", "STOPPED"})
    BY <1>1, RowsChangeKeys DEF Moves, IInv, TypeOK, StoreTypeOK, Statuses
  <2>2. RowsAre(id, {"RUNNING", "STOPPED"})
    BY <1>1, <1>3 DEF LInv, KnowsRows
  <2>3. QED
    BY <1>8, <2>1, <2>2 DEF RowsAre
<1>9. /\ pc # "lost" /\ req[r].pc \notin LeftPcs
      /\ pc \notin PurgePcs /\ req[r].pc \notin PurgePcs
      /\ pc \in Answers => pc \notin OtherPcs
  BY <1>3 DEF OtherPcs, PurgePcs, HandlerPcs, CreatePcs, Answers, LeftPcs
<1>10. /\ LostOn(id)' <=> LostOn(id)
       /\ LateOn(id) # {} \/ pc = "timeout" => LateOn(id)' # {}
  BY <1>5, <1>9 DEF LostOn, LateOn, LeftPcs
<1>11. job[id].pc = "ended" /\ job'[id] = job[id]
  BY <1>1, <1>3, <1>6 DEF HandlerOK
<1>12. ASSUME Polite, NEW q \in Requests, WorksOn(q, id)'
       PROVE  q = r
  <2>1. q # r => WorksOn(q, id)
    BY <1>5, <1>12 DEF WorksOn
  <2>2. QED
    BY <1>1, <1>3, <1>12, <2>1 DEF HandlerOK
<1>13. Made(job[id], new)'
  BY <1>11 DEF Made, MadeAt, Noted, ActivePcs, InstallPcs, CleanupPcs
<1>14. ASSUME NEW row \in servers', row.id = id
       PROVE  RowOK(row, new)'
  <2>1. Polite => Whole(new) \/ Clean(new)
    BY <1>4 DEF HostAt
  <2>2. ASSUME Exact, ~LostOn(id)', ~Served(id)'
        PROVE  RowAt(LateOn(id)', "ok", 0, 0, row, new)
    <3>1. pc \in Answers
      BY <1>4, <1>5, <2>2 DEF Served
    <3>2. RowAt(LateOn(id)', pc, req[r].memory, req[r].cpu, row, new)
      BY <1>4, <1>10, <1>14, <2>2, LateGrows
    <3>3. QED
      BY <1>10, <3>1, <3>2 DEF RowAt, Answers, DownPcs, UpPcs, MarkPcs
  <2>3. QED
    BY <1>4, <1>8, <1>11, <1>14, <2>1, <2>2 DEF RowOK
<1>15. (RowsWithId(id) = {} => GoneOK(id, new))'
  <2>1. job'[id].pc \notin UndecidedPcs
    BY <1>11 DEF UndecidedPcs, InstallPcs
  <2>2. Polite => RowsWithId(id) # {}
    BY <1>1, <1>3 DEF HandlerOK
  <2>3. QED
    BY <1>4, <2>1, <2>2 DEF GoneOK, RowsWithId
<1>16. ASSUME NEW q \in Requests, (req[q].pc \in OtherPcs /\ req[q].id = id)'
       PROVE  HandlerOK(q, new)'
  <2>1. q # r => ~Polite
    BY <1>12, <1>16 DEF WorksOn
  <2>2. ASSUME q = r, Polite
        PROVE  HostAt(pc, handle, new) /\ RowsWithId(id)' # {}
    <3>1. pc \in OtherPcs
      BY <1>5, <1>16, <2>2
    <3>2. RowsWithId(id) # {}
      BY <1>1, <1>3, <2>2 DEF HandlerOK
    <3>3. QED
      BY <1>4, <1>9, <2>2, <3>1, <3>2 DEF RowsWithId
  <2>3. ASSUME q = r, Exact, ~LostOn(id)', NEW row \in servers', row.id = id
        PROVE  RowAt(LateOn(id)', pc, req'[r].memory, req'[r].cpu, row, new)
    BY <1>4, <1>5, <1>10, <2>3, LateGrows
  <2>4. QED
    BY <1>4, <1>5, <1>11, <1>12, <1>16, <2>1, <2>2, <2>3 DEF HandlerOK, Exact
<1>17. ASSUME NEW q \in Requests, (req[q].pc \in PurgePcs /\ req[q].id = id)'
       PROVE  PurgeOK(q, new)'
  <2>1. q # r /\ WorksOn(q, id)'
    BY <1>5, <1>9, <1>17 DEF WorksOn
  <2>2. job'[id].pc \notin UndecidedPcs
    BY <1>11 DEF UndecidedPcs, InstallPcs
  <2>3. QED
    BY <1>12, <1>17, <2>1, <2>2 DEF PurgeOK
<1>18. ServerOK(id, new)'
  BY <1>4, <1>13, <1>14, <1>15, <1>16, <1>17 DEF ServerOK
<1>19. Only(id)
  <2>1. Joins(r, id)
    BY <1>1, <1>3, <1>5, <1>6, <1>9 DEF Joins
  <2>2. ASSUME NEW row \in servers', row.id = id
        PROVE  row.sid = job'[id].sid
    BY <1>6, <1>7, <2>2 DEF HInv, Links
  <2>3. QED
    BY <1>3, <1>5, <1>6, <1>7, <2>1, <2>2 DEF Only, Spawned
<1>20. QED
  BY <1>6, <1>18, <1>19, Framed

-----------------------------------------------------------------------------
\* What a handler does to the container at one point bears out what it claims
\* at the next, of the container and of any row that agreed with it.
Sound(r, pc, handle, new) ==
    /\ ~ReqHost(r).mounted => ~new.mounted
    /\ Polite /\ HostAt(req[r].pc, req[r].handle, ReqHost(r)) =>
          /\ HostAt(pc, handle, new)
          /\ \A late : \A row \in Rows :
                RowAt(late, req[r].pc, req[r].memory, req[r].cpu, row, ReqHost(r))
                  => RowAt(late, pc, req[r].memory, req[r].cpu, row, new)

\* The points at which the container and the row differ for a moment.
OddPcs == MarkPcs \cup {"update_write", "delete_remove", "delete_row"}

\* A sound step that leaves the rows alone.
LEMMA SoundMoves ==
    ASSUME IInv, LInv, HInv, NEW r \in Requests, req[r].pc \in OtherPcs,
           NEW pc \in OtherPcs \cup Answers, NEW handle \in Configs, NEW new \in Containers,
           req' = [req EXCEPT ![r].pc = pc, ![r].handle = handle],
           host' = [host EXCEPT ![req[r].sid] = new],
           UNCHANGED <<servers, job>>, Reliable => Reliable', Sound(r, pc, handle, new)
    PROVE  Moves(r)
<1>1. PICK id \in Requests : id = req[r].id
  BY HandlerKnows
<1>2. HandlerOK(r, ReqHost(r))
  BY HandlerKnows
<1>3. ~new.mounted /\ (Polite => HostAt(pc, handle, new))
  BY <1>2 DEF HandlerOK, Sound
<1>4. ASSUME Exact, ~LostOn(id), NEW row \in servers', row.id = id
      PROVE  RowAt(LateOn(id), pc, req[r].memory, req[r].cpu, row, new)
  <2>1. row \in servers /\ row \in Rows
    BY <1>4 DEF IInv, TypeOK, StoreTypeOK
  <2>2. RowAt(LateOn(id), req[r].pc, req[r].memory, req[r].cpu, row, ReqHost(r))
    BY <1>1, <1>2, <1>4, <2>1 DEF HandlerOK
  <2>3. QED
    BY <1>2, <1>4, <2>1, <2>2 DEF HandlerOK, Sound, Exact
<1>5. (\E row \in servers' : row.id = id) \/ RowsWithId(id) = {}
  BY DEF RowsWithId
<1>6. RowsChange(req[r].id, {"RUNNING", "STOPPED"})
  BY DEF RowsChange
<1>7. QED
  BY <1>1, <1>3, <1>4, <1>5, <1>6 DEF Moves

\* The same for a step that keeps its handle, or releases it to answer.
LEMMA GotoMoves ==
    ASSUME IInv, LInv, HInv, NEW r \in Requests, req[r].pc \in OtherPcs,
           NEW pc \in OtherPcs \cup Answers, NEW new \in Containers, Goto(r, pc),
           host' = [host EXCEPT ![req[r].sid] = new],
           UNCHANGED <<servers, job>>, Reliable => Reliable', Sound(r, pc, req[r].handle, new)
    PROVE  Moves(r)
<1> DEFINE handle == IF pc \in Answers THEN NoConfig ELSE req[r].handle
<1>1. handle \in Configs
  BY CallTypes DEF Configs, NoConfig
<1>2. req' = [req EXCEPT ![r].pc = pc, ![r].handle = handle]
  BY CallTypes DEF Goto, IInv, TypeOK, ReqTypeOK, Calls
<1>3. Sound(r, pc, handle, new)
  BY DEF Sound, HostAt, Answers
<1> HIDE DEF handle
<1>4. QED
  BY <1>1, <1>2, <1>3, SoundMoves

\* An error may be answered wherever the row and the container agree, with the
\* directory made or not.
LEMMA ErrorSound ==
    ASSUME IInv, LInv, HInv, NEW r \in Requests, req[r].pc \in OtherPcs \ OddPcs,
           NEW pc \in Answers \ {"timeout"}, NEW handle
    PROVE  /\ Sound(r, pc, handle, ReqHost(r))
           /\ Sound(r, pc, handle, MadeDir(ReqHost(r)))
<1>1. PICK h \in Containers : h = ReqHost(r)
  BY HandlerKnows
<1>2. PICK new \in Containers : new = MadeDir(h)
  BY DEF MadeDir, Containers
<1>3. /\ new.dir /\ new.config = h.config /\ new.disk = h.disk
      /\ new.mounted = h.mounted /\ new.bound = h.bound
      /\ new.running = h.running /\ new.live = h.live
  BY <1>2 DEF MadeDir, Containers
<1>4. (Whole(h) => Whole(new)) /\ (Clean(h) => Clean(new))
  BY <1>3 DEF Whole, Clean, Defined
<1>5. \A at \in {h, new} : HostAt(req[r].pc, req[r].handle, h) => HostAt(pc, handle, at)
  BY <1>4 DEF HostAt, Answers
<1>6. ASSUME NEW at \in {h, new}, NEW late, NEW row,
             RowAt(late, req[r].pc, req[r].memory, req[r].cpu, row, h)
      PROVE  RowAt(late, pc, req[r].memory, req[r].cpu, row, at)
  BY <1>3, <1>6 DEF RowAt, OddPcs, MarkPcs, DownPcs, UpPcs, Answers
<1>7. QED
  BY <1>1, <1>2, <1>3, <1>5, <1>6 DEF Sound

\* A question is sound when it leads on soundly.
LEMMA AskMoves ==
    ASSUME IInv, LInv, HInv, NEW r \in Requests, NEW pc \in OtherPcs,
           NEW next \in OtherPcs \cup Answers, Ask(r, pc, next),
           Sound(r, next, req[r].handle, ReqHost(r))
    PROVE  Moves(r)
BY HandlerKnows, GotoMoves, FaultsRunOut DEF Ask

\* A question to a new handle, which may not be given.
LEMMA OpenAndAskMoves ==
    ASSUME IInv, LInv, HInv, NEW r \in Requests, NEW pc \in OtherPcs \ OddPcs,
           NEW next \in OtherPcs \cup Answers, OpenAndAsk(r, pc, next),
           Sound(r, next, req[r].handle, ReqHost(r))
    PROVE  Moves(r)
<1>1. CASE Ask(r, pc, next)
  BY <1>1, AskMoves
<1>2. CASE /\ req[r].pc = pc
           /\ Fails("host")
           /\ Goto(r, "error")
           /\ UNCHANGED <<servers, lxcId, host, job>>
  <2>1. "error" \in Answers \ {"timeout"}
    BY DEF Answers
  <2>2. Sound(r, "error", req[r].handle, ReqHost(r))
    BY <1>2, <2>1, ErrorSound
  <2>3. QED
    BY <1>2, <2>1, <2>2, HandlerKnows, GotoMoves, FaultsRunOut
<1>3. QED
  BY <1>1, <1>2 DEF OpenAndAsk

\* A call on the container that leads on soundly when it succeeds.
LEMMA HostCallMoves ==
    ASSUME IInv, LInv, HInv, NEW r \in Requests, NEW pc \in OtherPcs \ OddPcs, NEW can,
           NEW new \in Containers, NEW next \in OtherPcs \cup Answers,
           HostCall(r, pc, can, new, next), can => Sound(r, next, req[r].handle, new)
    PROVE  Moves(r)
<1>1. "error" \in Answers \ {"timeout"}
  BY DEF Answers
<1>2. req[r].pc = pc /\ UNCHANGED <<servers, job>> /\ (Reliable => Reliable')
  BY FaultsRunOut DEF HostCall
<1>3. CASE can /\ host' = [host EXCEPT ![req[r].sid] = new] /\ Goto(r, next)
  BY <1>2, <1>3, GotoMoves
<1>4. CASE UNCHANGED host /\ Goto(r, "error")
  <2>1. Sound(r, "error", req[r].handle, ReqHost(r))
    BY <1>1, <1>2, ErrorSound
  <2>2. QED
    BY <1>1, <1>2, <1>4, <2>1, HandlerKnows, GotoMoves
<1>5. QED
  BY <1>3, <1>4 DEF HostCall

\* Loading the config file, in a directory made first or not.
LEMMA LoadConfigMoves ==
    ASSUME IInv, LInv, HInv, NEW r \in Requests, NEW pc \in OtherPcs \ OddPcs,
           NEW ready \in {ReqHost(r), MadeDir(ReqHost(r))}, NEW next \in OtherPcs \cup Answers,
           LoadConfig(r, pc, ready, next),
           Defined(ReqHost(r)) => Sound(r, next, ReqHost(r).config, ready)
    PROVE  Moves(r)
<1>1. "error" \in Answers \ {"timeout"}
  BY DEF Answers
<1>2. req[r].pc = pc /\ UNCHANGED <<servers, job>> /\ (Reliable => Reliable')
  BY FaultsRunOut DEF LoadConfig
<1>3. ReqHost(r) \in Containers /\ MadeDir(ReqHost(r)) \in Containers
  <2>1. ReqHost(r) \in Containers
    BY <1>2, HandlerKnows
  <2>2. ReqHost(r).config \in Configs
    BY <2>1 DEF Containers
  <2>3. QED
    BY <2>1, <2>2, ContainerTypes
<1>4. ReqHost(r).config \in Configs
  BY <1>3 DEF Containers
<1>5. CASE /\ Defined(ReqHost(r))
           /\ host' = [host EXCEPT ![req[r].sid] = ready]
           /\ req' = [req EXCEPT ![r].pc = next, ![r].handle = ReqHost(r).config]
  BY <1>2, <1>3, <1>4, <1>5, SoundMoves
<1>6. ASSUME NEW left \in {ReqHost(r), MadeDir(ReqHost(r))},
             host' = [host EXCEPT ![req[r].sid] = left], Goto(r, "error")
      PROVE  Moves(r)
  <2>1. Sound(r, "error", req[r].handle, left)
    BY <1>1, <1>2, ErrorSound
  <2>2. QED
    BY <1>1, <1>2, <1>3, <1>6, <2>1, GotoMoves
<1>7. QED
  BY <1>5, <1>6 DEF LoadConfig

\* A call whose error is ignored leads on soundly either way.
LEMMA AttemptMoves ==
    ASSUME IInv, LInv, HInv, NEW r \in Requests, NEW pc \in OtherPcs, NEW called, NEW can,
           NEW new \in Containers, NEW next \in OtherPcs \cup Answers,
           Attempt(r, pc, called, can, new, next),
           Sound(r, next, req[r].handle, new), Sound(r, next, req[r].handle, ReqHost(r))
    PROVE  Moves(r)
<1>1. req[r].pc = pc /\ Goto(r, next) /\ UNCHANGED <<servers, job>> /\ (Reliable => Reliable')
  BY FaultsRunOut DEF Attempt, IgnoringErrors
<1>2. CASE host' = [host EXCEPT ![req[r].sid] = new]
  BY <1>1, <1>2, GotoMoves
<1>3. CASE UNCHANGED host
  BY <1>1, <1>3, HandlerKnows, GotoMoves
<1>4. QED
  BY <1>2, <1>3 DEF Attempt, IgnoringErrors

-----------------------------------------------------------------------------
\* A statement that leads on soundly when it succeeds, to which an error may be
\* the answer only where statements are lost.
LEMMA StatementMoves ==
    ASSUME IInv, LInv, HInv, NEW r \in Requests, req[r].pc \in OtherPcs,
           NEW next \in OtherPcs \cup Answers, UNCHANGED <<host, job>>,
           \/ /\ Works
              /\ Goto(r, next)
              /\ RowsChange(req[r].id, {"RUNNING", "STOPPED"})
              /\ Polite => HostAt(next, req[r].handle, ReqHost(r))
              /\ Exact /\ ~LostOn(req[r].id) =>
                    \A row \in servers' : row.id = req[r].id =>
                        RowAt(LateOn(row.id), next, req[r].memory, req[r].cpu, row, ReqHost(r))
              /\ \/ \E row \in servers' : row.id = req[r].id
                 \/ RowsWithId(req[r].id) = {}
                 \/ next \in Answers /\ (Polite => Clean(ReqHost(r)))
           \/ Fails("db") /\ UNCHANGED servers /\ Goto(r, "error")
    PROVE  Moves(r)
<1>1. PICK id \in Requests : id = req[r].id
  BY HandlerKnows
<1>2. PICK h \in Containers : h = ReqHost(r)
  BY HandlerKnows
<1>3. HandlerOK(r, h) /\ host' = [host EXCEPT ![req[r].sid] = h]
  BY <1>2, HandlerKnows
<1>4. Reliable => Reliable'
  BY FaultsRunOut
<1>5. ASSUME NEW pc \in OtherPcs \cup Answers, Goto(r, pc)
      PROVE  \E handle \in Configs :
                /\ req' = [req EXCEPT ![r].pc = pc, ![r].handle = handle]
                /\ HostAt(pc, req[r].handle, h) => HostAt(pc, handle, h)
  <2> DEFINE handle == IF pc \in Answers THEN NoConfig ELSE req[r].handle
  <2>1. handle \in Configs
    BY CallTypes DEF Configs, NoConfig
  <2>2. req' = [req EXCEPT ![r].pc = pc, ![r].handle = handle]
    BY <1>5, CallTypes DEF Goto, IInv, TypeOK, ReqTypeOK, Calls
  <2>3. HostAt(pc, req[r].handle, h) => HostAt(pc, handle, h)
    BY DEF HostAt, Answers
  <2> HIDE DEF handle
  <2>4. QED
    BY <2>1, <2>2, <2>3
<1>6. CASE /\ Goto(r, next)
           /\ RowsChange(id, {"RUNNING", "STOPPED"})
           /\ Polite => HostAt(next, req[r].handle, h)
           /\ Exact /\ ~LostOn(id) =>
                 \A row \in servers' : row.id = id =>
                     RowAt(LateOn(row.id), next, req[r].memory, req[r].cpu, row, h)
           /\ \/ \E row \in servers' : row.id = id
              \/ RowsWithId(id) = {}
              \/ next \in Answers /\ (Polite => Clean(h))
  <2>1. PICK handle \in Configs :
           /\ req' = [req EXCEPT ![r].pc = next, ![r].handle = handle]
           /\ HostAt(next, req[r].handle, h) => HostAt(next, handle, h)
    BY <1>5, <1>6
  <2>2. ~h.mounted
    BY <1>3 DEF HandlerOK
  <2>3. QED
    BY <1>1, <1>3, <1>4, <1>6, <2>1, <2>2 DEF Moves
<1>7. CASE Fails("db") /\ UNCHANGED servers /\ Goto(r, "error")
  <2>1. "error" \in Answers /\ "error" \in OtherPcs \cup Answers
    BY DEF Answers
  <2>2. PICK handle \in Configs :
           /\ req' = [req EXCEPT ![r].pc = "error", ![r].handle = handle]
           /\ HostAt("error", req[r].handle, h) => HostAt("error", handle, h)
    BY <1>5, <1>7, <2>1
  <2>3. ~h.mounted /\ (Polite => HostAt("error", req[r].handle, h))
    BY <1>3 DEF HandlerOK, HostAt
  <2>4. ~Exact
    BY <1>7 DEF Exact, Fails
  <2>5. (\E row \in servers' : row.id = id) \/ RowsWithId(id) = {}
    BY <1>7 DEF RowsWithId
  <2>6. RowsChange(id, {"RUNNING", "STOPPED"})
    BY <1>7 DEF RowsChange
  <2>7. QED
    BY <1>1, <1>3, <1>4, <2>1, <2>2, <2>3, <2>4, <2>5, <2>6 DEF Moves
<1>8. QED
  BY <1>1, <1>2, <1>6, <1>7

\* Updating the status of the row, after the container was started or stopped.
LEMMA MarkMoves ==
    ASSUME IInv, LInv, HInv, NEW r \in Requests, NEW pc \in OtherPcs,
           NEW status \in {"RUNNING", "STOPPED"}, NEW next \in OtherPcs \cup Answers,
           Mark(r, pc, status, next),
           Polite /\ HostAt(pc, req[r].handle, ReqHost(r)) =>
              HostAt(next, req[r].handle, ReqHost(r)),
           \A late : \A row \in Rows : \A new \in Rows :
              /\ RowAt(late, pc, req[r].memory, req[r].cpu, row, ReqHost(r))
              /\ new.memory = row.memory /\ new.cpu = row.cpu /\ new.status = status
              => RowAt(late, next, req[r].memory, req[r].cpu, new, ReqHost(r))
    PROVE  Moves(r)
<1>1. PICK id \in Requests : id = req[r].id
  BY HandlerKnows DEF Mark, Statement
<1>2. /\ req[r].pc = pc
      /\ UNCHANGED <<host, job>>
      /\ \/ Works /\ UpdateStatus(id, status) /\ Goto(r, next)
         \/ Fails("db") /\ UNCHANGED servers /\ Goto(r, "error")
  BY <1>1 DEF Mark, Statement
<1>3. HandlerOK(r, ReqHost(r))
  BY <1>2, HandlerKnows
<1>4. CASE Works /\ UpdateStatus(id, status) /\ Goto(r, next)
  <2>1. RowsChange(id, {"RUNNING", "STOPPED"})
    BY <1>4 DEF RowsChange
  <2>2. Polite => HostAt(next, req[r].handle, ReqHost(r))
    BY <1>2, <1>3 DEF HandlerOK
  <2> DEFINE New(row) == IF row.id = id THEN [row EXCEPT !.status = status] ELSE row
  <2>3. servers' = {New(row) : row \in servers}
    BY <1>4 DEF UpdateStatus
  <2>4. \A row \in servers : /\ row \in Rows /\ New(row) \in Rows
                             /\ New(row).id = row.id
                             /\ New(row).memory = row.memory /\ New(row).cpu = row.cpu
                             /\ row.id = id => New(row).status = status
    BY DEF IInv, TypeOK, StoreTypeOK, Rows, Statuses
  <2> HIDE DEF New
  <2>5. ASSUME Exact, ~LostOn(id), NEW new \in servers', new.id = id
        PROVE  RowAt(LateOn(id), next, req[r].memory, req[r].cpu, new, ReqHost(r))
    <3>1. PICK row \in servers : new = New(row)
      BY <2>3, <2>5
    <3>2. RowAt(LateOn(id), pc, req[r].memory, req[r].cpu, row, ReqHost(r))
      BY <1>1, <1>2, <1>3, <2>4, <2>5, <3>1 DEF HandlerOK
    <3>3. QED
      BY <2>4, <2>5, <3>1, <3>2
  <2>6. (\E row \in servers' : row.id = id) \/ RowsWithId(id) = {}
    BY <2>3, <2>4 DEF RowsWithId
  <2>7. QED
    BY <1>1, <1>2, <1>4, <2>1, <2>2, <2>5, <2>6, StatementMoves
<1>5. CASE Fails("db") /\ UNCHANGED servers /\ Goto(r, "error")
  BY <1>2, <1>5, StatementMoves
<1>6. QED
  BY <1>2, <1>4, <1>5

-----------------------------------------------------------------------------
\* Stopping is sound wherever a running container is no longer expected.
LEMMA StoppedSound ==
    ASSUME IInv, LInv, HInv, NEW r \in Requests,
           req[r].pc \in {"stop_stop", "update_stop", "delete_stop"},
           NEW pc \in {"stop_mark", "update_wait", "delete_wait"}
    PROVE  /\ Stopped(ReqHost(r)) \in Containers
           /\ Sound(r, pc, req[r].handle, Stopped(ReqHost(r)))
<1>1. req[r].pc \in OtherPcs
  BY DEF OtherPcs, HandlerPcs, CreatePcs
<1>2. PICK h \in Containers : h = ReqHost(r)
  BY <1>1, HandlerKnows
<1>3. PICK new : new = Stopped(h)
  OBVIOUS
<1>4. /\ ~new.running /\ new.dir = h.dir /\ new.config = h.config
      /\ new.disk = h.disk /\ new.mounted = h.mounted /\ new.bound = h.bound
  BY <1>3 DEF Stopped, Containers
<1>5. new \in Containers
  <2>1. NoConfig \in Configs
    BY DEF NoConfig, Configs
  <2>2. QED
    BY <1>3, <2>1, ContainerTypes
<1>6. HostAt(req[r].pc, req[r].handle, h) => HostAt(pc, req[r].handle, new)
  BY <1>4 DEF HostAt, Whole, Clean, Defined
<1>7. \A late, memory, cpu, row :
        RowAt(late, req[r].pc, memory, cpu, row, h) => RowAt(late, pc, memory, cpu, row, new)
  BY <1>4 DEF RowAt, MarkPcs, UpPcs
<1>8. QED
  BY <1>2, <1>3, <1>4, <1>5, <1>6, <1>7 DEF Sound

\* So is starting, with the config of the container.
LEMMA StartedSound ==
    ASSUME IInv, LInv, HInv, NEW r \in Requests, req[r].pc \in {"start_start", "update_start"},
           NEW pc \in {"start_mark", "update_mark"}
    PROVE  /\ Started(ReqHost(r), req[r].handle) \in Containers
           /\ Sound(r, pc, req[r].handle, Started(ReqHost(r), req[r].handle))
<1>1. req[r].pc \in OtherPcs
  BY DEF OtherPcs, HandlerPcs, CreatePcs
<1>2. PICK h \in Containers : h = ReqHost(r)
  BY <1>1, HandlerKnows
<1>3. PICK handle \in Configs : handle = req[r].handle
  BY CallTypes
<1>4. PICK new \in Containers : new = Started(h, handle)
  BY ContainerTypes
<1>5. /\ new.running /\ new.live = handle
      /\ new.dir = h.dir /\ new.config = h.config
      /\ new.disk = h.disk /\ new.mounted = h.mounted
  BY <1>4 DEF Started, Containers
<1>6. HostAt(req[r].pc, handle, h) => HostAt(pc, handle, new) /\ new.live = new.config
  BY <1>5 DEF HostAt, Whole
<1>7. \A late, memory, cpu, row :
         RowAt(late, req[r].pc, memory, cpu, row, h) /\ new.live = new.config
           => RowAt(late, pc, memory, cpu, row, new)
  BY <1>5 DEF RowAt, DownPcs, UpPcs, MarkPcs
<1>8. QED
  BY <1>2, <1>3, <1>4, <1>5, <1>6, <1>7 DEF Sound

\* Waiting for it to have stopped says nothing new, except that a wait in vain is
\* answered with the container stopped and the status as it was.
LEMMA WaitMoves ==
    ASSUME IInv, LInv, HInv, NEW r \in Requests,
           \/ WaitStopped(r, "update_wait", "update_stopped")
           \/ WaitStopped(r, "delete_wait", "delete_stopped")
    PROVE  Moves(r)
<1>1. PICK pc \in {"update_stopped", "delete_stopped", "timeout"} :
         /\ Goto(r, pc)
         /\ \/ req[r].pc = "update_wait" /\ pc \in {"update_stopped", "timeout"}
            \/ req[r].pc = "delete_wait" /\ pc \in {"delete_stopped", "timeout"}
  BY DEF WaitStopped
<1>2. /\ UNCHANGED <<servers, host, job>>
      /\ Reliable => Reliable'
  BY FaultsRunOut DEF WaitStopped
<1>3. req[r].pc \in OtherPcs /\ pc \in OtherPcs \cup Answers
  BY <1>1 DEF OtherPcs, HandlerPcs, CreatePcs, Answers
<1>4. PICK h \in Containers : h = ReqHost(r)
  BY <1>3, HandlerKnows
<1>5. HostAt(req[r].pc, req[r].handle, h) => HostAt(pc, req[r].handle, h)
  BY <1>1 DEF HostAt
<1>6. \A late, memory, cpu, row :
        RowAt(late, req[r].pc, memory, cpu, row, h) => RowAt(late, pc, memory, cpu, row, h)
  BY <1>1 DEF RowAt, DownPcs, UpPcs, MarkPcs
<1>7. Sound(r, pc, req[r].handle, h)
  BY <1>4, <1>5, <1>6 DEF Sound
<1>8. host' = [host EXCEPT ![req[r].sid] = h]
  BY <1>2, <1>3, <1>4, HandlerKnows
<1>9. QED
  BY <1>1, <1>2, <1>3, <1>7, <1>8, GotoMoves

\* StartServer: the container runs with the config that was loaded.
LEMMA StartMoves ==
    ASSUME IInv, LInv, HInv, NEW r \in Requests,
           StartRunning(r) \/ StartDisk(r) \/ StartLoad(r) \/ StartStart(r) \/ StartMark(r)
    PROVE  Moves(r)
<1>1. CASE StartRunning(r)
  <2> DEFINE next == IF ReqHost(r).running THEN "bad" ELSE "start_disk"
  <2>1. OpenAndAsk(r, "start_running", next) /\ req[r].pc = "start_running"
    BY <1>1 DEF StartRunning, OpenAndAsk, Ask
  <2>2. /\ "start_running" \in OtherPcs \ OddPcs
        /\ next \in OtherPcs \cup Answers
    BY DEF OtherPcs, OddPcs, MarkPcs, HandlerPcs, CreatePcs, Answers
  <2>3. Sound(r, next, req[r].handle, ReqHost(r))
    BY <2>1 DEF Sound, HostAt, RowAt, DownPcs, UpPcs, MarkPcs
  <2> HIDE DEF next
  <2>4. QED
    BY <2>1, <2>2, <2>3, OpenAndAskMoves
<1>2. CASE StartDisk(r)
  <2> DEFINE next == IF ReqHost(r).disk = "none" THEN "error" ELSE "start_load"
  <2>1. Ask(r, "start_disk", next) /\ req[r].pc = "start_disk"
    BY <1>2 DEF StartDisk, Ask
  <2>2. /\ "start_disk" \in OtherPcs
        /\ next \in OtherPcs \cup Answers
    BY DEF OtherPcs, HandlerPcs, CreatePcs, Answers
  <2>3. Sound(r, next, req[r].handle, ReqHost(r))
    BY <2>1 DEF Sound, HostAt, RowAt, DownPcs, UpPcs, MarkPcs
  <2> HIDE DEF next
  <2>4. QED
    BY <2>1, <2>2, <2>3, AskMoves
<1>3. CASE StartLoad(r)
  <2>1. /\ LoadConfig(r, "start_load", MadeDir(ReqHost(r)), "start_start")
        /\ req[r].pc = "start_load"
    BY <1>3 DEF StartLoad, LoadConfig
  <2>2. /\ "start_load" \in OtherPcs \ OddPcs
        /\ "start_start" \in OtherPcs \cup Answers
    BY DEF OtherPcs, OddPcs, MarkPcs, HandlerPcs, CreatePcs
  <2>3. PICK h \in Containers : h = ReqHost(r)
    BY <2>1, <2>2, HandlerKnows
  <2>4. PICK new : new = MadeDir(h)
    OBVIOUS
  <2>5. /\ new.dir /\ new.config = h.config /\ new.disk = h.disk
        /\ new.mounted = h.mounted /\ new.running = h.running /\ new.live = h.live
    BY <2>4 DEF MadeDir, Containers
  <2>6. Defined(h) => Sound(r, "start_start", h.config, new)
    <3>1. Defined(h) /\ HostAt("start_load", req[r].handle, h)
            => HostAt("start_start", h.config, new)
      BY <2>5 DEF HostAt, Whole, Clean
    <3>2. \A late, memory, cpu, row : RowAt(late, "start_load", memory, cpu, row, h)
                                  => RowAt(late, "start_start", memory, cpu, row, new)
      BY <2>5 DEF RowAt, DownPcs, UpPcs, MarkPcs
    <3>3. QED
      BY <2>1, <2>3, <2>5, <3>1, <3>2 DEF Sound
  <2>7. QED
    BY <2>1, <2>2, <2>3, <2>4, <2>6, LoadConfigMoves
<1>4. CASE StartStart(r)
  <2>1. req[r].pc = "start_start"
    BY <1>4 DEF StartStart, HostCall
  <2>2. /\ "start_start" \in OtherPcs \ OddPcs
        /\ "start_mark" \in OtherPcs \cup Answers
    BY DEF OtherPcs, OddPcs, MarkPcs, HandlerPcs, CreatePcs
  <2>3. PICK new \in Containers : new = Started(ReqHost(r), req[r].handle)
    BY <2>1, StartedSound
  <2>4. Sound(r, "start_mark", req[r].handle, new)
    BY <2>1, <2>3, StartedSound
  <2>5. HostCall(r, "start_start", CanStart(ReqHost(r), req[r].handle), new, "start_mark")
    BY <1>4, <2>3 DEF StartStart
  <2>6. QED
    BY <2>2, <2>4, <2>5, HostCallMoves
<1>5. CASE StartMark(r)
  <2>1. "start_mark" \in OtherPcs /\ "ok" \in OtherPcs \cup Answers
    BY DEF OtherPcs, HandlerPcs, CreatePcs, Answers
  <2>2. HostAt("start_mark", req[r].handle, ReqHost(r)) => HostAt("ok", req[r].handle, ReqHost(r))
    BY DEF HostAt
  <2>3. ASSUME NEW late, NEW row \in Rows, NEW new \in Rows,
               RowAt(late, "start_mark", req[r].memory, req[r].cpu, row, ReqHost(r)),
               new.memory = row.memory, new.cpu = row.cpu, new.status = "RUNNING"
        PROVE  RowAt(late, "ok", req[r].memory, req[r].cpu, new, ReqHost(r))
    BY <2>3 DEF RowAt, DownPcs, UpPcs, MarkPcs
  <2>4. QED
    BY <1>5, <2>1, <2>2, <2>3, MarkMoves DEF StartMark
<1>6. QED
  BY <1>1, <1>2, <1>3, <1>4, <1>5

\* StopServer: the container is stopped before its row says so.
LEMMA StopMoves ==
    ASSUME IInv, LInv, HInv, NEW r \in Requests, StopRunning(r) \/ StopStop(r) \/ StopMark(r)
    PROVE  Moves(r)
<1>1. CASE StopRunning(r)
  <2> DEFINE next == IF ReqHost(r).running THEN "stop_stop" ELSE "bad"
  <2>1. OpenAndAsk(r, "stop_running", next) /\ req[r].pc = "stop_running"
    BY <1>1 DEF StopRunning, OpenAndAsk, Ask
  <2>2. /\ "stop_running" \in OtherPcs \ OddPcs
        /\ next \in OtherPcs \cup Answers
    BY DEF OtherPcs, OddPcs, MarkPcs, HandlerPcs, CreatePcs, Answers
  <2>3. Sound(r, next, req[r].handle, ReqHost(r))
    BY <2>1 DEF Sound, HostAt, RowAt, DownPcs, UpPcs, MarkPcs
  <2> HIDE DEF next
  <2>4. QED
    BY <2>1, <2>2, <2>3, OpenAndAskMoves
<1>2. CASE StopStop(r)
  <2>1. req[r].pc = "stop_stop"
    BY <1>2 DEF StopStop, HostCall
  <2>2. /\ "stop_stop" \in OtherPcs \ OddPcs
        /\ "stop_mark" \in OtherPcs \cup Answers
    BY DEF OtherPcs, OddPcs, MarkPcs, HandlerPcs, CreatePcs
  <2>3. PICK new \in Containers : new = Stopped(ReqHost(r))
    BY <2>1, StoppedSound
  <2>4. Sound(r, "stop_mark", req[r].handle, new)
    BY <2>1, <2>3, StoppedSound
  <2>5. HostCall(r, "stop_stop", CanStop(ReqHost(r)), new, "stop_mark")
    BY <1>2, <2>3 DEF StopStop
  <2>6. QED
    BY <2>2, <2>4, <2>5, HostCallMoves
<1>3. CASE StopMark(r)
  <2>1. "stop_mark" \in OtherPcs /\ "ok" \in OtherPcs \cup Answers
    BY DEF OtherPcs, HandlerPcs, CreatePcs, Answers
  <2>2. HostAt("stop_mark", req[r].handle, ReqHost(r)) => HostAt("ok", req[r].handle, ReqHost(r))
    BY DEF HostAt
  <2>3. ASSUME NEW late, NEW row \in Rows, NEW new \in Rows,
               RowAt(late, "stop_mark", req[r].memory, req[r].cpu, row, ReqHost(r)),
               new.memory = row.memory, new.cpu = row.cpu, new.status = "STOPPED"
        PROVE  RowAt(late, "ok", req[r].memory, req[r].cpu, new, ReqHost(r))
    BY <2>3 DEF RowAt, DownPcs, UpPcs, MarkPcs
  <2>4. QED
    BY <1>3, <2>1, <2>2, <2>3, MarkMoves DEF StopMark
<1>4. QED
  BY <1>1, <1>2, <1>3

\* RestartServer: a container that reboots keeps the config it runs with.
LEMMA RestartMoves ==
    ASSUME IInv, LInv, HInv, NEW r \in Requests,
           RestartLoad(r) \/ RestartReboot(r) \/ RestartMark(r)
    PROVE  Moves(r)
<1>1. CASE RestartLoad(r)
  <2>1. /\ LoadConfig(r, "restart_load", MadeDir(ReqHost(r)), "restart_reboot")
        /\ req[r].pc = "restart_load"
    BY <1>1 DEF RestartLoad, LoadConfig
  <2>2. /\ "restart_load" \in OtherPcs \ OddPcs
        /\ "restart_reboot" \in OtherPcs \cup Answers
    BY DEF OtherPcs, OddPcs, MarkPcs, HandlerPcs, CreatePcs
  <2>3. PICK h \in Containers : h = ReqHost(r)
    BY <2>1, <2>2, HandlerKnows
  <2>4. PICK new : new = MadeDir(h)
    OBVIOUS
  <2>5. /\ new.dir /\ new.config = h.config /\ new.disk = h.disk
        /\ new.mounted = h.mounted /\ new.running = h.running /\ new.live = h.live
    BY <2>4 DEF MadeDir, Containers
  <2>6. Defined(h) => Sound(r, "restart_reboot", h.config, new)
    <3>1. Defined(h) /\ HostAt("restart_load", req[r].handle, h)
            => HostAt("restart_reboot", h.config, new)
      BY <2>5 DEF HostAt, Whole, Clean
    <3>2. \A late, memory, cpu, row : RowAt(late, "restart_load", memory, cpu, row, h)
                                  => RowAt(late, "restart_reboot", memory, cpu, row, new)
      BY <2>5 DEF RowAt, DownPcs, UpPcs, MarkPcs
    <3>3. QED
      BY <2>1, <2>3, <2>5, <3>1, <3>2 DEF Sound
  <2>7. QED
    BY <2>1, <2>2, <2>3, <2>4, <2>6, LoadConfigMoves
<1>2. CASE RestartReboot(r)
  <2>1. req[r].pc = "restart_reboot"
    BY <1>2 DEF RestartReboot, HostCall
  <2>2. /\ "restart_reboot" \in OtherPcs \ OddPcs
        /\ "restart_mark" \in OtherPcs \cup Answers
    BY DEF OtherPcs, OddPcs, MarkPcs, HandlerPcs, CreatePcs
  <2>3. PICK h \in Containers : h = ReqHost(r)
    BY <2>1, <2>2, HandlerKnows
  <2>4. CanReboot(h) => Sound(r, "restart_mark", req[r].handle, h)
    BY <2>1, <2>3 DEF CanReboot, Sound, HostAt, RowAt, DownPcs, UpPcs, MarkPcs
  <2>5. HostCall(r, "restart_reboot", CanReboot(h), h, "restart_mark")
    BY <1>2, <2>3 DEF RestartReboot, Rebooted
  <2>6. QED
    BY <2>2, <2>4, <2>5, HostCallMoves
<1>3. CASE RestartMark(r)
  <2>1. "restart_mark" \in OtherPcs /\ "ok" \in OtherPcs \cup Answers
    BY DEF OtherPcs, HandlerPcs, CreatePcs, Answers
  <2>2. HostAt("restart_mark", req[r].handle, ReqHost(r))
          => HostAt("ok", req[r].handle, ReqHost(r))
    BY DEF HostAt
  <2>3. ASSUME NEW late, NEW row \in Rows, NEW new \in Rows,
               RowAt(late, "restart_mark", req[r].memory, req[r].cpu, row, ReqHost(r)),
               new.memory = row.memory, new.cpu = row.cpu, new.status = "RUNNING"
        PROVE  RowAt(late, "ok", req[r].memory, req[r].cpu, new, ReqHost(r))
    BY <2>3 DEF RowAt, DownPcs, UpPcs, MarkPcs
  <2>4. QED
    BY <1>3, <2>1, <2>2, <2>3, MarkMoves DEF RestartMark
<1>4. QED
  BY <1>1, <1>2, <1>3

\* The config that UpdateServer saves has the given limits, and the row follows.
LEMMA UpdateSaveMoves ==
    ASSUME IInv, LInv, HInv, NEW r \in Requests, UpdateSave(r)
    PROVE  Moves(r)
<1>1. /\ req[r].pc = "update_save"
      /\ "update_save" \in OtherPcs \ OddPcs
      /\ "update_write" \in OtherPcs \cup Answers
      /\ "error" \in Answers
      /\ UNCHANGED <<servers, job>>
  BY DEF UpdateSave, OtherPcs, OddPcs, MarkPcs, HandlerPcs, CreatePcs, Answers
<1>2. PICK h \in Containers : h = ReqHost(r)
  BY <1>1, HandlerKnows
<1>3. PICK handle \in Configs : handle = req[r].handle
  BY CallTypes
<1>4. PICK memory, cpu : memory = req[r].memory /\ cpu = req[r].cpu
  OBVIOUS
<1> DEFINE saved == [handle EXCEPT !.memory = Given(memory, @), !.cpu = Given(cpu, @)]
<1>5. /\ saved.rootfs = handle.rootfs
      /\ saved.memory = Given(memory, handle.memory)
      /\ saved.cpu = Given(cpu, handle.cpu)
      /\ saved \in [rootfs : {saved.rootfs}, memory : {saved.memory}, cpu : {saved.cpu}]
  BY DEF Configs
<1>6. saved \in Configs
  <2>1. memory \in Memories \cup {0} /\ cpu \in Cpus \cup {0}
    BY <1>4, CallTypes
  <2>2. QED
    BY <2>1 DEF Configs, Given
<1>7. \/ /\ host' = [host EXCEPT ![req[r].sid] = Saved(h, saved)]
         /\ req' = [req EXCEPT ![r].pc = "update_write", ![r].handle = saved]
      \/ UNCHANGED host /\ Goto(r, "error")
  <2>1. host[req[r].sid] = h
    BY <1>2 DEF ReqHost
  <2>2. QED
    BY <1>3, <1>4, <2>1 DEF UpdateSave
<1>8. Reliable => Reliable'
  BY FaultsRunOut DEF UpdateSave
<1> HIDE DEF saved
<1>9. CASE /\ host' = [host EXCEPT ![req[r].sid] = Saved(h, saved)]
           /\ req' = [req EXCEPT ![r].pc = "update_write", ![r].handle = saved]
  <2>1. PICK new \in Containers : new = Saved(h, saved)
    BY <1>6, ContainerTypes
  <2>2. /\ new.config = saved /\ new.dir = h.dir /\ new.disk = h.disk
        /\ new.mounted = h.mounted /\ new.running = h.running /\ new.live = h.live
    BY <2>1 DEF Saved, Containers
  <2>3. HostAt("update_save", handle, h) => /\ HostAt("update_write", saved, new)
                                            /\ handle = h.config
    BY <1>5, <2>2 DEF HostAt, Whole
  <2>4. ASSUME NEW late, NEW row, RowAt(late, "update_save", memory, cpu, row, h), handle = h.config
        PROVE  RowAt(late, "update_write", memory, cpu, row, new)
    <3>1. h.config = DiskConfig(row.memory, row.cpu) /\ ~h.running
      BY <2>4 DEF RowAt, DownPcs
    <3>2. /\ handle.rootfs = "loop" /\ handle.memory = row.memory /\ handle.cpu = row.cpu
      BY <2>4, <3>1 DEF DiskConfig
    <3>3. saved = DiskConfig(Given(memory, row.memory), Given(cpu, row.cpu))
      BY <1>5, <3>2 DEF DiskConfig
    <3>4. QED
      BY <2>2, <2>4, <3>1, <3>3 DEF RowAt, DownPcs, UpPcs, MarkPcs
  <2>5. Sound(r, "update_write", saved, new)
    BY <1>1, <1>2, <1>3, <1>4, <2>2, <2>3, <2>4 DEF Sound, HostAt
  <2>6. QED
    BY <1>1, <1>6, <1>8, <1>9, <2>1, <2>5, SoundMoves
<1>10. CASE UNCHANGED host /\ Goto(r, "error")
  <2>1. Sound(r, "error", req[r].handle, ReqHost(r))
    BY <1>1, ErrorSound
  <2>2. QED
    BY <1>1, <1>8, <1>10, <2>1, HandlerKnows, GotoMoves
<1>11. QED
  BY <1>7, <1>9, <1>10

\* Then its row does.
LEMMA UpdateWriteMoves ==
    ASSUME IInv, LInv, HInv, NEW r \in Requests, UpdateWrite(r)
    PROVE  Moves(r)
<1>1. /\ req[r].pc = "update_write"
      /\ "update_write" \in OtherPcs
      /\ "update_start" \in OtherPcs \cup Answers
      /\ UNCHANGED <<host, job>>
  BY DEF UpdateWrite, Statement, OtherPcs, HandlerPcs, CreatePcs
<1>2. PICK id \in Requests : id = req[r].id
  BY <1>1, HandlerKnows
<1>3. PICK memory \in Memories \cup {0}, cpu \in Cpus \cup {0} :
         memory = req[r].memory /\ cpu = req[r].cpu
  BY CallTypes
<1>4. HandlerOK(r, ReqHost(r))
  BY <1>1, HandlerKnows
<1>5. CASE Works /\ UpdateLimits(id, memory, cpu) /\ Goto(r, "update_start")
  <2>1. RowsChange(id, {"RUNNING", "STOPPED"})
    BY <1>3, <1>5 DEF RowsChange
  <2>2. Polite => HostAt("update_start", req[r].handle, ReqHost(r))
    BY <1>1, <1>4 DEF HandlerOK, HostAt
  <2> DEFINE New(row) == IF row.id = id
                           THEN [row EXCEPT !.memory = Given(memory, @), !.cpu = Given(cpu, @)]
                           ELSE row
  <2>3. servers' = {New(row) : row \in servers}
    BY <1>5 DEF UpdateLimits
  <2>4. \A row \in servers :
           /\ New(row).id = row.id
           /\ New(row).status = row.status
           /\ row.id = id => /\ New(row).memory = Given(memory, row.memory)
                             /\ New(row).cpu = Given(cpu, row.cpu)
    BY DEF IInv, TypeOK, StoreTypeOK, Rows
  <2> HIDE DEF New
  <2>5. ASSUME Exact, ~LostOn(id), NEW new \in servers', new.id = id
        PROVE  RowAt(LateOn(id), "update_start", memory, cpu, new, ReqHost(r))
    <3>1. PICK row \in servers : new = New(row)
      BY <2>3, <2>5
    <3>2. RowAt(LateOn(id), "update_write", memory, cpu, row, ReqHost(r))
      BY <1>1, <1>2, <1>3, <1>4, <2>4, <2>5, <3>1 DEF HandlerOK
    <3>3. QED
      BY <2>4, <2>5, <3>1, <3>2 DEF RowAt, DownPcs, UpPcs, MarkPcs
  <2>6. (\E row \in servers' : row.id = id) \/ RowsWithId(id) = {}
    BY <2>3, <2>4 DEF RowsWithId
  <2>7. QED
    BY <1>1, <1>2, <1>3, <1>5, <2>1, <2>2, <2>5, <2>6, StatementMoves
<1>6. CASE Fails("db") /\ UNCHANGED servers /\ Goto(r, "error")
  BY <1>1, <1>6, StatementMoves
<1>7. QED
  BY <1>2, <1>3, <1>5, <1>6 DEF UpdateWrite, Statement

\* UpdateServer: stopped, saved, written, started.
LEMMA UpdateMoves ==
    ASSUME IInv, LInv, HInv, NEW r \in Requests,
           \/ UpdateRunning(r) \/ UpdateStop(r) \/ UpdateWait(r) \/ UpdateStopped(r)
           \/ UpdateLoad(r) \/ UpdateSave(r) \/ UpdateWrite(r) \/ UpdateStart(r)
           \/ UpdateMark(r)
    PROVE  Moves(r)
<1>1. CASE UpdateRunning(r)
  <2> DEFINE next == IF ReqHost(r).running THEN "update_stop" ELSE "update_stopped"
  <2>1. OpenAndAsk(r, "update_running", next) /\ req[r].pc = "update_running"
    BY <1>1 DEF UpdateRunning, OpenAndAsk, Ask
  <2>2. /\ "update_running" \in OtherPcs \ OddPcs
        /\ next \in OtherPcs \cup Answers
    BY DEF OtherPcs, OddPcs, MarkPcs, HandlerPcs, CreatePcs
  <2>3. Sound(r, next, req[r].handle, ReqHost(r))
    BY <2>1 DEF Sound, HostAt, RowAt, DownPcs, UpPcs, MarkPcs
  <2> HIDE DEF next
  <2>4. QED
    BY <2>1, <2>2, <2>3, OpenAndAskMoves
<1>2. CASE UpdateStop(r)
  <2>1. req[r].pc = "update_stop"
    BY <1>2 DEF UpdateStop, HostCall
  <2>2. /\ "update_stop" \in OtherPcs \ OddPcs
        /\ "update_wait" \in OtherPcs \cup Answers
    BY DEF OtherPcs, OddPcs, MarkPcs, HandlerPcs, CreatePcs
  <2>3. PICK new \in Containers : new = Stopped(ReqHost(r))
    BY <2>1, StoppedSound
  <2>4. Sound(r, "update_wait", req[r].handle, new)
    BY <2>1, <2>3, StoppedSound
  <2>5. HostCall(r, "update_stop", CanStop(ReqHost(r)), new, "update_wait")
    BY <1>2, <2>3 DEF UpdateStop
  <2>6. QED
    BY <2>2, <2>4, <2>5, HostCallMoves
<1>3. CASE UpdateStopped(r)
  <2>1. "update_stopped" \in OtherPcs /\ "update_load" \in OtherPcs \cup Answers
    BY DEF OtherPcs, HandlerPcs, CreatePcs
  <2>2. HostAt("update_stopped", req[r].handle, ReqHost(r))
          => HostAt("update_load", req[r].handle, ReqHost(r))
    BY DEF HostAt
  <2>3. ASSUME NEW late, NEW row \in Rows, NEW new \in Rows,
               RowAt(late, "update_stopped", req[r].memory, req[r].cpu, row, ReqHost(r)),
               new.memory = row.memory, new.cpu = row.cpu, new.status = "STOPPED"
        PROVE  RowAt(late, "update_load", req[r].memory, req[r].cpu, new, ReqHost(r))
    BY <2>3 DEF RowAt, DownPcs, UpPcs, MarkPcs
  <2>4. QED
    BY <1>3, <2>1, <2>2, <2>3, MarkMoves DEF UpdateStopped
<1>4. CASE UpdateLoad(r)
  <2>1. /\ LoadConfig(r, "update_load", ReqHost(r), "update_save")
        /\ req[r].pc = "update_load"
    BY <1>4 DEF UpdateLoad, LoadConfig
  <2>2. /\ "update_load" \in OtherPcs \ OddPcs
        /\ "update_save" \in OtherPcs \cup Answers
    BY DEF OtherPcs, OddPcs, MarkPcs, HandlerPcs, CreatePcs
  <2>3. Defined(ReqHost(r)) => Sound(r, "update_save", ReqHost(r).config, ReqHost(r))
    <3>1. PICK h : h = ReqHost(r)
      OBVIOUS
    <3>2. Defined(h) /\ HostAt("update_load", req[r].handle, h)
            => HostAt("update_save", h.config, h)
      BY DEF HostAt, Clean
    <3>3. \A late, memory, cpu, row : RowAt(late, "update_load", memory, cpu, row, h)
                                  => RowAt(late, "update_save", memory, cpu, row, h)
      BY DEF RowAt, DownPcs, UpPcs, MarkPcs
    <3>4. QED
      BY <2>1, <3>1, <3>2, <3>3 DEF Sound
  <2>4. QED
    BY <2>1, <2>2, <2>3, LoadConfigMoves
<1>5. CASE UpdateSave(r)
  BY <1>5, UpdateSaveMoves
<1>6. CASE UpdateWrite(r)
  BY <1>6, UpdateWriteMoves
<1>7. CASE UpdateStart(r)
  <2>1. req[r].pc = "update_start"
    BY <1>7 DEF UpdateStart, HostCall
  <2>2. /\ "update_start" \in OtherPcs \ OddPcs
        /\ "update_mark" \in OtherPcs \cup Answers
    BY DEF OtherPcs, OddPcs, MarkPcs, HandlerPcs, CreatePcs
  <2>3. PICK new \in Containers : new = Started(ReqHost(r), req[r].handle)
    BY <2>1, StartedSound
  <2>4. Sound(r, "update_mark", req[r].handle, new)
    BY <2>1, <2>3, StartedSound
  <2>5. HostCall(r, "update_start", CanStart(ReqHost(r), req[r].handle), new, "update_mark")
    BY <1>7, <2>3 DEF UpdateStart
  <2>6. QED
    BY <2>2, <2>4, <2>5, HostCallMoves
<1>8. CASE UpdateMark(r)
  <2>1. "update_mark" \in OtherPcs /\ "ok" \in OtherPcs \cup Answers
    BY DEF OtherPcs, HandlerPcs, CreatePcs, Answers
  <2>2. HostAt("update_mark", req[r].handle, ReqHost(r))
          => HostAt("ok", req[r].handle, ReqHost(r))
    BY DEF HostAt
  <2>3. ASSUME NEW late, NEW row \in Rows, NEW new \in Rows,
               RowAt(late, "update_mark", req[r].memory, req[r].cpu, row, ReqHost(r)),
               new.memory = row.memory, new.cpu = row.cpu, new.status = "RUNNING"
        PROVE  RowAt(late, "ok", req[r].memory, req[r].cpu, new, ReqHost(r))
    BY <2>3 DEF RowAt, DownPcs, UpPcs, MarkPcs
  <2>4. QED
    BY <1>8, <2>1, <2>2, <2>3, MarkMoves DEF UpdateMark
<1>9. CASE UpdateWait(r)
  BY <1>9, WaitMoves DEF UpdateWait
<1>10. QED
  BY <1>1, <1>2, <1>3, <1>4, <1>5, <1>6, <1>7, <1>8, <1>9

\* DeleteServer: the row goes last, when nothing is left of the container.
LEMMA DeleteMoves ==
    ASSUME IInv, LInv, HInv, NEW r \in Requests,
           \/ DeleteRunning(r) \/ DeleteStop(r) \/ DeleteWait(r) \/ DeleteStopped(r)
           \/ DeleteUnmount(r) \/ DeleteDefined(r) \/ DeleteDestroy(r) \/ DeleteRemove(r)
           \/ DeleteDelete(r)
    PROVE  Moves(r)
<1>1. CASE DeleteRunning(r)
  <2> DEFINE next == IF ReqHost(r).running THEN "delete_stop" ELSE "delete_stopped"
  <2>1. OpenAndAsk(r, "delete_running", next) /\ req[r].pc = "delete_running"
    BY <1>1 DEF DeleteRunning, OpenAndAsk, Ask
  <2>2. /\ "delete_running" \in OtherPcs \ OddPcs
        /\ next \in OtherPcs \cup Answers
    BY DEF OtherPcs, OddPcs, MarkPcs, HandlerPcs, CreatePcs, Answers
  <2>3. Sound(r, next, req[r].handle, ReqHost(r))
    BY <2>1 DEF Sound, HostAt, RowAt, DownPcs, UpPcs, MarkPcs
  <2> HIDE DEF next
  <2>4. QED
    BY <2>1, <2>2, <2>3, OpenAndAskMoves
<1>2. CASE DeleteStop(r)
  <2>1. req[r].pc = "delete_stop"
    BY <1>2 DEF DeleteStop, HostCall
  <2>2. /\ "delete_stop" \in OtherPcs \ OddPcs
        /\ "delete_wait" \in OtherPcs \cup Answers
    BY DEF OtherPcs, OddPcs, MarkPcs, HandlerPcs, CreatePcs
  <2>3. PICK new \in Containers : new = Stopped(ReqHost(r))
    BY <2>1, StoppedSound
  <2>4. Sound(r, "delete_wait", req[r].handle, new)
    BY <2>1, <2>3, StoppedSound
  <2>5. HostCall(r, "delete_stop", CanStop(ReqHost(r)), new, "delete_wait")
    BY <1>2, <2>3 DEF DeleteStop
  <2>6. QED
    BY <2>2, <2>4, <2>5, HostCallMoves
<1>3. CASE DeleteStopped(r)
  <2>1. "delete_stopped" \in OtherPcs /\ "delete_umount" \in OtherPcs \cup Answers
    BY DEF OtherPcs, HandlerPcs, CreatePcs
  <2>2. HostAt("delete_stopped", req[r].handle, ReqHost(r))
          => HostAt("delete_umount", req[r].handle, ReqHost(r))
    BY DEF HostAt
  <2>3. ASSUME NEW late, NEW row \in Rows, NEW new \in Rows,
               RowAt(late, "delete_stopped", req[r].memory, req[r].cpu, row, ReqHost(r)),
               new.memory = row.memory, new.cpu = row.cpu, new.status = "STOPPED"
        PROVE  RowAt(late, "delete_umount", req[r].memory, req[r].cpu, new, ReqHost(r))
    BY <2>3 DEF RowAt, DownPcs, UpPcs, MarkPcs
  <2>4. QED
    BY <1>3, <2>1, <2>2, <2>3, MarkMoves DEF DeleteStopped
<1>4. CASE DeleteUnmount(r)
  <2>1. req[r].pc = "delete_umount"
    BY <1>4 DEF DeleteUnmount, Attempt
  <2>2. "delete_umount" \in OtherPcs /\ "delete_defined" \in OtherPcs \cup Answers
    BY DEF OtherPcs, HandlerPcs, CreatePcs
  <2>3. PICK h \in Containers : h = ReqHost(r)
    BY <2>1, <2>2, HandlerKnows
  <2>4. NoConfig \in Configs
    BY DEF NoConfig, Configs
  <2>5. PICK new \in Containers : new = Unmounted(h)
    BY <2>4, ContainerTypes
  <2>6. /\ ~new.mounted /\ ~new.bound /\ new.dir = h.dir /\ new.config = h.config
        /\ new.disk = h.disk /\ new.running = h.running /\ new.live = h.live
    BY <2>5 DEF Unmounted, Containers
  <2>7. ASSUME NEW at \in {h, new}
        PROVE  Sound(r, "delete_defined", req[r].handle, at)
    <3>1. HostAt("delete_umount", req[r].handle, h) => HostAt("delete_defined", req[r].handle, at)
      BY <2>6 DEF HostAt, Whole, Clean, Defined
    <3>2. \A late, memory, cpu, row : RowAt(late, "delete_umount", memory, cpu, row, h)
                                  => RowAt(late, "delete_defined", memory, cpu, row, at)
      BY <2>6 DEF RowAt, DownPcs, UpPcs, MarkPcs
    <3>3. QED
      BY <2>1, <2>3, <2>6, <3>1, <3>2 DEF Sound
  <2>8. Attempt(r, "delete_umount", h.mounted, TRUE, new, "delete_defined")
    BY <1>4, <2>3, <2>5 DEF DeleteUnmount
  <2>9. QED
    BY <2>2, <2>3, <2>7, <2>8, AttemptMoves
<1>5. CASE DeleteDefined(r)
  <2> DEFINE next == IF Defined(ReqHost(r)) THEN "delete_destroy" ELSE "delete_remove"
  <2>1. Ask(r, "delete_defined", next) /\ req[r].pc = "delete_defined"
    BY <1>5 DEF DeleteDefined, Ask
  <2>2. /\ "delete_defined" \in OtherPcs
        /\ next \in OtherPcs \cup Answers
    BY DEF OtherPcs, HandlerPcs, CreatePcs
  <2>3. Sound(r, next, req[r].handle, ReqHost(r))
    <3>1. PICK h : h = ReqHost(r)
      OBVIOUS
    <3>2. Whole(h) => Defined(h)
      BY DEF Whole, Defined, NoConfig
    <3>3. HostAt("delete_defined", req[r].handle, h) => HostAt(next, req[r].handle, h)
      BY <3>1, <3>2 DEF HostAt
    <3>4. \A late, memory, cpu, row : RowAt(late, "delete_defined", memory, cpu, row, h)
                                  => RowAt(late, next, memory, cpu, row, h)
      BY DEF RowAt, DownPcs, UpPcs, MarkPcs
    <3>5. QED
      BY <2>1, <3>1, <3>3, <3>4 DEF Sound
  <2> HIDE DEF next
  <2>4. QED
    BY <2>1, <2>2, <2>3, AskMoves
<1>6. CASE DeleteDestroy(r)
  <2>1. req[r].pc = "delete_destroy"
    BY <1>6 DEF DeleteDestroy, HostCall
  <2>2. /\ "delete_destroy" \in OtherPcs \ OddPcs
        /\ "delete_remove" \in OtherPcs \cup Answers
    BY DEF OtherPcs, OddPcs, MarkPcs, HandlerPcs, CreatePcs
  <2>3. Sound(r, "delete_remove", req[r].handle, Nothing)
    <3>1. ~Nothing.mounted /\ ~Nothing.running
      BY DEF Nothing
    <3>2. HostAt("delete_remove", req[r].handle, Nothing)
      BY <3>1, NothingClean DEF HostAt
    <3>3. \A late, memory, cpu, row : RowAt(late, "delete_destroy", memory, cpu, row, ReqHost(r))
                                  => RowAt(late, "delete_remove", memory, cpu, row, Nothing)
      BY <3>1 DEF RowAt, DownPcs, UpPcs, MarkPcs
    <3>4. QED
      BY <2>1, <3>1, <3>2, <3>3 DEF Sound
  <2>4. HostCall(r, "delete_destroy", CanDestroy(ReqHost(r)), Nothing, "delete_remove")
    BY <1>6 DEF DeleteDestroy, Destroyed
  <2>5. QED
    BY <2>2, <2>3, <2>4, NothingClean, HostCallMoves
<1>7. CASE DeleteRemove(r)
  <2>1. req[r].pc = "delete_remove"
    BY <1>7 DEF DeleteRemove, Attempt
  <2>2. "delete_remove" \in OtherPcs /\ "delete_row" \in OtherPcs \cup Answers
    BY DEF OtherPcs, HandlerPcs, CreatePcs
  <2>3. PICK h \in Containers : h = ReqHost(r)
    BY <2>1, <2>2, HandlerKnows
  <2>4. NoConfig \in Configs
    BY DEF NoConfig, Configs
  <2>5. PICK new \in Containers : new = Removed(h)
    BY <2>4, ContainerTypes
  <2>6. /\ new.mounted = h.mounted /\ new.bound = h.bound
        /\ new.running = h.running /\ new.live = h.live
        /\ new.config = NoConfig /\ new.disk = "none"
    BY <2>5 DEF Removed, Containers
  <2>7. ASSUME NEW at \in {h, new}
        PROVE  Sound(r, "delete_row", req[r].handle, at)
    <3>1. HostAt("delete_remove", req[r].handle, h) => HostAt("delete_row", req[r].handle, at)
      BY <2>6 DEF HostAt, Clean, Defined
    <3>2. \A late, memory, cpu, row : RowAt(late, "delete_remove", memory, cpu, row, h) /\ Clean(h)
                                  => RowAt(late, "delete_row", memory, cpu, row, at)
      BY <2>6 DEF RowAt, Clean, DownPcs, UpPcs, MarkPcs
    <3>3. HostAt("delete_remove", req[r].handle, h) => Clean(h)
      BY DEF HostAt
    <3>4. QED
      BY <2>1, <2>3, <2>6, <3>1, <3>2, <3>3 DEF Sound
  <2>8. Attempt(r, "delete_remove", TRUE, TRUE, new, "delete_row")
    BY <1>7, <2>3, <2>5 DEF DeleteRemove
  <2>9. QED
    BY <2>2, <2>3, <2>7, <2>8, AttemptMoves
<1>8. CASE DeleteDelete(r)
  <2>1. /\ req[r].pc = "delete_row"
        /\ "delete_row" \in OtherPcs
        /\ "ok" \in Answers
        /\ UNCHANGED <<host, job>>
    BY <1>8 DEF DeleteDelete, Statement, OtherPcs, HandlerPcs, CreatePcs, Answers
  <2>2. PICK id : id = req[r].id
    OBVIOUS
  <2>3. HandlerOK(r, ReqHost(r))
    BY <2>1, HandlerKnows
  <2>4. CASE Works /\ DeleteRow(id) /\ Goto(r, "ok")
    <3>1. RowsChange(id, {"RUNNING", "STOPPED"})
      BY <2>4 DEF RowsChange
    <3>2. Polite => Clean(ReqHost(r)) /\ HostAt("ok", req[r].handle, ReqHost(r))
      BY <2>1, <2>3 DEF HandlerOK, HostAt
    <3>3. \A row \in servers' : row.id # id
      BY <2>4 DEF DeleteRow, RowsWithId
    <3>4. QED
      BY <2>1, <2>2, <2>4, <3>1, <3>2, <3>3, StatementMoves
  <2>5. CASE Fails("db") /\ UNCHANGED servers /\ Goto(r, "error")
    BY <2>1, <2>5, StatementMoves
  <2>6. QED
    BY <1>8, <2>2, <2>4, <2>5 DEF DeleteDelete, Statement
<1>9. CASE DeleteWait(r)
  BY <1>9, WaitMoves DEF DeleteWait
<1>10. QED
  BY <1>1, <1>2, <1>3, <1>4, <1>5, <1>6, <1>7, <1>8, <1>9

-----------------------------------------------------------------------------
\* A step of a purge takes away from the container what the point it goes on at
\* says, and deletes the row, if it does, when nothing is left.
PurgeMoves(r) ==
    /\ req[r].pc \in PurgePcs
    /\ \E pc \in PurgePcs \cup {"create_incr"} \cup Answers, handle \in Configs,
          new \in Containers :
          /\ req' = [req EXCEPT ![r].pc = pc, ![r].handle = handle]
          /\ host' = [host EXCEPT ![req[r].sid] = new]
          /\ Shrinks(ReqHost(r), new)
          /\ Polite /\ OneFault => /\ pc \in PurgePcs => PurgeAt(pc, new)'
                                   /\ UNCHANGED servers \/ Clean(new)
    /\ UNCHANGED servers \/ DeleteRow(req[r].id)
    /\ UNCHANGED job
    /\ Reliable => Reliable'

\* What a purge works on, when it is at work.
LEMMA PurgeKnows ==
    ASSUME IInv, LInv, HInv, NEW r \in Requests, req[r].pc \in PurgePcs
    PROVE  /\ req[r].id \in Requests /\ Spawned(req[r].id)
           /\ req[r].sid \in Sids /\ req[r].sid = job[req[r].id].sid
           /\ ReqHost(r) \in Containers /\ ReqHost(r) = JobHost(req[r].id)
           /\ ServerOK(req[r].id, ReqHost(r))
           /\ PurgeOK(r, ReqHost(r))
           /\ WorksOn(r, req[r].id)
           /\ host' = [host EXCEPT ![req[r].sid] = ReqHost(r)] <=> UNCHANGED host
<1>1. InFlight(r) /\ req[r].pc # "create_incr"
  BY DEF InFlight, PurgePcs, CreatePcs, HandlerPcs
<1>2. req[r].id \in Requests /\ Spawned(req[r].id) /\ req[r].sid \in Sids
  BY <1>1 DEF LInv, IInv, CallOK
<1>3. req[r].sid = job[req[r].id].sid
  BY DEF HInv, Links
<1>4. ReqHost(r) \in Containers /\ ReqHost(r) = JobHost(req[r].id)
  BY <1>2, <1>3 DEF ReqHost, JobHost, IInv, TypeOK, HostTypeOK
<1>5. ServerOK(req[r].id, ReqHost(r))
  BY <1>2, <1>4 DEF HInv
<1>6. PurgeOK(r, ReqHost(r))
  BY <1>2, <1>5 DEF ServerOK
<1>7. WorksOn(r, req[r].id)
  BY DEF WorksOn
<1>8. host' = [host EXCEPT ![req[r].sid] = ReqHost(r)] <=> UNCHANGED host
  BY DEF ReqHost, IInv, TypeOK, HostTypeOK
<1>9. QED
  BY <1>2, <1>3, <1>4, <1>5, <1>6, <1>7, <1>8

\* Such a step keeps the invariant: no polite client has an installed server of
\* that id, and what other purges found is still true of what is left.
LEMMA PurgeMovesHInv ==
    ASSUME IInv, IInv', LInv, HInv, Orderly, NEW r \in Requests, PurgeMoves(r)
    PROVE  HInv'
<1>1. PICK id \in Requests : id = req[r].id
  BY PurgeKnows DEF PurgeMoves
<1>2. PICK h \in Containers : h = ReqHost(r)
  BY PurgeKnows DEF PurgeMoves
<1>3. /\ Spawned(id) /\ req[r].sid = job[id].sid /\ job[id].sid \in Sids
      /\ ServerOK(id, h) /\ PurgeOK(r, h) /\ WorksOn(r, id) /\ req[r].pc \in PurgePcs
  BY <1>1, <1>2, PurgeKnows DEF PurgeMoves
<1>4. PICK pc \in PurgePcs \cup {"create_incr"} \cup Answers, handle \in Configs,
           new \in Containers :
          /\ req' = [req EXCEPT ![r].pc = pc, ![r].handle = handle]
          /\ host' = [host EXCEPT ![req[r].sid] = new]
          /\ Shrinks(h, new)
          /\ Polite /\ OneFault => /\ pc \in PurgePcs => PurgeAt(pc, new)'
                                   /\ UNCHANGED servers \/ Clean(new)
  BY <1>2 DEF PurgeMoves
<1>5. /\ \A q \in Requests : q # r => req'[q] = req[q]
      /\ req'[r].pc = pc /\ req'[r].id = id /\ req'[r].sid = req[r].sid
  BY <1>1, <1>4, CallTypes DEF IInv, TypeOK, ReqTypeOK, Calls
<1>6. /\ \A sid \in Sids : sid # job[id].sid => host'[sid] = host[sid]
      /\ JobHost(id)' = new
      /\ UNCHANGED job
      /\ Reliable => Reliable'
      /\ UNCHANGED servers \/ servers' = servers \ RowsWithId(id)
  BY <1>1, <1>3, <1>4 DEF PurgeMoves, DeleteRow, JobHost, IInv, TypeOK, HostTypeOK
<1>7. /\ \A row : row.id # id => (row \in servers' <=> row \in servers)
      /\ \A row \in servers' : row \in servers
      /\ UNCHANGED servers \/ \A row \in servers' : row.id # id
  BY <1>6 DEF RowsWithId
<1>8. \A row \in servers : row.id = id => row.status = "ERROR"
  BY <1>1, <1>3 DEF LInv, KnowsRows, RowsAre
<1>9. /\ pc # "lost" /\ req[r].pc \notin LeftPcs
      /\ pc \notin OtherPcs /\ req[r].pc \notin OtherPcs
  BY <1>3 DEF OtherPcs, PurgePcs, HandlerPcs, CreatePcs, Answers, LeftPcs
<1>10. /\ Failed(h) => Failed(new)'
       /\ \A at : PurgeAt(at, h) => PurgeAt(at, new)'
  BY <1>4, <1>6, ShrinkKeeps
<1>11. job[id].pc \notin UndecidedPcs /\ job'[id] = job[id]
  BY <1>1, <1>3, <1>6 DEF PurgeOK
<1>12. Made(job[id], new)'
  <2>1. Made(job[id], h)
    BY <1>3 DEF ServerOK
  <2>2. QED
    BY <1>4, <1>10, <1>11, <2>1 DEF Made, MadeAt, Noted, Shrinks, UndecidedPcs, InstallPcs
<1>13. ASSUME NEW row \in servers', row.id = id
       PROVE  RowOK(row, new)'
  <2>1. row.status = "ERROR" /\ RowOK(row, h)
    BY <1>3, <1>7, <1>8, <1>13 DEF ServerOK
  <2>2. QED
    BY <1>10, <2>1 DEF RowOK
<1>14. (RowsWithId(id) = {} => GoneOK(id, new))'
  <2>1. ASSUME \A row \in servers' : row.id # id, Polite, OneFault
        PROVE  Clean(new)
    <3>1. CASE UNCHANGED servers
      <4>1. RowsWithId(id) = {}
        BY <2>1, <3>1 DEF RowsWithId
      <4>2. Clean(h)
        BY <1>3, <2>1, <4>1 DEF ServerOK, GoneOK
      <4>3. QED
        BY <1>4, <4>2 DEF Shrinks
    <3>2. QED
      BY <1>4, <2>1, <3>1
  <2>2. RowsWithId(id)' = {} => \A row \in servers' : row.id # id
    BY DEF RowsWithId
  <2>3. QED
    BY <1>11, <2>1, <2>2 DEF GoneOK
<1>15. ASSUME NEW q \in Requests, (req[q].pc \in OtherPcs /\ req[q].id = id)'
       PROVE  HandlerOK(q, new)'
  <2>1. q # r /\ req'[q] = req[q]
    BY <1>5, <1>9, <1>15
  <2>2. HandlerOK(q, h)
    BY <1>3, <1>15, <2>1 DEF ServerOK
  <2>3. ~Polite
    BY <1>3, <1>15, <2>1, <2>2 DEF HandlerOK
  <2>4. QED
    BY <1>4, <1>11, <1>15, <2>1, <2>2, <2>3 DEF HandlerOK, Exact, Shrinks
<1>16. ASSUME NEW q \in Requests, (req[q].pc \in PurgePcs /\ req[q].id = id)'
       PROVE  PurgeOK(q, new)'
  <2>1. CASE q = r
    BY <1>4, <1>5, <1>11, <1>16, <2>1 DEF PurgeOK
  <2>2. CASE q # r
    <3>1. PurgeOK(q, h) /\ req'[q] = req[q]
      BY <1>3, <1>5, <1>16, <2>2 DEF ServerOK
    <3>2. QED
      BY <1>10, <1>11, <1>16, <3>1 DEF PurgeOK
  <2>3. QED
    BY <2>1, <2>2
<1>17. ServerOK(id, new)'
  <2>1. ~(new.mounted /\ new.running)
    BY <1>3, <1>4 DEF ServerOK, Shrinks
  <2>2. QED
    BY <1>12, <1>13, <1>14, <1>15, <1>16, <2>1 DEF ServerOK
<1>18. Only(id)
  <2>1. Joins(r, id)
    BY <1>1, <1>3, <1>5, <1>6, <1>9 DEF Joins
  <2>2. ASSUME NEW row \in servers', row.id = id
        PROVE  row.sid = job'[id].sid
    BY <1>6, <1>7, <2>2 DEF HInv, Links
  <2>3. QED
    BY <1>3, <1>5, <1>6, <1>7, <2>1, <2>2 DEF Only, Spawned
<1>19. QED
  BY <1>6, <1>17, <1>18, Framed

\* A purge goes on, with what it was told of the container borne out.
LEMMA GotoPurges ==
    ASSUME IInv, LInv, HInv, NEW r \in Requests, req[r].pc \in PurgePcs,
           NEW pc \in PurgePcs \cup {"create_incr"} \cup Answers, NEW new \in Containers,
           Goto(r, pc), host' = [host EXCEPT ![req[r].sid] = new],
           Shrinks(ReqHost(r), new), Reliable => Reliable', UNCHANGED job,
           UNCHANGED servers \/ DeleteRow(req[r].id),
           OneFault /\ PurgeAt(req[r].pc, ReqHost(r)) =>
              /\ pc \in PurgePcs => PurgeAt(pc, new)'
              /\ UNCHANGED servers \/ Clean(new)
    PROVE  PurgeMoves(r)
<1> DEFINE handle == IF pc \in Answers THEN NoConfig ELSE req[r].handle
<1>1. handle \in Configs
  BY CallTypes DEF Configs, NoConfig
<1>2. req' = [req EXCEPT ![r].pc = pc, ![r].handle = handle]
  BY CallTypes DEF Goto, IInv, TypeOK, ReqTypeOK, Calls
<1>3. Polite /\ OneFault => /\ pc \in PurgePcs => PurgeAt(pc, new)'
                            /\ UNCHANGED servers \/ Clean(new)
  BY PurgeKnows DEF PurgeOK
<1> HIDE DEF handle
<1>4. QED
  BY <1>1, <1>2, <1>3 DEF PurgeMoves

\* A call of a purge: made, not called for, impossible, or the one that fails.
LEMMA AttemptPurges ==
    ASSUME IInv, LInv, HInv, NEW r \in Requests, NEW pc \in PurgePcs, NEW called, NEW can,
           NEW h \in Containers, h = ReqHost(r), NEW new \in Containers, NEW next \in PurgePcs,
           Attempt(r, pc, called, can, new, next), Shrinks(h, new),
           OneFault /\ PurgeAt(pc, h) /\ (Reliable => Reliable') =>
              /\ called /\ can => PurgeAt(next, new)'
              /\ ~(called /\ can) => PurgeAt(next, h)'
              /\ called /\ ~Reliable /\ Reliable' => PurgeAt(next, h)'
    PROVE  PurgeMoves(r)
<1>1. /\ req[r].pc = pc /\ Goto(r, next) /\ UNCHANGED <<servers, job>>
      /\ Reliable => Reliable'
      /\ OneFault /\ Fails("host") => ~Reliable /\ Reliable'
  BY FaultsRunOut DEF Attempt, IgnoringErrors
<1>2. CASE called /\ can /\ host' = [host EXCEPT ![req[r].sid] = new]
  BY <1>1, <1>2, GotoPurges
<1>3. CASE (~(called /\ can) \/ (called /\ Fails("host"))) /\ UNCHANGED host
  <2>1. host' = [host EXCEPT ![req[r].sid] = h]
    BY <1>1, <1>3, PurgeKnows
  <2>2. Shrinks(h, h)
    BY CallsShrink
  <2>3. OneFault /\ PurgeAt(pc, h) => PurgeAt(next, h)'
    BY <1>1, <1>3
  <2>4. QED
    BY <1>1, <2>1, <2>2, <2>3, GotoPurges
<1>4. QED
  BY <1>2, <1>3 DEF Attempt, IgnoringErrors

\* The purge before a retry leaves nothing behind, if only one host call failed.
LEMMA PurgeStepMoves ==
    ASSUME IInv, LInv, HInv, NEW r \in Requests,
           CreatePurgeStop(r) \/ CreatePurgeDestroy(r) \/ CreatePurgeUnmount(r) \/
           CreatePurgeRemove(r) \/ CreatePurgeDelete(r)
    PROVE  PurgeMoves(r)
<1>1. /\ req[r].pc \in PurgePcs
      /\ {"create_pstop", "create_pdestroy", "create_pumount", "create_premove",
          "create_pdelete"} \subseteq PurgePcs
  BY DEF CreatePurgeStop, CreatePurgeDestroy, CreatePurgeUnmount, CreatePurgeRemove,
         CreatePurgeDelete, Attempt, Statement, PurgePcs, CreatePcs
<1>2. PICK h \in Containers : h = ReqHost(r)
  BY <1>1, PurgeKnows
<1>3. NoConfig \in Configs
  BY DEF NoConfig, Configs
<1>4. /\ Shrinks(h, h) /\ Shrinks(h, Stopped(h)) /\ Shrinks(h, Unmounted(h))
      /\ Shrinks(h, Removed(h)) /\ Shrinks(h, Destroyed(h))
  BY CallsShrink
<1>5. CASE CreatePurgeStop(r)
  <2>1. PICK new \in Containers : new = Stopped(h)
    BY <1>3, ContainerTypes
  <2>2. ~new.running /\ new.mounted = h.mounted
    BY <2>1 DEF Stopped, Containers
  <2>3. ASSUME OneFault, PurgeAt("create_pstop", h), Reliable => Reliable'
        PROVE  /\ PurgeAt("create_pdestroy", new)'
               /\ ~h.running => PurgeAt("create_pdestroy", h)'
               /\ ~Reliable /\ Reliable' => /\ PurgeAt("create_pdestroy", h)'
                                            /\ PurgeAt("create_pumount", h)'
    <3>1. Failed(h)' /\ Failed(new)'
      BY <1>4, <2>1, <2>3, ShrinkKeeps DEF PurgeAt
    <3>2. h.running => Reliable
      BY <2>3 DEF PurgeAt, Failed
    <3>3. QED
      BY <2>2, <3>1, <3>2 DEF PurgeAt
  <2>4. CASE Attempt(r, "create_pstop", h.running, CanStop(h), new, "create_pdestroy")
    BY <1>1, <1>2, <1>4, <2>1, <2>3, <2>4, AttemptPurges DEF CanStop
  <2>5. CASE /\ req[r].pc = "create_pstop"
             /\ Fails("host")
             /\ Goto(r, "create_pumount")
             /\ UNCHANGED <<servers, lxcId, host, job>>
    <3>1. (Reliable => Reliable') /\ (OneFault => ~Reliable /\ Reliable')
      BY <2>5, FaultsRunOut
    <3>2. OneFault /\ PurgeAt("create_pstop", h) => PurgeAt("create_pumount", h)'
      BY <2>3, <3>1
    <3>3. host' = [host EXCEPT ![req[r].sid] = h]
      BY <1>1, <1>2, <2>5, PurgeKnows
    <3>4. QED
      BY <1>1, <1>2, <1>4, <2>5, <3>1, <3>2, <3>3, GotoPurges
  <2>6. QED
    BY <1>2, <1>5, <2>1, <2>4, <2>5 DEF CreatePurgeStop
<1>6. CASE CreatePurgeDestroy(r)
  <2>1. ASSUME OneFault, PurgeAt("create_pdestroy", h), Reliable => Reliable'
        PROVE  /\ PurgeAt("create_pumount", Nothing)'
               /\ ~(Defined(h) /\ CanDestroy(h)) => PurgeAt("create_pumount", h)'
               /\ ~Reliable /\ Reliable' => PurgeAt("create_pumount", h)'
    <3>1. Failed(h)' /\ Failed(Nothing)'
      BY <1>4, <2>1, ShrinkKeeps DEF PurgeAt, Destroyed
    <3>2. ~Nothing.running /\ ~h.running
      BY <2>1 DEF PurgeAt, Nothing
    <3>3. h.mounted => Reliable
      BY <2>1 DEF PurgeAt, Failed
    <3>4. ~(Defined(h) /\ CanDestroy(h)) /\ ~h.mounted => Clean(h)
      <4>1. Rooted(h) /\ h.disk \in {"none", "empty", "full"}
        BY <2>1 DEF PurgeAt, Failed, Containers
      <4>2. QED
        BY <3>2, <4>1 DEF CanDestroy, Clean, Rooted
    <3>5. QED
      BY <2>1, <3>1, <3>2, <3>3, <3>4, NothingClean DEF PurgeAt
  <2>2. Attempt(r, "create_pdestroy", Defined(h), CanDestroy(h), Nothing, "create_pumount")
    BY <1>2, <1>6 DEF CreatePurgeDestroy, Destroyed
  <2>3. QED
    BY <1>1, <1>2, <1>4, <2>1, <2>2, NothingClean, AttemptPurges DEF Destroyed
<1>7. CASE CreatePurgeUnmount(r)
  <2>1. PICK new \in Containers : new = Unmounted(h)
    BY <1>3, ContainerTypes
  <2>2. ~new.mounted /\ new.running = h.running
    BY <2>1 DEF Unmounted, Containers
  <2>3. ASSUME OneFault, PurgeAt("create_pumount", h), Reliable => Reliable'
        PROVE  /\ PurgeAt("create_premove", new)'
               /\ ~h.mounted => PurgeAt("create_premove", h)'
               /\ ~Reliable => PurgeAt("create_premove", h)'
    <3>1. PurgeAt("create_pumount", h)' /\ PurgeAt("create_pumount", new)'
      BY <1>4, <2>1, <2>3, ShrinkKeeps
    <3>2. h.mounted => Reliable
      BY <2>3 DEF PurgeAt, Failed
    <3>3. QED
      BY <2>2, <3>1, <3>2 DEF PurgeAt
  <2>4. Attempt(r, "create_pumount", h.mounted, TRUE, new, "create_premove")
    BY <1>2, <1>7, <2>1 DEF CreatePurgeUnmount
  <2>5. QED
    BY <1>1, <1>2, <1>4, <2>1, <2>3, <2>4, AttemptPurges
<1>8. CASE CreatePurgeRemove(r)
  <2>1. PICK new \in Containers : new = Removed(h)
    BY <1>3, ContainerTypes
  <2>2. /\ new.mounted = h.mounted /\ new.bound = h.bound /\ new.running = h.running
        /\ new.config = NoConfig /\ new.disk = "none"
    BY <2>1 DEF Removed, Containers
  <2>3. ASSUME OneFault, PurgeAt("create_premove", h), Reliable => Reliable'
        PROVE  /\ PurgeAt("create_pdelete", new)'
               /\ ~Reliable => PurgeAt("create_pdelete", h)'
    <3>1. PurgeAt("create_premove", h)' /\ PurgeAt("create_premove", new)'
      BY <1>4, <2>1, <2>3, ShrinkKeeps
    <3>2. Clean(new)
      BY <2>2, <2>3 DEF PurgeAt, Failed, Rooted, Clean, Defined
    <3>3. ~Reliable => Clean(h)
      BY <2>3 DEF PurgeAt
    <3>4. QED
      BY <3>1, <3>2, <3>3 DEF PurgeAt
  <2>4. Attempt(r, "create_premove", TRUE, TRUE, new, "create_pdelete")
    BY <1>2, <1>8, <2>1 DEF CreatePurgeRemove
  <2>5. QED
    BY <1>1, <1>2, <1>4, <2>1, <2>3, <2>4, AttemptPurges
<1>9. CASE CreatePurgeDelete(r)
  <2>1. /\ req[r].pc = "create_pdelete"
        /\ UNCHANGED <<host, job>>
        /\ Reliable => Reliable'
        /\ UNCHANGED servers \/ DeleteRow(req[r].id)
        /\ Goto(r, "create_incr") \/ Goto(r, "error")
    BY <1>9, FaultsRunOut DEF CreatePurgeDelete, Statement
  <2>2. PurgeAt("create_pdelete", h) => Clean(h)
    BY DEF PurgeAt
  <2>3. "create_incr" \notin PurgePcs /\ "error" \notin PurgePcs /\ "error" \in Answers
    BY DEF PurgePcs, CreatePcs, Answers
  <2>4. host' = [host EXCEPT ![req[r].sid] = h]
    BY <1>1, <1>2, <2>1, PurgeKnows
  <2>5. QED
    BY <1>1, <1>2, <1>4, <2>1, <2>2, <2>3, <2>4, GotoPurges
<1>10. QED
  BY <1>5, <1>6, <1>7, <1>8, <1>9

-----------------------------------------------------------------------------
\* An installation goes on at pc.
GoesOn(id, pc) ==
    /\ \A k \in Requests : k # id => job'[k] = job[k]
    /\ job'[id].pc = pc
    /\ job'[id].sid = job[id].sid
    /\ job'[id].memory = job[id].memory
    /\ job'[id].cpu = job[id].cpu

\* So it does, whether it notes in the job that the disk is mounted or not.
LEMMA JobGoesOn ==
    ASSUME IInv, NEW id \in Requests, NEW pc,
           \/ JobGoto(id, pc)
           \/ \E m : job' = [job EXCEPT ![id].pc = pc, ![id].diskMounted = m]
    PROVE  /\ GoesOn(id, pc)
           /\ JobGoto(id, pc) => job'[id].diskMounted = job[id].diskMounted
           /\ \A m : job' = [job EXCEPT ![id].pc = pc, ![id].diskMounted = m]
                       => job'[id].diskMounted = m
<1>1. job \in [Requests -> Jobs] /\ job[id] \in Jobs
  BY DEF IInv, TypeOK, JobTypeOK
<1>2. ASSUME JobGoto(id, pc)
      PROVE  GoesOn(id, pc) /\ job'[id].diskMounted = job[id].diskMounted
  BY <1>1, <1>2 DEF JobGoto, Jobs, GoesOn
<1>3. ASSUME NEW m, job' = [job EXCEPT ![id].pc = pc, ![id].diskMounted = m]
      PROVE  GoesOn(id, pc) /\ job'[id].diskMounted = m
  BY <1>1, <1>3 DEF Jobs, GoesOn
<1>4. QED
  BY <1>2, <1>3

\* An installation at work has its server to itself until it marks the row; no
\* handler begins before it has ended.
LEMMA JobKnows ==
    ASSUME IInv, LInv, HInv, Orderly, NEW id \in Requests, Active(id)
    PROVE  /\ Spawned(id) /\ job[id].sid \in Sids
           /\ JobHost(id) \in Containers
           /\ ServerOK(id, JobHost(id))
           /\ Made(job[id], JobHost(id))
           /\ JobHost(id).mounted => job[id].diskMounted
           /\ \A q \in Requests : ~(req[q].pc \in OtherPcs /\ req[q].id = id)
           /\ job[id].pc \in UndecidedPcs =>
                 /\ \A q \in Requests : ~(req[q].pc \in PurgePcs /\ req[q].id = id)
                 /\ \E row \in servers : row.id = id
                 /\ \A row \in servers : row.id = id => row.status = "INSTALLING"
           /\ host' = [host EXCEPT ![job[id].sid] = JobHost(id)] <=> UNCHANGED host
<1>1. Spawned(id) /\ job[id].pc # "ended"
  BY DEF Active, Spawned, ActivePcs, InstallPcs, CleanupPcs
<1>2. job[id].sid \in Sids /\ JobHost(id) \in Containers
  BY <1>1, JobHostType DEF IInv, JobOK
<1>3. ServerOK(id, JobHost(id))
  BY <1>1 DEF HInv
<1>4. Made(job[id], JobHost(id)) /\ (JobHost(id).mounted => job[id].diskMounted)
  BY <1>3 DEF ServerOK, Made, Noted, Active
<1>5. \A q \in Requests : ~(req[q].pc \in OtherPcs /\ req[q].id = id)
  BY <1>1, <1>3 DEF ServerOK, HandlerOK
<1>6. ASSUME job[id].pc \in UndecidedPcs
      PROVE  /\ \A q \in Requests : ~(req[q].pc \in PurgePcs /\ req[q].id = id)
             /\ \E row \in servers : row.id = id
             /\ \A row \in servers : row.id = id => row.status = "INSTALLING"
  <2>1. RowsWithId(id) # {}
    BY <1>3, <1>6 DEF ServerOK, GoneOK
  <2>2. QED
    BY <1>3, <1>6, <2>1 DEF ServerOK, PurgeOK, RowsWithId, LInv, Decided
<1>7. host' = [host EXCEPT ![job[id].sid] = JobHost(id)] <=> UNCHANGED host
  BY DEF JobHost, IInv, TypeOK, HostTypeOK
<1>8. QED
  BY <1>1, <1>2, <1>3, <1>4, <1>5, <1>6, <1>7

\* A step of an installation leaves the container as the point it goes on at says.
Advances(id, pc, new) ==
    /\ Active(id)
    /\ pc # "none"
    /\ GoesOn(id, pc)
    /\ host' = [host EXCEPT ![job[id].sid] = new]
    /\ ~(new.mounted /\ new.running)
    /\ Made(job[id], new)'
    /\ UNCHANGED req
    /\ Reliable => Reliable'

\* Its row says INSTALLING until the container is ready, or has failed.
LEMMA InstallingHInv ==
    ASSUME IInv, IInv', LInv, HInv, Orderly, NEW id \in Requests, NEW pc,
           NEW new \in Containers, Advances(id, pc, new), job[id].pc \in UndecidedPcs,
           \/ UNCHANGED servers
           \/ UpdateStatus(id, "ERROR") /\ Failed(new)'
           \/ /\ UpdateStatus(id, "RUNNING")
              /\ pc = "ended"
              /\ Whole(new)
              /\ new.config = DiskConfig(job[id].memory, job[id].cpu)
              /\ new.running => new.live = new.config
              /\ GuestHalts \/ new.running
    PROVE  HInv'
<1>1. PICK h \in Containers : h = JobHost(id)
  BY JobKnows DEF Advances
<1>2. /\ Spawned(id) /\ job[id].sid \in Sids
      /\ ServerOK(id, h)
      /\ \A q \in Requests : ~WorksOn(q, id)
      /\ \E row \in servers : row.id = id
      /\ \A row \in servers : row.id = id => row.status = "INSTALLING"
  BY <1>1, JobKnows DEF Advances, WorksOn
<1>3. /\ GoesOn(id, pc) /\ pc # "none"
      /\ UNCHANGED req
      /\ Reliable => Reliable'
      /\ \A sid \in Sids : sid # job[id].sid => host'[sid] = host[sid]
      /\ JobHost(id)' = new
  BY <1>2 DEF Advances, GoesOn, JobHost, IInv, TypeOK, HostTypeOK
<1> DEFINE New(status, row) == IF row.id = id THEN [row EXCEPT !.status = status] ELSE row
<1>4. ASSUME NEW status, UpdateStatus(id, status)
      PROVE  servers' = {New(status, row) : row \in servers}
  BY <1>4 DEF UpdateStatus
<1>5. ASSUME NEW status, NEW row \in servers
      PROVE  /\ New(status, row).id = row.id
             /\ New(status, row).memory = row.memory
             /\ New(status, row).cpu = row.cpu
             /\ row.id = id => New(status, row).status = status
  BY DEF IInv, TypeOK, StoreTypeOK, Rows
<1> HIDE DEF New
<1>6. \E row \in servers' : row.id = id
  BY <1>2, <1>4, <1>5
<1>7. /\ \A row : row.id # id => (row \in servers' <=> row \in servers)
      /\ \A row \in servers' : \E old \in servers : old.id = row.id /\ old.sid = row.sid
  <2>1. RowsChange(id, {"RUNNING", "ERROR"})
    BY DEF RowsChange
  <2>2. QED
    BY <2>1, RowsChangeOnly DEF IInv, TypeOK, StoreTypeOK
<1>8. ASSUME NEW row \in servers', row.id = id
      PROVE  RowOK(row, new)'
  <2>1. \A old \in servers : old.id = id =>
           old.memory = job[id].memory /\ old.cpu = job[id].cpu
    BY <1>2 DEF ServerOK, RowOK
  <2>2. CASE UNCHANGED servers
    BY <1>2, <1>3, <1>8, <2>1, <2>2 DEF RowOK, GoesOn
  <2>3. CASE UpdateStatus(id, "ERROR") /\ Failed(new)'
    <3>1. row.status = "ERROR"
      BY <1>4, <1>5, <1>8, <2>3
    <3>2. QED
      BY <2>3, <3>1 DEF RowOK
  <2>4. CASE /\ UpdateStatus(id, "RUNNING")
             /\ pc = "ended"
             /\ Whole(new)
             /\ new.config = DiskConfig(job[id].memory, job[id].cpu)
             /\ new.running => new.live = new.config
             /\ GuestHalts \/ new.running
    <3>1. PICK old \in servers : row = New("RUNNING", old)
      BY <1>4, <1>8, <2>4
    <3>2. /\ row.status = "RUNNING"
          /\ row.memory = job[id].memory /\ row.cpu = job[id].cpu
      BY <1>5, <1>8, <2>1, <3>1
    <3>3. RowAt(LateOn(id)', "ok", 0, 0, row, new)
      BY <2>4, <3>2 DEF RowAt, DownPcs, UpPcs, MarkPcs
    <3>4. QED
      BY <1>3, <1>8, <2>4, <3>2, <3>3 DEF RowOK, Whole, GoesOn
  <2>5. QED
    BY <2>2, <2>3, <2>4
<1>9. ServerOK(id, new)'
  <2>1. RowsWithId(id)' # {}
    BY <1>6 DEF RowsWithId
  <2>2. \A q \in Requests : ~WorksOn(q, id)'
    BY <1>2, <1>3 DEF WorksOn
  <2>3. QED
    BY <1>8, <2>1, <2>2 DEF ServerOK, Advances, WorksOn
<1>10. Only(id)
  <2>1. ASSUME NEW row \in servers', row.id = id
        PROVE  row.sid = job'[id].sid
    BY <1>3, <1>7, <2>1 DEF HInv, Links, GoesOn
  <2>2. QED
    BY <1>2, <1>3, <1>7, <2>1 DEF Only, GoesOn, Spawned
<1>11. QED
  BY <1>3, <1>9, <1>10, Framed

\* The rest of the cleanup takes away from the container of a failed server.
LEMMA CleaningHInv ==
    ASSUME IInv, IInv', LInv, HInv, Orderly, NEW id \in Requests,
           NEW pc, pc \notin UndecidedPcs, NEW new \in Containers, Advances(id, pc, new),
           job[id].pc \notin UndecidedPcs, Shrinks(JobHost(id), new), UNCHANGED servers
    PROVE  HInv'
<1>1. PICK h \in Containers : h = JobHost(id)
  BY JobKnows DEF Advances
<1>2. /\ Spawned(id) /\ job[id].sid \in Sids
      /\ ServerOK(id, h)
      /\ \A q \in Requests : ~(req[q].pc \in OtherPcs /\ req[q].id = id)
  BY <1>1, JobKnows DEF Advances
<1>3. /\ GoesOn(id, pc) /\ pc # "none"
      /\ UNCHANGED req
      /\ Reliable => Reliable'
      /\ \A sid \in Sids : sid # job[id].sid => host'[sid] = host[sid]
      /\ JobHost(id)' = new
      /\ job'[id].pc = pc
      /\ Shrinks(h, new)
      /\ job[id].pc # "ended"
  BY <1>1, <1>2 DEF Advances, GoesOn, JobHost, IInv, TypeOK, HostTypeOK, Active, ActivePcs,
                    InstallPcs, CleanupPcs
<1>4. /\ Failed(h) => Failed(new)'
      /\ \A at : PurgeAt(at, h) => PurgeAt(at, new)'
  BY <1>3, ShrinkKeeps
<1>5. ASSUME NEW row \in servers', row.id = id
      PROVE  RowOK(row, new)'
  <2>1. RowOK(row, h)
    BY <1>2, <1>5 DEF ServerOK
  <2>2. QED
    BY <1>3, <1>4, <1>5, <2>1 DEF RowOK, GoesOn
<1>6. (RowsWithId(id) = {} => GoneOK(id, new))'
  <2>1. RowsWithId(id)' = RowsWithId(id)
    BY DEF RowsWithId
  <2>2. QED
    BY <1>2, <1>3, <2>1 DEF ServerOK, GoneOK, Shrinks
<1>7. ASSUME NEW q \in Requests, (req[q].pc \in PurgePcs /\ req[q].id = id)'
      PROVE  PurgeOK(q, new)'
  <2>1. PurgeOK(q, h)
    BY <1>2, <1>3, <1>7 DEF ServerOK
  <2>2. QED
    BY <1>3, <1>4, <1>7, <2>1 DEF PurgeOK
<1>8. ServerOK(id, new)'
  BY <1>2, <1>3, <1>5, <1>6, <1>7 DEF ServerOK, Advances
<1>9. Only(id)
  BY <1>2, <1>3 DEF Only, GoesOn, Spawned, HInv, Links
<1>10. QED
  BY <1>3, <1>8, <1>9, Framed

-----------------------------------------------------------------------------
\* How far an installation that goes on at pc has come; what one that fails
\* leaves when the call it made was possible and when it was not.
Comes(id, pc, h) ==
    /\ ~(h.mounted /\ h.running)
    /\ h.mounted => job[id].diskMounted
    /\ MadeAt(pc, job[id].memory, job[id].cpu, h)

Leaves(noted, can, partial, onError) ==
    \A left \in partial : /\ left \in Containers
                          /\ Rooted(left)
                          /\ ~(left.mounted /\ left.running)
                          /\ left.mounted => noted
                          /\ ~can => ~left.mounted /\ ~left.running
                          /\ onError = "abort" => Clean(left)

\* A step of the installation proper: it comes further, or it fails and leaves
\* what only the one fault of the host can have left mounted or running.
LEMMA InstallStepHInv ==
    ASSUME IInv, IInv', LInv, HInv, Orderly, NEW id \in Requests, NEW pc \in InstallPcs, NEW can,
           NEW new \in Containers, NEW next \in InstallPcs, NEW partial,
           NEW onError \in {"abort", "kmark", "kunbind"},
           InstallStep(id, pc, can, new, next, partial, onError), UNCHANGED req,
           can => Comes(id, next, new), Leaves(job[id].diskMounted, can, partial, onError)
    PROVE  HInv'
<1>1. /\ job[id].pc = pc /\ Active(id) /\ job[id].pc \in UndecidedPcs
      /\ UNCHANGED servers
      /\ Reliable => Reliable'
  BY FaultsRunOut DEF InstallStep, Active, ActivePcs, UndecidedPcs
<1>2. CASE /\ can
           /\ host' = [host EXCEPT ![job[id].sid] = new]
           /\ JobGoto(id, next)
  <2>1. GoesOn(id, next) /\ job'[id].diskMounted = job[id].diskMounted
    BY <1>2, JobGoesOn
  <2>2. next \notin CleanupPcs /\ next # "none"
    BY DEF InstallPcs, CleanupPcs
  <2>3. Made(job[id], new)'
    <3>1. MadeAt(next, job[id].memory, job[id].cpu, new)'
      BY <1>1, <1>2, <2>1, <2>2 DEF MadeAt, GoesOn, Comes, Failed, CleanupPcs
    <3>2. QED
      BY <1>2, <2>1, <3>1 DEF Made, Noted, GoesOn, Comes
  <2>4. Advances(id, next, new)
    BY <1>1, <1>2, <2>1, <2>2, <2>3 DEF Advances, Comes
  <2>5. QED
    BY <1>1, <2>4, InstallingHInv
<1>3. ASSUME NEW left \in partial, ~can \/ Fails("host"),
             host' = [host EXCEPT ![job[id].sid] = left], JobGoto(id, onError)
      PROVE  HInv'
  <2>1. GoesOn(id, onError) /\ job'[id].diskMounted = job[id].diskMounted
    BY <1>3, JobGoesOn
  <2>2. OneFault /\ (left.mounted \/ left.running) => Reliable'
    BY <1>3, FaultsRunOut DEF Leaves
  <2>3. Failed(left)'
    BY <2>2 DEF Failed, Leaves
  <2>4. Made(job[id], left)'
    BY <1>3, <2>1, <2>3 DEF Made, MadeAt, Noted, GoesOn, Leaves
  <2>5. Advances(id, onError, left) /\ left \in Containers
    BY <1>1, <1>3, <2>1, <2>4 DEF Advances, Leaves
  <2>6. QED
    BY <1>1, <2>5, InstallingHInv
<1>4. QED
  BY <1>2, <1>3 DEF InstallStep

\* The installation up to the container that waits for its image.
LEMMA CreatingHInv ==
    ASSUME IInv, IInv', LInv, HInv, Orderly, NEW id \in Requests, UNCHANGED req,
           CheckBridge(id) \/ CreateContainer(id) \/ MakeDisk(id)
    PROVE  HInv'
<1>1. Active(id)
  BY DEF CheckBridge, CreateContainer, MakeDisk, InstallStep, Active, ActivePcs, InstallPcs
<1>2. PICK h \in Containers : h = JobHost(id)
  BY <1>1, JobKnows
<1>3. Made(job[id], h)
  BY <1>1, <1>2, JobKnows
<1>4. PICK memory, cpu : memory = job[id].memory /\ cpu = job[id].cpu
  OBVIOUS
<1>5. CASE CheckBridge(id)
  <2>1. h = Nothing /\ ~h.mounted
    BY <1>3, <1>5 DEF CheckBridge, InstallStep, Made, MadeAt, Nothing
  <2>2. MadeAt("create", memory, cpu, h)
    BY <1>4, <2>1 DEF Made, MadeAt, CleanupPcs
  <2>3. Comes(id, "create", h) /\ Leaves(job[id].diskMounted, TRUE, {h}, "abort")
    BY <1>4, <2>1, <2>2, NothingClean DEF Comes, Leaves
  <2>4. InstallStep(id, "bridge", TRUE, h, "create", {h}, "abort")
    BY <1>2, <1>5 DEF CheckBridge
  <2>5. "bridge" \in InstallPcs /\ "create" \in InstallPcs
    BY DEF InstallPcs
  <2>6. QED
    BY <2>3, <2>4, <2>5, InstallStepHInv
<1>6. CASE CreateContainer(id)
  <2>1. h = Nothing
    BY <1>3, <1>6 DEF CreateContainer, InstallStep, Made, MadeAt
  <2>2. Created(h) = Created(Nothing) /\ ~Created(h).mounted
    BY <2>1 DEF Created, Nothing
  <2>3. MadeAt("disk", memory, cpu, Created(h))
    BY <1>4, <2>2 DEF Made, MadeAt, CleanupPcs
  <2>4. NoConfig \in Configs
    BY DEF NoConfig, Configs
  <2>5. Created(h) \in Containers /\ MadeDir(h) \in Containers
    BY <2>4, ContainerTypes
  <2>6. Clean(h) /\ Rooted(h) /\ Clean(MadeDir(h)) /\ Rooted(MadeDir(h))
    BY <2>1, <2>4, NothingClean, CallFields DEF Clean, Rooted, Defined
  <2>7. InstallStep(id, "create", CanCreate(h), Created(h), "disk", {h, MadeDir(h)}, "abort")
    BY <1>2, <1>6 DEF CreateContainer
  <2>8. "create" \in InstallPcs /\ "disk" \in InstallPcs
    BY DEF InstallPcs
  <2>9. Comes(id, "disk", Created(h))
    BY <1>4, <2>2, <2>3 DEF Comes
  <2>10. Leaves(job[id].diskMounted, CanCreate(h), {h, MadeDir(h)}, "abort")
    BY <2>5, <2>6 DEF Leaves, Clean
  <2>11. QED
    BY <2>5, <2>7, <2>8, <2>9, <2>10, InstallStepHInv
<1>7. CASE MakeDisk(id)
  <2>1. h = Created(Nothing)
    BY <1>3, <1>7 DEF MakeDisk, InstallStep, Made, MadeAt
  <2>2. /\ h.dir /\ h.tree /\ h.config = TemplateConfig /\ h.disk = "none"
        /\ ~h.mounted /\ ~h.bound /\ ~h.running
    BY <2>1 DEF Created, Nothing
  <2>3. TemplateConfig # NoConfig
    <3>1. TemplateConfig.rootfs # NoConfig.rootfs
      BY DEF TemplateConfig, NoConfig
    <3>2. QED
      BY <3>1
  <2> DEFINE made == [h EXCEPT !.tree = FALSE, !.disk = "empty"]
             moved == [h EXCEPT !.tree = FALSE]
  <2>4. made \in Containers /\ moved \in Containers
    BY InstallTypes
  <2>5. /\ made.dir /\ made.config = TemplateConfig /\ made.disk = "empty"
        /\ ~made.mounted /\ ~made.bound /\ ~made.running
        /\ moved.config = TemplateConfig
        /\ ~moved.mounted /\ ~moved.bound /\ ~moved.running
    BY <2>2 DEF Containers
  <2>6. InstallStep(id, "disk", h.dir /\ h.tree, made, "mount", {h, moved, made}, "kmark")
    BY <1>2, <1>7, <2>2 DEF MakeDisk, InstallStep
  <2> HIDE DEF made, moved
  <2>7. MadeAt("mount", memory, cpu, made)
    BY <1>4, <2>3, <2>5 DEF Made, MadeAt, CleanupPcs, Image, Defined
  <2>8. /\ Comes(id, "mount", made)
        /\ Leaves(job[id].diskMounted, h.dir /\ h.tree, {h, moved, made}, "kmark")
    BY <1>4, <2>2, <2>3, <2>4, <2>5, <2>7 DEF Rooted, Defined, Comes, Leaves
  <2>9. "disk" \in InstallPcs /\ "mount" \in InstallPcs
    BY DEF InstallPcs
  <2>10. QED
    BY <2>4, <2>6, <2>8, <2>9, InstallStepHInv
<1>8. QED
  BY <1>5, <1>6, <1>7

\* The installation of the image while it is mounted.
LEMMA FillingHInv ==
    ASSUME IInv, IInv', LInv, HInv, Orderly, NEW id \in Requests, UNCHANGED req,
           CopyTree(id) \/ Configure(id) \/ CheckInit(id)
    PROVE  HInv'
<1>1. Active(id)
  BY DEF CopyTree, Configure, CheckInit, InstallStep, Active, ActivePcs, InstallPcs
<1>2. PICK h \in Containers : h = JobHost(id)
  BY <1>1, JobKnows
<1>3. Made(job[id], h) /\ (h.mounted => job[id].diskMounted)
  BY <1>1, <1>2, JobKnows
<1>4. PICK memory, cpu : memory = job[id].memory /\ cpu = job[id].cpu
  OBVIOUS
<1>5. PICK config \in Configs : config = DiskConfig(memory, cpu)
  BY <1>1, <1>4, JobHostType DEF Jobs, Configs, DiskConfig
<1>6. CASE CopyTree(id)
  <2>1. Image(h, "empty", TRUE) /\ ~h.bound
    BY <1>3, <1>6 DEF CopyTree, InstallStep, Made, MadeAt
  <2>2. PICK full \in Containers : full = [h EXCEPT !.disk = "full"]
    BY InstallTypes
  <2>3. Image(full, "full", TRUE) /\ ~full.bound
    BY <2>1, <2>2 DEF Image, Defined, Containers
  <2>4. MadeAt("bind", memory, cpu, full)
    BY <2>3 DEF MadeAt
  <2>5. Comes(id, "bind", full) /\ Leaves(job[id].diskMounted, TRUE, {h, full}, "kmark")
    BY <1>3, <1>4, <2>1, <2>3, <2>4 DEF Comes, Leaves, Image, Rooted
  <2>6. InstallStep(id, "copy", TRUE, full, "bind", {h, full}, "kmark")
    BY <1>2, <1>6, <2>1, <2>2 DEF CopyTree, InstallStep, Image
  <2>7. "copy" \in InstallPcs /\ "bind" \in InstallPcs
    BY DEF InstallPcs
  <2>8. QED
    BY <2>5, <2>6, <2>7, InstallStepHInv
<1>7. CASE Configure(id)
  <2>1. Image(h, "full", TRUE) /\ (OneFault /\ h.bound => Reliable)
    BY <1>3, <1>7 DEF Configure, InstallStep, Made, MadeAt
  <2>2. PICK new \in Containers : new = Saved(h, config)
    BY ContainerTypes
  <2>3. new.config = config /\ Image(new, "full", TRUE) /\ new.bound = h.bound
    <3>1. config # NoConfig
      <4>1. config.rootfs # NoConfig.rootfs
        BY <1>5 DEF DiskConfig, NoConfig
      <4>2. QED
        BY <4>1
    <3>2. QED
      BY <2>1, <2>2, <3>1, CallFields DEF Image, Defined
  <2>4. MadeAt("init", memory, cpu, new)
    BY <1>5, <2>1, <2>3 DEF MadeAt
  <2>5. Comes(id, "init", new) /\ Leaves(job[id].diskMounted, CanSave(h), {h}, "kmark")
    BY <1>3, <1>4, <2>1, <2>3, <2>4 DEF Comes, Leaves, CanSave, Image, Rooted
  <2>6. InstallStep(id, "configure", CanSave(h), new, "init", {h}, "kmark")
    BY <1>2, <1>4, <1>5, <1>7, <2>2 DEF Configure
  <2>7. "configure" \in InstallPcs /\ "init" \in InstallPcs
    BY DEF InstallPcs
  <2>8. QED
    BY <2>5, <2>6, <2>7, InstallStepHInv
<1>8. CASE CheckInit(id)
  <2>1. /\ Image(h, "full", TRUE) /\ h.config = config
        /\ OneFault /\ h.bound => Reliable
    BY <1>3, <1>4, <1>5, <1>8 DEF CheckInit, InstallStep, Made, MadeAt
  <2>2. MadeAt("unmount", memory, cpu, h)
    BY <1>5, <2>1 DEF MadeAt
  <2>3. Comes(id, "unmount", h) /\ Leaves(job[id].diskMounted, TRUE, {h}, "kmark")
    BY <1>3, <1>4, <2>1, <2>2 DEF Comes, Leaves, Image, Rooted
  <2>4. InstallStep(id, "init", TRUE, h, "unmount", {h}, "kmark")
    BY <1>2, <1>8, <2>1 DEF CheckInit, InstallStep, Image
  <2>5. "init" \in InstallPcs /\ "unmount" \in InstallPcs
    BY DEF InstallPcs
  <2>6. QED
    BY <2>3, <2>4, <2>5, InstallStepHInv
<1>9. QED
  BY <1>6, <1>7, <1>8

\* Directories of the host are bound into the mounted image, and unbound again,
\* unless the one call fails that unbinds them.
LEMMA BindingHInv ==
    ASSUME IInv, IInv', LInv, HInv, Orderly, NEW id \in Requests, UNCHANGED req,
           BindHost(id) \/ InstallInit(id) \/ UnbindHost(id)
    PROVE  HInv'
<1>1. Active(id) /\ job[id].pc \in UndecidedPcs
  BY DEF BindHost, InstallInit, UnbindHost, InstallStep, CleanupStep, Active, ActivePcs,
         UndecidedPcs, InstallPcs
<1>2. PICK h \in Containers : h = JobHost(id)
  BY <1>1, JobKnows
<1>3. Made(job[id], h) /\ (h.mounted => job[id].diskMounted) /\ ~(h.mounted /\ h.running)
  BY <1>1, <1>2, JobKnows DEF ServerOK
<1>4. PICK memory, cpu : memory = job[id].memory /\ cpu = job[id].cpu
  OBVIOUS
<1>5. /\ "bind" \in InstallPcs /\ "chroot" \in InstallPcs
      /\ "unbind" \in InstallPcs /\ "configure" \in InstallPcs
  BY DEF InstallPcs
<1>6. CASE BindHost(id)
  <2>1. Image(h, "full", TRUE) /\ ~h.bound
    BY <1>3, <1>6 DEF BindHost, InstallStep, Made, MadeAt
  <2>2. CASE InstallStep(id, "bind", TRUE, h, "configure", {h}, "kunbind")
    <3>1. MadeAt("configure", memory, cpu, h)
      BY <2>1 DEF MadeAt
    <3>2. Comes(id, "configure", h) /\ Leaves(job[id].diskMounted, TRUE, {h}, "kunbind")
      BY <1>3, <1>4, <2>1, <3>1 DEF Comes, Leaves, Image, Rooted
    <3>3. QED
      BY <1>5, <2>2, <3>2, InstallStepHInv
  <2>3. CASE InstallStep(id, "bind", TRUE, Bound(MadeDir(h)), "chroot",
                         {h, MadeDir(h), Bound(MadeDir(h))}, "kunbind")
    <3>1. PICK made \in Containers : made = MadeDir(h)
      BY DEF MadeDir, Containers
    <3>2. PICK bound \in Containers : bound = Bound(made)
      BY DEF Bound, Containers
    <3>3. /\ Image(made, "full", TRUE) /\ ~made.bound
          /\ Image(bound, "full", TRUE)
      BY <2>1, <3>1, <3>2 DEF MadeDir, Bound, Containers, Image, Defined
    <3>4. MadeAt("chroot", memory, cpu, bound)
      BY <3>3 DEF MadeAt
    <3>5. /\ Comes(id, "chroot", bound)
          /\ Leaves(job[id].diskMounted, TRUE, {h, made, bound}, "kunbind")
      BY <1>3, <1>4, <2>1, <3>3, <3>4 DEF Comes, Leaves, Image, Rooted
    <3>6. InstallStep(id, "bind", TRUE, bound, "chroot", {h, made, bound}, "kunbind")
      BY <2>3, <3>1, <3>2
    <3>7. QED
      BY <1>5, <3>5, <3>6, InstallStepHInv
  <2>4. QED
    BY <1>2, <1>6, <2>2, <2>3 DEF BindHost
<1>7. CASE InstallInit(id)
  <2>1. Image(h, "full", TRUE)
    BY <1>3, <1>7 DEF InstallInit, InstallStep, Made, MadeAt
  <2>2. MadeAt("unbind", memory, cpu, h)
    BY <2>1 DEF MadeAt
  <2>3. Comes(id, "unbind", h) /\ Leaves(job[id].diskMounted, TRUE, {h}, "kunbind")
    BY <1>3, <1>4, <2>1, <2>2 DEF Comes, Leaves, Image, Rooted
  <2>4. InstallStep(id, "chroot", TRUE, h, "unbind", {h}, "kunbind")
    BY <1>2, <1>7, <2>1 DEF InstallInit, InstallStep, Image
  <2>5. QED
    BY <1>5, <2>3, <2>4, InstallStepHInv
<1>8. CASE UnbindHost(id)
  <2>1. /\ UNCHANGED servers
        /\ Reliable => Reliable'
    BY <1>8, FaultsRunOut DEF UnbindHost, CleanupStep, IgnoringErrors
  <2>2. PICK new \in Containers : new = Unbound(h)
    BY DEF Unbound, Containers
  <2>3. /\ ~new.bound /\ new.dir = h.dir /\ new.config = h.config /\ new.disk = h.disk
        /\ new.mounted = h.mounted /\ new.running = h.running
    BY <2>2 DEF Unbound, Containers
  <2>4. PICK left \in {h, new} : /\ host' = [host EXCEPT ![job[id].sid] = left]
                                 /\ left.bound => Fails("host")
    <3>1. \/ Fails("host") /\ UNCHANGED host
          \/ host' = [host EXCEPT ![job[id].sid] = new]
      BY <1>2, <1>8, <2>2 DEF UnbindHost, CleanupStep, IgnoringErrors
    <3>2. QED
      BY <1>1, <1>2, <2>3, <3>1, JobKnows
  <2>5. OneFault /\ left.bound => Reliable'
    BY <2>4, FaultsRunOut
  <2>6. /\ left \in Containers
        /\ left.dir = h.dir /\ left.config = h.config /\ left.disk = h.disk
        /\ left.mounted = h.mounted /\ left.running = h.running
        /\ left.bound => h.bound
    BY <2>3, <2>4
  <2>7. ASSUME NEW pc \in {"configure", "kmark"}, JobGoto(id, pc),
               MadeAt(pc, memory, cpu, left)'
        PROVE  HInv'
    <3>1. GoesOn(id, pc) /\ job'[id].diskMounted = job[id].diskMounted
      BY <2>7, JobGoesOn
    <3>2. Made(job[id], left)'
      BY <1>3, <1>4, <2>6, <2>7, <3>1 DEF Made, Noted, GoesOn
    <3>3. Advances(id, pc, left)
      BY <1>1, <1>3, <2>1, <2>4, <2>6, <3>1, <3>2 DEF Advances
    <3>4. QED
      BY <1>1, <2>1, <2>6, <3>3, InstallingHInv
  <2>8. CASE job[id].pc = "unbind" /\ JobGoto(id, "configure")
    <3>1. Image(left, "full", TRUE)
      BY <1>3, <2>6, <2>8 DEF Made, MadeAt, Image, Defined
    <3>2. MadeAt("configure", memory, cpu, left)'
      BY <2>5, <3>1 DEF MadeAt
    <3>3. QED
      BY <2>7, <2>8, <3>2
  <2>9. CASE job[id].pc = "kunbind" /\ JobGoto(id, "kmark")
    <3>1. Failed(h)
      BY <1>3, <2>9 DEF Made, MadeAt
    <3>2. Failed(left)'
      BY <2>1, <2>6, <3>1 DEF Failed, Rooted, Defined
    <3>3. MadeAt("kmark", memory, cpu, left)'
      BY <3>2 DEF MadeAt
    <3>4. QED
      BY <2>7, <2>9, <3>3
  <2>10. QED
    BY <1>8, <2>8, <2>9 DEF UnbindHost, CleanupStep
<1>9. QED
  BY <1>6, <1>7, <1>8

\* The installed container is started, and waited for.
LEMMA StartingHInv ==
    ASSUME IInv, IInv', LInv, HInv, Orderly, NEW id \in Requests, UNCHANGED req,
           StartInstalled(id) \/ BootInstalled(id)
    PROVE  HInv'
<1>1. Active(id)
  BY DEF StartInstalled, BootInstalled, InstallStep, Active, ActivePcs, InstallPcs
<1>2. PICK h \in Containers : h = JobHost(id)
  BY <1>1, JobKnows
<1>3. PICK memory, cpu : memory = job[id].memory /\ cpu = job[id].cpu
  OBVIOUS
<1>4. PICK config \in Configs : config = DiskConfig(memory, cpu)
  BY <1>1, <1>3, JobHostType DEF Jobs, Configs, DiskConfig
<1>5. Made(job[id], h)
  BY <1>1, <1>2, JobKnows
<1>6. Whole(h) /\ h.config = config /\ ~h.bound /\ Rooted(h)
  <2>1. Whole(h) /\ h.config = config /\ ~h.bound
    BY <1>3, <1>4, <1>5 DEF StartInstalled, BootInstalled, InstallStep, Made, MadeAt
  <2>2. Whole(h) => Defined(h)
    BY DEF Whole, Defined, NoConfig
  <2>3. QED
    BY <2>1, <2>2 DEF Rooted
<1>7. CASE StartInstalled(id)
  <2>1. ~h.running
    BY <1>5, <1>7 DEF StartInstalled, InstallStep, Made, MadeAt
  <2>2. PICK new \in Containers : new = Started(h, config)
    BY ContainerTypes
  <2>3. /\ Whole(new) /\ new.config = config /\ new.running /\ new.live = config
        /\ ~new.bound
    BY <1>6, <2>2, CallFields DEF Whole
  <2>4. MadeAt("boot", memory, cpu, new)
    BY <1>4, <2>3 DEF Made, MadeAt, CleanupPcs
  <2>5. Comes(id, "boot", new) /\ Leaves(job[id].diskMounted, CanStart(h, config), {h}, "kmark")
    BY <1>3, <1>6, <2>1, <2>3, <2>4 DEF Comes, Leaves, Whole
  <2>6. InstallStep(id, "start", CanStart(h, config), new, "boot", {h}, "kmark")
    BY <1>2, <1>3, <1>4, <1>7, <2>2 DEF StartInstalled
  <2>7. "start" \in InstallPcs /\ "boot" \in InstallPcs
    BY DEF InstallPcs
  <2>8. QED
    BY <2>5, <2>6, <2>7, InstallStepHInv
<1>8. CASE BootInstalled(id)
  <2>1. (h.running => h.live = config) /\ (GuestHalts \/ h.running)
    BY <1>3, <1>4, <1>5, <1>8 DEF BootInstalled, InstallStep, Made, MadeAt
  <2>2. MadeAt("finish", memory, cpu, h)
    BY <1>4, <1>6, <2>1 DEF Made, MadeAt, CleanupPcs
  <2>3. Comes(id, "finish", h) /\ Leaves(job[id].diskMounted, h.running, {h}, "kmark")
    BY <1>3, <1>6, <2>2 DEF Comes, Leaves, Whole
  <2>4. InstallStep(id, "boot", h.running, h, "finish", {h}, "kmark")
    BY <1>2, <1>8 DEF BootInstalled
  <2>5. "boot" \in InstallPcs /\ "finish" \in InstallPcs
    BY DEF InstallPcs
  <2>6. QED
    BY <2>3, <2>4, <2>5, InstallStepHInv
<1>9. QED
  BY <1>7, <1>8

\* The mount of the image, and its end.
LEMMA MountingHInv ==
    ASSUME IInv, IInv', LInv, HInv, Orderly, NEW id \in Requests, UNCHANGED req,
           MountDisk(id) \/ UnmountDisk(id)
    PROVE  HInv'
<1>1. /\ Active(id) /\ job[id].pc \in UndecidedPcs
      /\ UNCHANGED servers
      /\ Reliable => Reliable'
  BY FaultsRunOut DEF MountDisk, UnmountDisk, Active, ActivePcs, UndecidedPcs, InstallPcs
<1>2. PICK h \in Containers : h = JobHost(id)
  BY <1>1, JobKnows
<1>3. Made(job[id], h) /\ (h.mounted => job[id].diskMounted)
  BY <1>1, <1>2, JobKnows
<1>4. NoConfig \in Configs
  BY DEF NoConfig, Configs
<1>5. CASE MountDisk(id)
  <2>1. Image(h, "empty", FALSE) /\ ~h.bound
    BY <1>3, <1>5 DEF MountDisk, Made, MadeAt
  <2>2. CASE /\ host' = [host EXCEPT ![job[id].sid].mounted = TRUE]
             /\ job' = [job EXCEPT ![id].pc = "copy", ![id].diskMounted = TRUE]
    <3>1. PICK new \in Containers : new = [h EXCEPT !.mounted = TRUE]
      BY DEF Containers
    <3>2. Image(new, "empty", TRUE) /\ ~new.bound
      BY <2>1, <3>1 DEF Image, Defined, Containers
    <3>3. host' = [host EXCEPT ![job[id].sid] = new]
      BY <1>2, <2>2, <3>1 DEF JobHost
    <3>4. GoesOn(id, "copy") /\ job'[id].diskMounted
      BY <2>2, JobGoesOn
    <3>5. Made(job[id], new)'
      BY <3>2, <3>4 DEF GoesOn, Made, MadeAt, Noted
    <3>6. Advances(id, "copy", new)
      BY <1>1, <3>2, <3>3, <3>4, <3>5 DEF Advances, Image
    <3>7. QED
      BY <1>1, <3>6, InstallingHInv
  <2>3. CASE JobGoto(id, "kmark") /\ UNCHANGED host
    <3>1. GoesOn(id, "kmark")
      BY <2>3, JobGoesOn
    <3>2. Failed(h)'
      BY <2>1 DEF Failed, Rooted, Image
    <3>3. Made(job[id], h)'
      BY <2>1, <3>1, <3>2 DEF GoesOn, Made, MadeAt, Noted, Image
    <3>4. host' = [host EXCEPT ![job[id].sid] = h]
      BY <1>1, <1>2, <2>3, JobKnows
    <3>5. Advances(id, "kmark", h)
      BY <1>1, <2>1, <3>1, <3>3, <3>4 DEF Advances, Image
    <3>6. QED
      BY <1>1, <3>5, InstallingHInv
  <2>4. QED
    BY <1>5, <2>2, <2>3 DEF MountDisk
<1>6. CASE UnmountDisk(id)
  <2>1. /\ Image(h, "full", TRUE) /\ h.config = DiskConfig(job[id].memory, job[id].cpu)
        /\ OneFault /\ h.bound => Reliable
    BY <1>3, <1>6 DEF UnmountDisk, Made, MadeAt
  <2>2. CASE /\ host' = [host EXCEPT ![job[id].sid] = Unmounted(h)]
             /\ job' = [job EXCEPT ![id].pc = "start", ![id].diskMounted = FALSE]
    <3>1. PICK new \in Containers : new = Unmounted(h)
      BY <1>4, ContainerTypes
    <3>2. /\ Whole(new) /\ ~new.running /\ ~new.bound
          /\ new.config = DiskConfig(job[id].memory, job[id].cpu)
      BY <1>4, <2>1, <3>1, CallFields DEF Image, Whole, DiskConfig
    <3>3. GoesOn(id, "start")
      BY <2>2, JobGoesOn
    <3>4. Made(job[id], new)'
      BY <3>2, <3>3 DEF GoesOn, Made, MadeAt, Noted, Whole
    <3>5. Advances(id, "start", new)
      BY <1>1, <2>2, <3>1, <3>2, <3>3, <3>4 DEF Advances
    <3>6. QED
      BY <1>1, <3>5, InstallingHInv
  <2>3. CASE (~CanUnmount(h) \/ Fails("host")) /\ JobGoto(id, "kmark") /\ UNCHANGED host
    <3>1. GoesOn(id, "kmark") /\ job'[id].diskMounted = job[id].diskMounted
      BY <2>3, JobGoesOn
    <3>2. Failed(h)'
      BY <1>1, <2>1, <2>3, FaultsRunOut DEF Failed, Rooted, Image, CanUnmount
    <3>3. Made(job[id], h)'
      BY <1>3, <3>1, <3>2 DEF GoesOn, Made, MadeAt, Noted
    <3>4. host' = [host EXCEPT ![job[id].sid] = h]
      BY <1>1, <1>2, <2>3, JobKnows
    <3>5. Advances(id, "kmark", h)
      BY <1>1, <2>1, <3>1, <3>3, <3>4 DEF Advances, Image
    <3>6. QED
      BY <1>1, <3>5, InstallingHInv
  <2>4. QED
    BY <1>2, <1>6, <2>1, <2>2, <2>3 DEF UnmountDisk, Image
<1>7. QED
  BY <1>5, <1>6

\* The verdict: the row says RUNNING when the container is ready, and ERROR when
\* a cleanup is due, or nothing to clean up.
LEMMA VerdictHInv ==
    ASSUME IInv, IInv', LInv, HInv, Orderly, NEW id \in Requests, UNCHANGED req,
           FinishInstall(id) \/ Abort(id) \/ CleanupMark(id)
    PROVE  HInv'
<1>1. /\ Active(id) /\ job[id].pc \in UndecidedPcs
      /\ UNCHANGED host
      /\ Reliable => Reliable'
  BY FaultsRunOut DEF FinishInstall, Abort, CleanupMark, JobMark, Active, ActivePcs, UndecidedPcs,
                      InstallPcs, CleanupPcs
<1>2. PICK h \in Containers : h = JobHost(id)
  BY <1>1, JobKnows
<1>3. /\ Made(job[id], h) /\ ~(h.mounted /\ h.running)
      /\ h.mounted => job[id].diskMounted
      /\ host' = [host EXCEPT ![job[id].sid] = h]
  BY <1>1, <1>2, JobKnows DEF ServerOK
<1>4. ASSUME NEW pc \in {"ended", "kstop"}, JobGoto(id, pc), pc = "kstop" => Failed(h)'
      PROVE  Advances(id, pc, h)
  <2>1. GoesOn(id, pc) /\ job'[id].diskMounted = job[id].diskMounted
    BY <1>4, JobGoesOn
  <2>2. Made(job[id], h)'
    BY <1>3, <1>4, <2>1 DEF GoesOn, Made, MadeAt, Noted
  <2>3. QED
    BY <1>1, <1>3, <2>1, <2>2 DEF Advances
<1>5. CASE FinishInstall(id)
  <2>1. /\ Whole(h)
        /\ h.config = DiskConfig(job[id].memory, job[id].cpu)
        /\ h.running => h.live = h.config
        /\ GuestHalts \/ h.running
    BY <1>3, <1>5 DEF FinishInstall, JobMark, Made, MadeAt
  <2>2. Advances(id, "ended", h)
    BY <1>4, <1>5 DEF FinishInstall, JobMark
  <2>3. UNCHANGED servers \/ UpdateStatus(id, "RUNNING")
    BY <1>5 DEF FinishInstall, JobMark
  <2>4. QED
    BY <1>1, <2>1, <2>2, <2>3, InstallingHInv
<1>6. CASE Abort(id)
  <2>1. Failed(h)'
    BY <1>3, <1>6 DEF Abort, JobMark, Made, MadeAt, Clean, Failed, Rooted
  <2>2. Advances(id, "ended", h)
    BY <1>4, <1>6 DEF Abort, JobMark
  <2>3. UNCHANGED servers \/ UpdateStatus(id, "ERROR")
    BY <1>6 DEF Abort, JobMark
  <2>4. QED
    BY <1>1, <2>1, <2>2, <2>3, InstallingHInv
<1>7. CASE CleanupMark(id)
  <2>1. Failed(h)
    BY <1>3, <1>7 DEF CleanupMark, JobMark, Made, MadeAt, CleanupPcs
  <2>2. Failed(h)'
    BY <1>1, <2>1 DEF Failed
  <2>3. Advances(id, "kstop", h)
    BY <1>4, <1>7, <2>2 DEF CleanupMark, JobMark
  <2>4. UNCHANGED servers \/ UpdateStatus(id, "ERROR")
    BY <1>7 DEF CleanupMark, JobMark
  <2>5. QED
    BY <1>1, <2>2, <2>3, <2>4, InstallingHInv
<1>8. QED
  BY <1>5, <1>6, <1>7

\* A call of the cleanup, made, failed or not called for.
LEMMA CleanupStepHInv ==
    ASSUME IInv, IInv', LInv, HInv, Orderly, NEW id \in Requests, UNCHANGED req,
           NEW pc \in {"kstop", "kumount", "kdestroy", "kremove"}, NEW called, NEW can,
           NEW new \in Containers, NEW next \in {"kumount", "kdestroy", "kremove", "ended"},
           CleanupStep(id, pc, called, can, new, next), Shrinks(JobHost(id), new),
           pc = "kumount" => ~new.mounted /\ (JobHost(id).mounted => called /\ can),
           next \in {"kdestroy", "kremove"} => pc \in {"kumount", "kdestroy"}
    PROVE  HInv'
<1>1. /\ Active(id) /\ job[id].pc = pc
      /\ pc \notin UndecidedPcs /\ next \notin UndecidedPcs
      /\ GoesOn(id, next) /\ job'[id].diskMounted = job[id].diskMounted
      /\ UNCHANGED servers
      /\ Reliable => Reliable'
  BY FaultsRunOut, JobGoesOn DEF CleanupStep, IgnoringErrors, Active, ActivePcs, UndecidedPcs,
                                 InstallPcs, CleanupPcs
<1>2. PICK h \in Containers : h = JobHost(id)
  BY <1>1, JobKnows
<1>3. /\ Failed(h) /\ ~(h.mounted /\ h.running)
      /\ h.mounted => job[id].diskMounted
      /\ pc \in {"kdestroy", "kremove"} => (OneFault => ~h.mounted)
      /\ host' = [host EXCEPT ![job[id].sid] = h] <=> UNCHANGED host
  <2>1. Made(job[id], h) /\ ServerOK(id, h)
    BY <1>1, <1>2, JobKnows
  <2>2. QED
    BY <1>1, <1>2, <2>1, JobKnows DEF Made, MadeAt, ServerOK, CleanupPcs
<1>4. ASSUME NEW left \in {h, new}, host' = [host EXCEPT ![job[id].sid] = left],
             pc = "kumount" /\ left.mounted => Fails("host")
      PROVE  HInv'
  <2>1. Shrinks(h, left)
    BY <1>2, CallsShrink
  <2>2. Failed(left)'
    BY <1>1, <1>3, <2>1, ShrinkKeeps
  <2>3. Made(job[id], left)'
    <3>1. next \in {"kdestroy", "kremove"} => (OneFault => ~left.mounted)
      BY <1>3, <1>4, <2>1, FaultsRunOut DEF Shrinks, Failed
    <3>2. QED
      BY <1>1, <1>3, <2>1, <2>2, <3>1 DEF GoesOn, Made, MadeAt, Noted, Shrinks
  <2>4. ~(left.mounted /\ left.running)
    BY <1>3, <2>1 DEF Shrinks
  <2>5. Advances(id, next, left)
    BY <1>1, <1>4, <2>3, <2>4 DEF Advances
  <2>6. QED
    BY <1>1, <1>2, <2>1, <2>5, CleaningHInv
<1>5. QED
  BY <1>2, <1>3, <1>4 DEF CleanupStep, IgnoringErrors

\* The cleanup, whatever it calls.
LEMMA CleanupHInv ==
    ASSUME IInv, IInv', LInv, HInv, Orderly, NEW id \in Requests, UNCHANGED req,
           \/ CleanupStop(id) \/ CleanupUnmount(id)
           \/ CleanupDestroy(id) \/ CleanupRemove(id)
    PROVE  HInv'
<1>1. Active(id)
  BY DEF CleanupStop, CleanupUnmount, CleanupDestroy, CleanupRemove, CleanupStep, Active,
         ActivePcs, CleanupPcs
<1>2. PICK h \in Containers : h = JobHost(id)
  BY <1>1, JobKnows
<1>3. NoConfig \in Configs
  BY DEF NoConfig, Configs
<1>4. /\ Shrinks(h, Stopped(h)) /\ Shrinks(h, Unmounted(h))
      /\ Shrinks(h, Removed(h)) /\ Shrinks(h, Destroyed(h))
  BY CallsShrink
<1>5. /\ Stopped(h) \in Containers /\ Unmounted(h) \in Containers
      /\ Removed(h) \in Containers /\ Destroyed(h) \in Containers
  BY <1>3, ContainerTypes
<1>6. CASE CleanupUnmount(id)
  <2>1. ~Unmounted(h).mounted /\ (h.mounted => job[id].diskMounted)
    BY <1>1, <1>2, <1>3, CallFields, JobKnows
  <2>2. QED
    BY <1>2, <1>4, <1>5, <1>6, <2>1, CleanupStepHInv DEF CleanupUnmount
<1>7. QED
  BY <1>2, <1>4, <1>5, <1>6, CleanupStepHInv DEF CleanupStop, CleanupDestroy, CleanupRemove

\* Every step of createServerAsync keeps the invariant.
LEMMA InstallHInv ==
    ASSUME IInv, IInv', LInv, HInv, Orderly, NEW id \in Requests, Install(id)
    PROVE  HInv'
BY CreatingHInv, FillingHInv, BindingHInv, StartingHInv, MountingHInv, VerdictHInv, CleanupHInv
   DEF Install, JobStep, JobAction

-----------------------------------------------------------------------------
\* A container number is drawn for a server that has no container yet.
LEMMA IncrHInv ==
    ASSUME IInv, LInv, HInv, NEW r \in Requests, CreateIncr(r)
    PROVE  HInv'
<1>1. /\ req[r].pc = "create_incr"
      /\ UNCHANGED <<servers, host, job>>
      /\ Reliable => Reliable'
  BY FaultsRunOut DEF CreateIncr
<1>2. \A q \in Requests : q # r => req'[q] = req[q]
  BY DEF CreateIncr, Goto, IInv, TypeOK, ReqTypeOK
<1>3. req'[r].pc \in {"create_insert", "error"}
  BY CallTypes DEF CreateIncr, Goto, IInv, TypeOK, ReqTypeOK, Calls
<1>4. /\ req[r].pc \notin OtherPcs \cup PurgePcs \cup LeftPcs
      /\ req'[r].pc \notin OtherPcs \cup PurgePcs
  BY <1>1, <1>3 DEF OtherPcs, PurgePcs, HandlerPcs, CreatePcs, LeftPcs
<1>5. QED
  BY <1>1, <1>2, <1>4, IdleHInv

\* Every step of a request keeps the invariant.
LEMMA ServeHInv ==
    ASSUME IInv, IInv', LInv, HInv, Orderly, NEW r \in Requests, Serve(r)
    PROVE  HInv'
<1>1. CASE StartServer(r)
  <2>1. CASE \E id \in Requests : StartFind(r, id)
    BY <2>1, LookupSeeks, SeeksHInv DEF StartFind, AllOps, EntryPcs
  <2>2. QED
    BY <1>1, <2>1, StartMoves, MovesHInv DEF StartServer
<1>2. CASE StopServer(r)
  <2>1. CASE \E id \in Requests : StopFind(r, id)
    BY <2>1, LookupSeeks, SeeksHInv DEF StopFind, AllOps, EntryPcs
  <2>2. QED
    BY <1>2, <2>1, StopMoves, MovesHInv DEF StopServer
<1>3. CASE RestartServer(r)
  <2>1. CASE \E id \in Requests : RestartFind(r, id)
    BY <2>1, LookupSeeks, SeeksHInv DEF RestartFind, AllOps, EntryPcs
  <2>2. QED
    BY <1>3, <2>1, RestartMoves, MovesHInv DEF RestartServer
<1>4. CASE CreateServer(r)
  <2>1. CASE CreateReject(r)
    BY <2>1, RejectSeeks, SeeksHInv
  <2>2. CASE \E name \in Names, memory \in Memories, cpu \in Cpus :
                CreateLookup(r, name, memory, cpu)
    BY <2>2, CreateLookupSeeks, SeeksHInv
  <2>3. CASE CreatePurgeStop(r) \/ CreatePurgeDestroy(r) \/ CreatePurgeUnmount(r) \/
             CreatePurgeRemove(r) \/ CreatePurgeDelete(r)
    BY <2>3, PurgeStepMoves, PurgeMovesHInv
  <2>4. QED
    BY <1>4, <2>1, <2>2, <2>3, IncrHInv, InsertHInv DEF CreateServer
<1>5. CASE UpdateServer(r)
  <2>1. CASE UpdateReject(r)
    BY <2>1, RejectSeeks, SeeksHInv
  <2>2. CASE \E id \in Requests, memory \in Memories \cup {0}, cpu \in Cpus \cup {0} :
                UpdateFind(r, id, memory, cpu)
    BY <2>2, LookupSeeks, SeeksHInv DEF UpdateFind, AllOps, EntryPcs
  <2>3. QED
    BY <1>5, <2>1, <2>2, UpdateMoves, MovesHInv DEF UpdateServer
<1>6. CASE DeleteServer(r)
  <2>1. CASE \E id \in Requests : DeleteFind(r, id)
    BY <2>1, LookupSeeks, SeeksHInv DEF DeleteFind, AllOps, EntryPcs
  <2>2. QED
    BY <1>6, <2>1, DeleteMoves, MovesHInv DEF DeleteServer
<1>7. QED
  BY <1>1, <1>2, <1>3, <1>4, <1>5, <1>6 DEF Serve, RequestStep

\* Every step keeps the invariant.
LEMMA NextHInv == Orderly /\ IInv /\ LInv /\ HInv /\ [Next]_vars => HInv'
<1> SUFFICES ASSUME Orderly, IInv, LInv, HInv, [Next]_vars
             PROVE  HInv'
  OBVIOUS
<1>1. IInv'
  BY NextInv
<1>2. CASE Boot
  BY <1>2, IdleHInv DEF Boot, Reliable
<1>3. CASE Crash
  BY <1>3, CrashHInv
<1>4. CASE \E sid \in Sids : GuestHalt(sid)
  BY <1>1, <1>4, HaltHInv
<1>5. CASE \E r \in Requests : Serve(r)
  BY <1>1, <1>5, ServeHInv
<1>6. CASE \E id \in Requests : Install(id)
  BY <1>1, <1>6, InstallHInv
<1>7. CASE UNCHANGED vars
  BY <1>7, IdleHInv DEF vars, environment, Reliable
<1>8. QED
  BY <1>2, <1>3, <1>4, <1>5, <1>6, <1>7 DEF Next

\* Nothing is installed yet.
LEMMA InitHInv == Init => HInv
<1> SUFFICES ASSUME Init
             PROVE  HInv
  OBVIOUS
<1>1. /\ servers = {}
      /\ host = [sid \in Sids |-> Nothing]
      /\ \A id \in Requests : ~Spawned(id)
      /\ \A r \in Requests : req[r].pc = "new"
  BY DEF Init, StoreInit, HostInit, JobInit, ReqInit, Spawned, NoJob, Idle
<1>2. \A r \in Requests : req[r].pc \notin OtherPcs \cup PurgePcs
  BY <1>1 DEF OtherPcs, PurgePcs, HandlerPcs, CreatePcs
<1>3. QED
  BY <1>1, <1>2 DEF HInv, Links, Fresh

\* The inductive invariant, of an orderly panel.
LEMMA HostInvariance ==
    ASSUME Orderly
    PROVE  Spec => [](IInv /\ LInv /\ HInv)
<1>1. Init => IInv /\ LInv /\ HInv
  BY InitInv, InitLInv, InitHInv
<1>2. IInv /\ LInv /\ HInv /\ [Next]_vars => (IInv /\ LInv /\ HInv)'
  BY NextInv, NextLInv, NextHInv
<1>3. QED
  BY <1>1, <1>2, PTL DEF Spec

-----------------------------------------------------------------------------
\* A container that exists was installed by somebody.
LEMMA Installed ==
    ASSUME HInv, NEW sid \in Sids, host[sid] # Nothing
    PROVE  \E id \in Requests : Spawned(id) /\ job[id].sid = sid /\ ServerOK(id, host[sid])
<1>1. PICK id \in Requests : Spawned(id) /\ job[id].sid = sid
  BY DEF HInv, Fresh
<1>2. ServerOK(id, JobHost(id)) /\ JobHost(id) = host[sid]
  BY <1>1 DEF HInv, JobHost
<1>3. QED
  BY <1>1, <1>2

\* A row has the container of its server, and agrees with it as far as is known.
LEMMA Housed ==
    ASSUME IInv, LInv, HInv, NEW row \in servers
    PROVE  RowOK(row, host[row.sid])
<1>1. row.id \in Requests /\ Spawned(row.id) /\ row.sid = job[row.id].sid
  BY DEF IInv, TypeOK, StoreTypeOK, Rows, LInv, HInv, Links
<1>2. ServerOK(row.id, JobHost(row.id)) /\ JobHost(row.id) = host[row.sid]
  BY <1>1 DEF HInv, JobHost
<1>3. QED
  BY <1>1, <1>2 DEF ServerOK

\* At rest the row agrees with the container as it does after a handler.
LEMMA AtRest ==
    ASSUME IInv, LInv, HInv, Exact, NEW row \in servers,
           Quiet(row.id), row.status \in {"RUNNING", "STOPPED"}
    PROVE  RowAt(LateOn(row.id), "ok", 0, 0, row, host[row.sid])
<1>1. ~LostOn(row.id) /\ ~Served(row.id)
  BY DEF Quiet, LostOn, Served, InFlight, OtherPcs
<1>2. QED
  BY <1>1, Housed DEF RowOK

\* While clients wait for the installation of a server before they touch it,
\* its image is never mounted by the agent and by LXC at once, whatever fails
\* or crashes (createServerAsync, StartServer).
THEOREM NoDoubleMountHolds ==
    ASSUME Clients # "free"
    PROVE  Spec => []NoDoubleMount
<1>1. HInv => NoDoubleMount
  <2>1. SUFFICES ASSUME HInv, NEW sid \in Sids
                 PROVE  ~(host[sid].mounted /\ host[sid].running)
    BY DEF NoDoubleMount
  <2>2. CASE host[sid] = Nothing
    BY <2>2, NothingClean DEF Clean
  <2>3. CASE host[sid] # Nothing
    BY <2>1, <2>3, Installed DEF ServerOK
  <2>4. QED
    BY <2>2, <2>3
<1>2. Spec => [](IInv /\ LInv /\ HInv)
  BY HostInvariance DEF Orderly
<1>3. QED
  BY <1>1, <1>2, PTL

\* With polite clients and a host that fails one call at most, whatever the
\* store fails and however often the agent crashes, a container, an image or a
\* mount always has its row or somebody at work on it (DeleteServer, cleanup,
\* CreateServer).
THEOREM NoOrphansHolds ==
    ASSUME Clients = "polite", "host" \notin FaultKinds \/ MaxFaults <= 1
    PROVE  Spec => []NoOrphans
<1>1. HInv => NoOrphans
  <2>1. SUFFICES ASSUME HInv, NEW sid \in Sids, ~Clean(host[sid])
                 PROVE  \E row \in servers : row.sid = sid
    BY DEF NoOrphans, Clean
  <2>2. host[sid] # Nothing
    BY <2>1, NothingClean
  <2>3. PICK id \in Requests : Spawned(id) /\ job[id].sid = sid /\ ServerOK(id, host[sid])
    BY <2>1, <2>2, Installed
  <2>4. RowsWithId(id) # {}
    BY <2>1, <2>3 DEF ServerOK, GoneOK, Polite, OneFault
  <2>5. QED
    BY <2>1, <2>3, <2>4 DEF RowsWithId, HInv, Links
<1>2. Spec => [](IInv /\ LInv /\ HInv)
  BY HostInvariance DEF Orderly
<1>3. QED
  BY <1>1, <1>2, PTL

\* Under the same hypotheses no directory is removed while directories of the
\* host are bound into it: the image is unmounted first, with all that is in it
\* (cleanup, CreateServer, DeleteServer).
THEOREM HostFilesKeptHolds ==
    ASSUME Clients = "polite", "host" \notin FaultKinds \/ MaxFaults <= 1
    PROVE  Spec => []HostFilesKept
<1>1. IInv /\ LInv /\ HInv => HostFilesKept
  <2>1. SUFFICES ASSUME IInv, LInv, HInv, NEW sid \in Sids
                 PROVE  /\ \A id \in Requests :
                              job[id].sid = sid /\ job[id].pc = "kremove" => ~host[sid].bound
                        /\ \A r \in Requests :
                              /\ req[r].sid = sid
                              /\ req[r].pc \in {"create_premove", "delete_remove"}
                              => ~host[sid].bound
    BY DEF HostFilesKept
  <2>2. ASSUME NEW id \in Requests, job[id].sid = sid, job[id].pc = "kremove"
        PROVE  ~host[sid].bound
    <3>1. Spawned(id) /\ JobHost(id) = host[sid]
      BY <2>2 DEF Spawned, JobHost
    <3>2. Made(job[id], host[sid])
      BY <2>1, <3>1 DEF HInv, ServerOK
    <3>3. QED
      BY <2>2, <3>2 DEF Made, MadeAt, Failed, Rooted, OneFault
  <2>3. ASSUME NEW r \in Requests, req[r].sid = sid, req[r].pc = "create_premove"
        PROVE  ~host[sid].bound
    <3>1. req[r].pc \in PurgePcs
      BY <2>3 DEF PurgePcs, CreatePcs
    <3>2. PurgeOK(r, host[sid])
      BY <2>1, <2>3, <3>1, PurgeKnows DEF ReqHost
    <3>3. QED
      BY <2>3, <3>2 DEF PurgeOK, PurgeAt, Failed, Rooted, Polite, OneFault
  <2>4. ASSUME NEW r \in Requests, req[r].sid = sid, req[r].pc = "delete_remove"
        PROVE  ~host[sid].bound
    <3>1. req[r].pc \in OtherPcs
      BY <2>4 DEF OtherPcs, HandlerPcs, CreatePcs
    <3>2. HandlerOK(r, host[sid])
      BY <2>1, <2>4, <3>1, HandlerKnows DEF ReqHost
    <3>3. QED
      BY <2>4, <3>2 DEF HandlerOK, HostAt, Clean, Polite
  <2>5. QED
    BY <2>2, <2>3, <2>4
<1>2. Spec => [](IInv /\ LInv /\ HInv)
  BY HostInvariance DEF Orderly
<1>3. QED
  BY <1>1, <1>2, PTL

\* With polite clients and a store that loses no UPDATE, a server at rest is
\* held to the limits of its row, whatever host call failed on the way
\* (UpdateServer).
THEOREM LimitsEnforcedHolds ==
    ASSUME Clients = "polite", "db" \notin FaultKinds
    PROVE  Spec => []LimitsEnforced
<1>1. IInv /\ LInv /\ HInv => LimitsEnforced
  BY AtRest DEF LimitsEnforced, RowAt, Exact, Polite
<1>2. Spec => [](IInv /\ LInv /\ HInv)
  BY HostInvariance DEF Orderly
<1>3. QED
  BY <1>1, <1>2, PTL

\* If also no container halts by itself, the status of a server at rest says
\* whether its container runs, whatever host call failed on the way; only a
\* request that gave up waiting for the container to stop can leave RUNNING on
\* one that has stopped (all handlers).
THEOREM StatusTruthfulHolds ==
    ASSUME Clients = "polite", "db" \notin FaultKinds, ~GuestHalts
    PROVE  Spec => []StatusTruthful
<1>1. IInv /\ LInv /\ HInv => StatusTruthful
  <2>1. SUFFICES ASSUME IInv, LInv, HInv, NEW row \in servers, Quiet(row.id)
                 PROVE  /\ row.status = "STOPPED" => ~host[row.sid].running
                        /\ row.status = "RUNNING" =>
                              host[row.sid].running \/ TimedOut(row.id)
    BY DEF StatusTruthful
  <2>2. LateOn(row.id) # {} => TimedOut(row.id)
    BY DEF LateOn, TimedOut
  <2>3. row.status \in {"RUNNING", "STOPPED"}
          => RowAt(LateOn(row.id), "ok", 0, 0, row, host[row.sid])
    BY <2>1, AtRest DEF Exact, Polite
  <2>4. QED
    BY <2>2, <2>3 DEF RowAt, MarkPcs
<1>2. Spec => [](IInv /\ LInv /\ HInv)
  BY HostInvariance DEF Orderly
<1>3. QED
  BY <1>1, <1>2, PTL

=============================================================================
