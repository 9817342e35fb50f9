---------------------------- MODULE Provisioner ----------------------------
(***************************************************************************)
(* createServerAsync: the goroutine that installs one server.  The job of  *)
(* a create request runs the installation steps in order; a step that      *)
(* fails sends it to the cleanup, which ignores the errors it meets.       *)
(* Failures before there is a container only mark the row.                 *)
(***************************************************************************)
EXTENDS Environment, ContainerHost

VARIABLE job  \* the installation of the server each create request inserted

NoSid == 0

NoJob == [pc |-> "none", sid |-> NoSid, memory |-> 0, cpu |-> 0, diskMounted |-> FALSE]

InstallPcs == {"bridge", "create", "disk", "mount", "copy", "bind", "chroot", "unbind",
               "kunbind", "configure", "init", "unmount", "start", "boot", "finish"}
CleanupPcs == {"abort", "kmark", "kstop", "kumount", "kdestroy", "kremove"}
ActivePcs == InstallPcs \cup CleanupPcs

Jobs == [pc: {"none", "ended", "lost"} \cup ActivePcs,
         sid: Sids \cup {NoSid},
         memory: Memories \cup {0}, cpu: Cpus \cup {0},
         diskMounted: BOOLEAN]

JobTypeOK == job \in [Requests -> Jobs]

JobInit == job = [id \in Requests |-> NoJob]

\* go createServerAsync(lxcID, ..., sid, name, memory, ..., cpuCount, ...)
Spawn(id, sid, memory, cpu) ==
    job' = [job EXCEPT ![id] = [pc |-> "bridge", sid |-> sid, memory |-> memory,
                                cpu |-> cpu, diskMounted |-> FALSE]]

Spawned(id) == job[id].pc # "none"
Active(id) == job[id].pc \in ActivePcs

-----------------------------------------------------------------------------
JobHost(id) == host[job[id].sid]

JobGoto(id, pc) == job' = [job EXCEPT ![id].pc = pc]

\* A step of the installation: on success the container becomes `new`; when it
\* cannot succeed or is made to fail, the container is left in one of the
\* states `partial` and the job goes on at `onError`.
InstallStep(id, pc, can, new, next, partial, onError) ==
    /\ job[id].pc = pc
    /\ \/ /\ Works
          /\ can
          /\ host' = [host EXCEPT ![job[id].sid] = new]
          /\ JobGoto(id, next)
       \/ /\ \/ Works /\ ~can
             \/ Fails("host")
          /\ \E left \in partial : host' = [host EXCEPT ![job[id].sid] = left]
          /\ JobGoto(id, onError)
    /\ UNCHANGED servers

\* A call of a cleanup: made when it is called for, its error ignored.
IgnoringErrors(sid, called, can, new) ==
    \/ /\ Works
       /\ host' = IF called /\ can THEN [host EXCEPT ![sid] = new] ELSE host
    \/ /\ called
       /\ Fails("host")
       /\ UNCHANGED host

CleanupStep(id, pc, called, can, new, next) ==
    /\ job[id].pc = pc
    /\ IgnoringErrors(job[id].sid, called, can, new)
    /\ JobGoto(id, next)
    /\ UNCHANGED servers

\* The bridge must exist and be up, and LXC must give a container handle.
CheckBridge(id) ==
    InstallStep(id, "bridge", TRUE, JobHost(id), "create", {JobHost(id)}, "abort")

\* Mutant of CreateContainer: its failure returns without marking the row.
CreateContainerSilently(id) ==
    LET h == JobHost(id) IN
    InstallStep(id, "create", CanCreate(h), Created(h), "disk",
                {h, MadeDir(h)}, "ended")

CreateContainer(id) ==
    LET h == JobHost(id) IN
    InstallStep(id, "create", CanCreate(h), Created(h), "disk",
                {h, MadeDir(h)}, "abort")

\* Move the tree to rootfs.bak; make, size and format the image; make rootfs.
MakeDisk(id) ==
    LET h == JobHost(id)
        made == [h EXCEPT !.tree = FALSE, !.disk = "empty"]
    IN  InstallStep(id, "disk", h.dir /\ h.tree, made, "mount",
                    {h} \cup IF h.dir /\ h.tree THEN {[h EXCEPT !.tree = FALSE], made} ELSE {},
                    "kmark")

MountDisk(id) ==
    LET h == JobHost(id) IN
    /\ job[id].pc = "mount"
    /\ \/ /\ Works
          /\ h.dir /\ h.disk # "none"
          /\ host' = [host EXCEPT ![job[id].sid].mounted = TRUE]
          /\ job' = [job EXCEPT ![id].pc = "copy", ![id].diskMounted = TRUE]
       \/ /\ \/ Works /\ ~(h.dir /\ h.disk # "none")
             \/ Fails("host")
          /\ JobGoto(id, "kmark")
          /\ UNCHANGED host
    /\ UNCHANGED servers

\* Check the mount, copy rootfs.bak into it, remove rootfs.bak.
CopyTree(id) ==
    LET h == JobHost(id)
        can == h.mounted /\ h.disk # "none"
        full == [h EXCEPT !.disk = "full"]
    IN  InstallStep(id, "copy", can, full, "bind",
                    {h} \cup IF can THEN {full} ELSE {}, "kmark")

\* A tree without systemd gets it by chroot, for which directories of the host
\* are bound into rootfs, one after the other.
BindHost(id) ==
    LET h == JobHost(id)
        bound == Bound(MadeDir(h))
    IN  \/ /\ InstallStep(id, "bind", TRUE, h, "configure", {h}, "kunbind")
           /\ h.mounted /\ h.disk = "full"
        \/ InstallStep(id, "bind", TRUE, bound, "chroot", {h, MadeDir(h), bound}, "kunbind")

InstallInit(id) ==
    LET h == JobHost(id) IN
    InstallStep(id, "chroot", h.mounted /\ h.disk = "full", h, "unbind", {h}, "kunbind")

\* The deferred umount, whether the chroot worked or not; its errors are ignored.
UnbindHost(id) ==
    LET h == JobHost(id) IN
    \/ CleanupStep(id, "unbind", TRUE, TRUE, Unbound(h), "configure")
    \/ CleanupStep(id, "kunbind", TRUE, TRUE, Unbound(h), "kmark")

Configure(id) ==
    LET h == JobHost(id) IN
    InstallStep(id, "configure", CanSave(h),
                Saved(h, DiskConfig(job[id].memory, job[id].cpu)), "init",
                {h}, "kmark")

\* Link and check /sbin/init in the mounted root file system.
CheckInit(id) ==
    LET h == JobHost(id) IN
    InstallStep(id, "init", h.mounted /\ h.disk = "full", h, "unmount", {h}, "kmark")

\* Mutant of UnmountDisk: the image stays mounted for LXC to mount it again.
KeepDiskMounted(id) ==
    /\ job[id].pc = "unmount"
    /\ Works
    /\ JobGoto(id, "start")
    /\ UNCHANGED <<host, servers>>

\* umount, after which the job no longer owns a mount; rootfs must be there.
UnmountDisk(id) ==
    LET h == JobHost(id) IN
    /\ job[id].pc = "unmount"
    /\ \/ /\ Works
          /\ CanUnmount(h)
          /\ host' = [host EXCEPT ![job[id].sid] = Unmounted(h)]
          /\ job' = [job EXCEPT ![id].pc = IF h.dir THEN "start" ELSE "kmark",
                                ![id].diskMounted = FALSE]
       \/ /\ \/ Works /\ ~CanUnmount(h)
             \/ Fails("host")
          /\ JobGoto(id, "kmark")
          /\ UNCHANGED host
    /\ UNCHANGED servers

StartInstalled(id) ==
    LET h == JobHost(id)
        config == DiskConfig(job[id].memory, job[id].cpu)
    IN  InstallStep(id, "start", CanStart(h, config), Started(h, config), "boot",
                    {h}, "kmark")

\* Mutant of BootInstalled: the wait for RUNNING has no time limit.
BootPatiently(id) ==
    LET h == JobHost(id) IN
    /\ job[id].pc = "boot"
    /\ h.running
    /\ InstallStep(id, "boot", h.running, h, "finish", {h}, "kmark")

\* Wait for RUNNING, then run the set-up commands inside the container.
BootInstalled(id) ==
    LET h == JobHost(id) IN
    InstallStep(id, "boot", h.running, h, "finish", {h}, "kmark")

\* UPDATE status of the job's row, whose error is ignored.
JobMark(id, pc, status, next) ==
    /\ job[id].pc = pc
    /\ \/ Works /\ UpdateStatus(id, status)
       \/ Fails("db") /\ UNCHANGED servers
    /\ JobGoto(id, next)
    /\ UNCHANGED host

FinishInstall(id) == JobMark(id, "finish", "RUNNING", "ended")

\* Mutant of Abort: the cleanup runs too, and marks the row again.
AbortAndCleanUp(id) == JobMark(id, "abort", "ERROR", "kmark")

Abort(id) == JobMark(id, "abort", "ERROR", "ended")

-----------------------------------------------------------------------------
CleanupMark(id) == JobMark(id, "kmark", "ERROR", "kstop")

CleanupStop(id) ==
    LET h == JobHost(id) IN
    CleanupStep(id, "kstop", h.running, CanStop(h), Stopped(h), "kumount")

\* Mutant of CleanupUnmount: umount without -R.
CleanupUnmountPlainly(id) ==
    LET h == JobHost(id) IN
    CleanupStep(id, "kumount", job[id].diskMounted, CanUnmount(h), Unmounted(h), "kdestroy")

CleanupUnmount(id) ==
    LET h == JobHost(id) IN
    CleanupStep(id, "kumount", job[id].diskMounted, h.mounted, Unmounted(h), "kdestroy")

CleanupDestroy(id) ==
    LET h == JobHost(id) IN
    CleanupStep(id, "kdestroy", Defined(h), CanDestroy(h), Destroyed(h), "kremove")

CleanupRemove(id) ==
    LET h == JobHost(id) IN
    CleanupStep(id, "kremove", TRUE, TRUE, Removed(h), "ended")

-----------------------------------------------------------------------------
JobAction(id) ==
    \/ CheckBridge(id) \/ CreateContainer(id) \/ MakeDisk(id) \/ MountDisk(id)
    \/ CopyTree(id) \/ BindHost(id) \/ InstallInit(id) \/ UnbindHost(id)
    \/ Configure(id) \/ CheckInit(id) \/ UnmountDisk(id)
    \/ StartInstalled(id) \/ BootInstalled(id) \/ FinishInstall(id) \/ Abort(id)
    \/ CleanupMark(id) \/ CleanupStop(id) \/ CleanupUnmount(id)
    \/ CleanupDestroy(id) \/ CleanupRemove(id)

JobStep(id) == JobAction(id) /\ UNCHANGED lxcId

=============================================================================
