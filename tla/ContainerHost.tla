--------------------------- MODULE ContainerHost ---------------------------
(***************************************************************************)
(* The part of the host the agent drives for each container: the directory *)
(* /var/lib/lxc/<sid> with the config file, the unpacked root tree and the *)
(* disk image, the loop mount of that image on rootfs, the directories of  *)
(* the host bound into it, and the running container.  LXC and the shell   *)
(* commands are external: each call is a condition under which it succeeds *)
(* and the state it leaves.                                                *)
(***************************************************************************)
EXTENDS ServerStore

\* What a config file, and a container handle in memory, says.
NoConfig == [rootfs |-> "none", memory |-> 0, cpu |-> 0]

\* The download template configures the unpacked tree and no limits.
TemplateConfig == [NoConfig EXCEPT !.rootfs = "dir"]

DiskConfig(memory, cpu) == [rootfs |-> "loop", memory |-> memory, cpu |-> cpu]

Configs == [rootfs: {"none", "dir", "loop"},
            memory: Memories \cup {0}, cpu: Cpus \cup {0}]

Containers == [dir: BOOLEAN,      \* /var/lib/lxc/<sid> exists
               config: Configs,   \* its config file, NoConfig when absent
               tree: BOOLEAN,     \* the unpacked root tree lies in rootfs
               disk: {"none", "empty", "full"},  \* disk.img
               mounted: BOOLEAN,  \* disk.img is mounted on rootfs
               bound: BOOLEAN,    \* /proc, /sys and /dev of the host are bound into rootfs
               running: BOOLEAN,
               live: Configs]     \* the config the container was started with

Nothing == [dir |-> FALSE, config |-> NoConfig, tree |-> FALSE, disk |-> "none",
            mounted |-> FALSE, bound |-> FALSE, running |-> FALSE, live |-> NoConfig]

VARIABLE host

HostTypeOK == host \in [Sids -> Containers]

HostInit == host = [sid \in Sids |-> Nothing]

-----------------------------------------------------------------------------
\* c.Defined(): LXC looks for the config file.
Defined(h) == h.config # NoConfig

CanCreate(h) == ~Defined(h)
Created(h) == [h EXCEPT !.dir = TRUE, !.config = TemplateConfig, !.tree = TRUE]

\* A container needs the root file system its configuration names.
Bootable(h, config) ==
    \/ config.rootfs = "loop" /\ h.disk = "full"
    \/ config.rootfs = "dir" /\ (h.tree \/ (h.mounted /\ h.disk = "full"))

CanStart(h, config) ==
    /\ Defined(h)
    /\ ~h.running
    /\ Bootable(h, config)
Started(h, config) == [h EXCEPT !.running = TRUE, !.live = config]

\* A container that was killed counts as stopped, although LXC may go on to
\* report it STOPPING.
CanStop(h) == h.running
Stopped(h) == [h EXCEPT !.running = FALSE, !.live = NoConfig]

\* The monitor reboots the container with the configuration it started with.
CanReboot(h) == h.running
Rebooted(h) == h

\* LXC removes the directory but stays on its file system.
CanDestroy(h) == Defined(h) /\ ~h.running /\ ~h.mounted /\ ~h.bound
Destroyed(h) == Nothing

\* mkdir -p .../rootfs
MadeDir(h) == [h EXCEPT !.dir = TRUE]

CanSave(h) == h.dir
Saved(h, config) == [h EXCEPT !.config = config]

\* umount -R .../rootfs takes what is mounted inside with it, once there is a
\* mount on rootfs; without -R it is refused while there is something inside.
CanUnmount(h) == h.mounted /\ ~h.bound
Unmounted(h) == [h EXCEPT !.mounted = FALSE, !.bound = FALSE]

\* mount --bind of the host's directories, and their umount.
Bound(h) == [h EXCEPT !.bound = TRUE]
Unbound(h) == [h EXCEPT !.bound = FALSE]

\* rm disk.img and rm -r of the directory: a mount point cannot be removed, but
\* what is mounted there is emptied.
Removed(h) == [h EXCEPT !.dir = h.mounted \/ h.bound, !.config = NoConfig,
                        !.tree = FALSE, !.disk = "none"]

=============================================================================
