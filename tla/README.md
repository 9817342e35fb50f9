# lynx_agent_api in TLA+

`lynx_agent_api` is the agent of a hosting panel. It runs on each node, answers
HTTP requests and WebSockets, and creates, starts, stops, resizes and deletes LXC
containers. This directory holds TLA+ modules translated from its source, TLC
configurations that check them on small instances, and TLAPS proofs of the
invariants that hold for every number of requests, names, streams, faults and crashes.
Paths below are relative to the repository; `C/` stands for
`src/src/network/controllers/`.

## The system

| Component | State | Operations | Hard behaviours |
|---|---|---|---|
| server lifecycle handlers, `C/server.controller.go` | none of their own; each request is a goroutine with locals (the row, a container handle) | `/start` `/stop` `/restart` `/provision` `/update` `/delete` | no lock and no transaction: two requests for one server interleave at every database, Redis and host call; every call can fail half way |
| server installation, `createServerAsync` | `diskMounted`, `success`; the container it builds | the steps of an installation, cleanup on failure | runs long after its request was answered; nothing can cancel it; dies with the process |
| server store, `src/src/infra` | table `servers` in SQLite (one pooled connection), counter `lxc:id` in Redis | SELECT, INSERT, UPDATE, DELETE; SETNX, INCR | stale reads between statements; the counter has to outlive the agent |
| container host (LXC, mount, file system; not in `src/`) | `/var/lib/lxc/<sid>`, config file, image, mount, host directories bound into it, running container | create, start, stop, reboot, destroy, mount, umount, rm | survives the agent; containers halt by themselves |
| agent process, `src/src/main.go`, `src/systemd/lynx-agent.service` | up or down | start, death, restart | nothing is read back at start |
| web terminal, `C/ssh.controller.go` | `sessions` under `sessionsMutex`; per session a buffer, `Clients` under `ClientsMutex`, `Done`, PTY | connect, reconnect, type, leave; reader, waiter and cleaner goroutines | two mutexes, four kinds of goroutines, a buffer without a lock |
| container metrics stream, `C/resources.controller.go` | per stream its reader, ticker and `done`; `cpuStatsMap` under `cpuStatsMu`, shared by all streams of a container | sample once a second, end | streams of one container measure against each other's samples and delete them; a container stops and starts under them |
| host metrics stream, `C/node.controller.go` | `prevCPU`, the previous `/proc/stat` sample | sample once a second, end | unsigned sums and differences; a sample of which a part fails |
| node key authentication, `src/src/middleware`, `src/src/lib/crypto.go` | none | decrypt, unpad, compare | order of checks, sizes the cipher panics on, padding |
| routing, `src/src/network/index.go` | a static table | which connections need the key | |
| queries, responses, configuration, identifiers | none that changes | | |

How they interact. A request is looked up by its uuid in SQLite, then talks to LXC
through a handle, then writes the row. `/provision` draws a number from Redis, inserts
the row as `INSTALLING`, spawns the installation and answers 201; from then on the
installation owns the container, but any other request may name the server too. Handlers and
installations share the table, the counter and the host, and nothing else: no
mutex protects a server. The terminal reads the table once and then works with the
container through a shell of its own. The metrics streams of a container read the table once
and share `cpuStatsMap` with each other; those of the host share nothing. All calls of the
management API pass the check of the node key first; streams and terminals do not.

What makes each part correct:

* store: a name, an id and a container number belong to one row; a deleted row stays
  deleted; two installations never share a directory, whatever restarts;
* installation: `INSTALLING` means that someone is installing, and ends; only a
  server's own installation calls it failed; a failed step, with a cleanup that works, leaves
  nothing on the host that no row knows;
* handlers: an answered request leaves a status, limits and a config file that agree with
  the container; an image is mounted once at a time; what the host has bound into it is not removed with it; every request is answered;
* terminal: a client gets the terminal it asked for; one connection is at the keyboard; a
  connection that takes over keeps the output; output does not go back; no mutex is held
  forever; a session whose shell has exited closes its connections and leaves the table;
* metrics: a percentage that is sent is true, whichever stream took the sample before; no
  sample outlives the streams that use it; a stream ends with its client;
* node key: the panel's own key passes, and nothing else does.

## The modules

```
Environment      ServerStore
     \                |
      \         ContainerHost
       \             /
        Provisioner
             |
      ServerController       ServerLifecycle
             |                      :
           Agent . . . . . . . . . .:  (implements)
             |
             +-- MCAgent (TLC)
             +-- AgentProofs -- LifecycleProofs -- HostProofs (TLAPS)

NodeMetrics -- MetricsStreams      NodeKey
                        \          /
                           Panel
                             +-- MCPanel (TLC)
                             +-- PanelProofs (TLAPS)

TerminalSessions
        +-- MCTerminal (TLC)
        +-- TerminalProofs (TLAPS)
```

**Environment**: the process is up or down; calls to a service in `FaultKinds` may fail, at
most `MaxFaults` times. `Works` and `Fails(service)` are the two outcomes every action
chooses between, so that each error branch of the code is taken in every place it stands.

**ServerStore**: `servers` is a set of rows, `lxcId` the counter. GORM's calls are what they
send to SQLite: `Updates` on a missing row changes nothing, an insert meets the three unique
columns, a zero limit is not written (`Given`). The pool has one connection
(`src/src/infra/db/sqlite.go`), so a statement is a step. `SetNX` runs at every start.

**ContainerHost** is external: what the code relies on from LXC, `mount` and `rm`. A
container is a record: directory, config file, unpacked tree, image (`none`, `empty`,
`full`), mount, whether the host's `/proc`, `/sys` and `/dev` are bound into it (`bound`), running, and the
configuration it was started with. `CanX(h)` says when a call succeeds,
`X(h)` what it leaves. `LoadConfigFile` makes the handle's configuration, and `SaveConfigFile`
and `Start` use the handle's, not the file's: both are kept apart, because the update handler
depends on it. `Removed` clears the directory except for a mount
point. `Unmounted` is `umount -R`, which takes what is bound inside with it; a plain `umount` (`CanUnmount`) is refused
while there is something inside.

**Provisioner**: `job[id]` is the installation of the server that request `id` inserted. Its
program counter names the next step: `bridge`, `create`, `disk`, `mount`, `copy`,
`bind`, `chroot`, `unbind`, `configure`, `init`, `unmount`, `start`, `boot`, `finish`. Each step succeeds, or fails and
leaves one of the states the commands in it can leave, and goes to the cleanup (`kmark`,
`kstop`, `kumount`, `kdestroy`, `kremove`) that the code's deferred function performs in
this order, or, before there is a container, to `abort`, which only marks the row. Errors inside the cleanup are
ignored, as in the code. A tree without systemd gets it by chroot: `bind` binds directories of the host into rootfs, `chroot` installs,
and `unbind` is the deferred `umount`, whose errors are ignored too; after a failure of the other two the deferred call (`kunbind`) comes before the
cleanup. The commands that run in the booted container are one step: they
change nothing the agent looks at, and fail together.

**ServerController**: `req[r]` is a request, served once. Its program counter is the next
access to the database, Redis, LXC or the file system, since everything between two
accesses is local. Operators shared by the handlers say how an access fails:
`Lookup` (any error is a 404), `Ask`, `OpenAndAsk`, `HostCall` (500),
`LoadConfig`, `Statement` and `Mark` (500), `Attempt` (ignored). A failed host call
leaves the container as it was, except where the code makes several
calls in one step and the step lists what may be left. `/update` and `/delete` stop a container and then wait
30 seconds for it (`WaitStopped`), two calls with a 500 each: the second may come when the container is stopped and no row says so. That
answer is told apart as `timeout`. `Clients` says what clients wait for:

* `free`: nothing; any known server can be named at any time;
* `patient`: a server is named when its status is `RUNNING` or `STOPPED`;
* `polite`: the same, and never while another request on the server is unanswered.

The code enforces none of these. What holds only for polite clients is a contract the panel
has to keep, and three of the violation runs show what happens otherwise.

**Agent** puts them together with `Boot`, `Crash` and `GuestHalt`. A crash loses every
handler and installation where it stands; containers and rows stay. It is the death of the process, not of the
node: containers run on, and the mounts the agent made go with the mount namespace of its service, if it has one, or stay.

**ServerLifecycle** is the abstract specification: what the panel may rely on about the rows
it can list. Its state is the table reduced to id, name and status, the servers ever created,
and the installations that still owe a verdict. A server is created once under a name no other
row has, its installation gives one verdict, `RUNNING` or `ERROR` (lost if the row is gone or
cannot be written, or if the agent dies), handlers switch it between `RUNNING` and `STOPPED`
and remove it. There is no other change: no status returns to `INSTALLING`, nothing but a verdict
makes it `ERROR`, and a row that was removed does not come back. With `Orderly`, it also says that nobody
switches or removes a server before there is a verdict. `Agent!LifecycleSpec` maps the
detailed state to it: `used` are the requests that spawned an installation, `open` those whose
installation is at a step before its mark; `Orderly` stands for clients that are not `free`.

**NodeMetrics** is the arithmetic of `C/node.controller.go`: addition and subtraction modulo
`Modulus` (2^64), `CalculateCPUPercent` with percentages as fractions, and `MemoryUsed`. The
six counters that are only ever added up stand as one, `busy`.

**MetricsStreams**: `stream[c]` is a connection with its handler and reader, `cpuStatsMap` the
shared table. A tick of a container's stream is three steps, because two streams interleave
there: read CPU time and clock (`Measure`), compare with and replace the entry under the mutex
(`Record`), send (`Write`). `used[v][t]` is the CPU time container `v` has counted at second
`t`: what the percentages are compared with. It grows by no more than the limit in a second and
starts again at zero when the container does. `spent` is what the host's counters
would be if they did not wrap, and `seen` remembers the counters a stream read last. A tick
that finds the container stopped sends zeroes, changes nothing and is no step.

**NodeKey** is `DecryptNodeKey` without AES: a ciphertext stands as the bytes it decrypts to,
so that every decrypted text occurs. What is left is what can go wrong around it: the sizes the
cipher panics on, and the removal of the padding.

**Panel** puts streams and calls together as `SetupRouter` does. `Verdict` is the check of the
key in the order of the code; a call is checked once and keeps its answer. A panic
in a handler ends the call and its connection (`dropped`), not the agent.

**TerminalSessions**: `conn[c]` is a connection with its handler, `session[s]` a shell
with its reader and waiter, `sessions` the table, `cleaner` the one cleaner. A
critical section that does nothing but assign is one step; the reader, which writes to the network under
`ClientsMutex`, and the cleaner, which takes `ClientsMutex` under `sessionsMutex`, hold
theirs over several steps. Output is counted in chunks, one for each read of the PTY.
The buffer is replayed without a lock while the reader may be appending: the replay then
sees the buffer before, after, or torn (chunk 0). A second `close(Done)` panics, which ends
the agent (`up`).

## What is checked

| Run | Instance | Distinct states | Properties |
|---|---|---|---|
| `races` | 3 requests, 2 names, free clients, 1 failed host or database call, 1 crash | 946,237 | `TypeOK` `RowsUnique` `SidsDistinct` `ErrorFromOwnJob` `DeletedStaysDeleted` `LifecycleSpec` |
| `polite` | 4 requests, 1 name, 2 memory limits, polite clients, 1 failed host call, 1 crash | 780,782 | `StatusTruthful` `LimitsEnforced` `NoOrphans` `NoDoubleMount` `HostFilesKept` `LifecycleSpec` |
| `progress` | 2 requests, free clients, 1 failed host or Redis call, containers that halt, fairness | 16,973 | `InstallingHasJob` `InstallEnds` `RequestsAnswered` |
| `terminals` | 3 connections, 2 servers, 1 session, 2 chunks, idle periods | 1,953,802 | `TypeOK` `OwnServer` `OneAtKeyboard` `AttachedIsClient` `OutputInOrder` |
| `terminal_progress` | 2 connections, 1 server, 1 session, 1 chunk, fairness | 31,050 | `DialsAnswered` `EndedForgotten` `OutputDelivered` `ClosedAtEnd` |
| `panel` | 2 streams of one container that stops and starts once, or a stream of the host, or a call; 2 seconds, counters modulo 8, keys of up to 4 bytes | 329,506 | `TypeOK` `EntriesHaveStream` `OwnKeyServed` `OnlyOwnKeyServed` `PercentTrue` `CpuPercentExact` `StreamsEnd` |

`races` takes the code as it is and asks what holds whatever clients do: the lookup of a name
is far from the insert, a failed lookup counts as a free name, rows vanish under handlers that
go on to update them, retries purge what a cleanup is still cleaning, and a restart
sets the counter up again. `polite` asks what an answered request leaves, with
a failing call or the death of the agent in any place. There a status may differ from its container in one way: `/update` or `/delete` stopped it, its wait was over too
early, and nothing else has looked at it since; the row then says `RUNNING`, and never `STOPPED` of a container that runs. `progress` asks whether anything waits forever.
`terminals` and `terminal_progress` ask the same two kinds of questions of the terminal.
`LifecycleSpec` is a refinement: in `races` it says that stale handlers, late cleanups and deaths of
the agent never show the panel a life that `ServerLifecycle` does not have; in `polite` it adds
that servers are left alone until the verdict. `panel` asks whether the numbers are true while
streams, containers and counters move under each other, and what passes the key.

Six more runs each end in a counterexample; they are disagreements between
the code and what the repository says of it, listed as findings in `PROJECT.json`.

| Run | Property | What happens |
|---|---|---|
| `delete_while_installing` | `NoOrphans` | `/delete` looks at the container only; the installation goes on and leaves a container no row knows |
| `start_while_installing` | `NoDoubleMount` | `/start` finds `disk.img` and starts LXC on an image the installation has mounted |
| `crash_while_installing` | `NameBeingCreated` | create, death of the agent, restart: the row still says `INSTALLING`, and a create request under the same name is refused as "already being created" although nothing creates it |
| `concurrent_updates` | `LimitsEnforced` | the second of two overlapping updates saves its limits and then fails to start: the container runs with the first one's |
| `inactive_cleanup` | `AgentSurvives` | cleaner and waiter both close `Done`: the panic ends the agent |
| `malformed_key` | `MalformedRejected` | a key whose IV or data has no size the cipher takes panics: the connection is dropped where the README promises a `401` |

For every property of a passing run, the modules define a mutant of one operator, the
change a plausible bug would make (a forgotten WHERE clause, SET for SETNX, a
row deleted before its data, a missing unmount, a `umount` without `-R`, an unlock that is left out, a `break` that only leaves
the `select` ...), under which TLC finds the
property violated.

### Bounds

* Requests are the bound on everything a client does; each is served once. Three are enough
  for every race of two handlers on a server that a third created; four (in `polite`) for create,
  two operations, and a retry under the same name. When the requests are spent the system
  stops, so the runs of Agent have `CHECK_DEADLOCK FALSE`.
* `MaxSid` is 99 plus the number of requests: no request is ever refused a number.
* One fault and one crash: one failed host call is what `NoOrphans` can stand, and the proofs have no bound on
  the rest; the errors that need two are a hazard of their own (below).
  `Memories` and `Cpus` need two values only where two limits are compared.
* `races` leaves `/update` out. It changes no key and no `ERROR`, its limits multiply the
  states, and the properties of that run are proved for all six operations.
* `polite` has no database errors: a handler that starts a container and cannot write the
  row answers 500 and leaves them apart, and so it says. It has no containers that halt by
  themselves: nothing in the agent watches them, so their status lies until the next request.
* `MaxFaults = 2` in `polite` violates `NoOrphans`: the installation fails when its image exists, a call of its cleanup or of the
  purge before a retry fails too and its error is ignored, and the purge deletes the row. (Of an empty directory `NoOrphans` says nothing.) It violates `HostFilesKept` in
  the same way: the umount of a bound directory fails, and the cleanup's `umount -R` after it. The code does not claim otherwise, and `PROJECT.json` lists both
  as hazards (`C/server.controller.go:372` and `608`).
* One terminal session: properties relate the connections of one session to each other;
  sessions share nothing but the table. Three connections are one that holds the
  session, one that takes it over and one that comes while the first is still leaving. Two
  chunks show a gap, a repetition or an inversion; one is enough for delivery. `Idling` is the passing of
  30 minutes, and is off in the liveness runs because it leads to the panic above.
* `panel`: two streams of one container meet each other in every way, so a third would add nothing new;
  streams of the host and calls meet nothing, and `Panels` gives them instances of their own. Three moments
  (seconds 0 to 2) and one restart let a sample be from before, between and after. The modulus 8 lets the
  idle counter wrap on its first step and sums wrap apart from their parts. The counters of a real host stay far from 2^64, so this is more than the
  program will meet: the modulus is there because the arithmetic is that of the code; keys of two blocks of two bytes
  hold the machine id with a whole block of padding, and every other text of that size. The proofs have none of these bounds. Time and
  starts are bounded and streams end, so the run has `CHECK_DEADLOCK FALSE`.
* In `polite` and `races` the abstract actions all occur: verdicts of both kinds and lost ones, and removals by
  `/delete` and by a retry.
* The symmetric sets (requests and names; connections, servers, sessions) are used in runs without
  liveness properties only.

### Fairness

* `Boot` and the handlers and installations that are at work are weakly fair: systemd restarts the
  process (`Restart=always`), and Go schedules every goroutine. It is assumed that a
  command or LXC call returns; the code itself bounds its waits for a container (`C/server.controller.go:797`).
  Clients owe nothing: a request may never be sent.
* The terminal's goroutines are strongly fair, since `sync.Mutex` does not starve a waiter.
  It is assumed that clients read what they are sent: the reader writes under
  `ClientsMutex` and without a deadline, so a client that stops reading holds up its session
  and, through the cleaner, all others. Shells, clients, `Tick` and `Idle` owe nothing.
* A stream's handler and reader are weakly fair: ticks come while the program runs, and it is assumed that a
  write to a client returns. `HangUp` is strongly fair: Go's `select` chooses at random among
  what is ready, so `done` cannot lose to the ticker forever. Clients and containers owe nothing.

## What is proved

Everything below holds for every value of the constants that the named assumptions allow, so for any
number of requests, names, connections, servers, sessions, limits, faults and crashes. Clients do whatever they like, except
where a theorem names those it needs.

| Module | Theorem | States |
|---|---|---|
| `AgentProofs` | `Invariance` | `Spec => []IInv`, the inductive invariant |
| | `TypeCorrect` | `Spec => []TypeOK` |
| | `RowsStayUnique` | `Spec => []RowsUnique` |
| | `SidsStayDistinct` | `Spec => []SidsDistinct` |
| | `DeletedRowsStayDeleted` | `Spec => DeletedStaysDeleted` |
| | `ErrorsComeFromOwnJob` | `Spec => ErrorFromOwnJob` |
| | `InstallingRowsHaveJobs` | `Spec => []InstallingHasJob`, if the agent never dies and no database statement fails |
| `LifecycleProofs` | `AgentImplementsLifecycle` | `Spec => LifecycleSpec`: the agent implements `ServerLifecycle` |
| `HostProofs` | `NoDoubleMountHolds` | `Spec => []NoDoubleMount`, if clients are not `free` |
| | `NoOrphansHolds` | `Spec => []NoOrphans`, if clients are `polite` and at most one host call fails |
| | `HostFilesKeptHolds` | `Spec => []HostFilesKept`, if clients are `polite` and at most one host call fails |
| | `LimitsEnforcedHolds` | `Spec => []LimitsEnforced`, if clients are `polite` and no database statement fails |
| | `StatusTruthfulHolds` | `Spec => []StatusTruthful`, if also no container halts by itself |
| `PanelProofs` | `PanelTyped` | `Spec => []TypeOK` |
| | `PanelEntriesHaveStream` | `Spec => []EntriesHaveStream` |
| | `PanelPercentTrue` | `Spec => PercentTrue` |
| | `PanelCpuPercentExact` | `Spec => CpuPercentExact` |
| | `PanelOnlyOwnKeyServed` | `Spec => []OnlyOwnKeyServed` |
| | `PanelOwnKeyServed` | `Spec => []OwnKeyServed` |
| | `MemoryUsedIfConsistent` | `getMemoryStats` is exact iff its terms are consistent, and exceeds the total otherwise |
| `TerminalProofs` | `TerminalInvariance` | `Spec => []TInv`, the inductive invariant |
| | `TerminalTyped` | `Spec => []TypeOK` |
| | `TerminalOwnServer` | `Spec => []OwnServer` |
| | `TerminalAttachedIsClient` | `Spec => []AttachedIsClient` |
| | `TerminalOneAtKeyboard` | `Spec => []OneAtKeyboard` |
| | `TerminalOutputInOrder` | `Spec => []OutputInOrder` |

**AgentProofs** assumes `EnvironmentAssumption`, `StoreAssumption` and `ControllerAssumption`.
None of its properties is inductive alone. `IInv` adds to `TypeOK` and `RowsUnique`

* `up => lxcId # 0`: the agent does not serve before Redis has the counter, so that INCR
  yields a number of the right range;
* `CallOK(r)`: which of its locals a handler has filled in at each point, and that a
  create request that has not inserted yet has no installation;
* `JobOK(id)`: an installation knows its container and its limits;
* `SidsOK`: every number that was drawn is at most the counter, and no two requests
  drew the same. `Drew` includes a handler that has its number and has not inserted yet: without it the
  step from `CreateIncr` to `CreateInsert` says nothing about two handlers between the two.

The argument goes by kinds of steps. Six handlers and twenty installation steps are reduced
to a few shapes: `Arrives`, `Handles`, `CreateIncr`, `CreateInsert` for a request and
`Installs` for a job. One lemma for each handler shows that its actions have such a
shape; one for each shape shows that it preserves `IInv`. `NextInv` puts them together with
`Boot`, `Crash` and `GuestHalt`. The action properties follow from `IInv` and `RowsChange`, which says that
statements on the table never add a row; `InstallingRowsHaveJobs` needs `InstallingInv`, that a row which says
`INSTALLING` belongs to an installation that has not yet reached the step that marks it.

**LifecycleProofs** rests on `IInv` and on `LInv`: a row belongs to a request that spawned an installation, and so
does the server a handler works on. For clients that are not `free`, `LInv` also says that a row
whose installation still owes a verdict is `INSTALLING` (`Decided`), and that a handler past its lookup works on a row whose
status is still one it may find (`KnowsRows`). The second is what makes the refinement
hold: a handler decides on a status it read several steps earlier, and writes without looking again. Each
action of the agent is then shown to be a step of `ServerLifecycle` or to leave its state alone.

**HostProofs** proves what the panel may rely on about the host. Its theorems have hypotheses, because the code
does not keep the properties without them. With the configuration of `polite`
otherwise unchanged, TLC finds

| Without | Violated | By |
|---|---|---|
| clients that wait for installations | `NoDoubleMount` | run `start_while_installing` |
| polite clients | `LimitsEnforced` | run `concurrent_updates` |
| polite clients | `NoOrphans`, `StatusTruthful` | `Clients = "patient"` |
| clients that wait for installations | `HostFilesKept` | `Clients = "free"` |
| at most one failed host call | `NoOrphans`, `HostFilesKept` | `MaxFaults = 2` |
| a database that does not fail | `LimitsEnforced`, `StatusTruthful` | `FaultKinds = {"db"}` |
| containers that do not halt by themselves | `StatusTruthful` | `GuestHalts = TRUE` |

Whatever else may fail does so as often as it likes: `NoDoubleMountHolds` allows every fault, `NoOrphansHolds` and `HostFilesKeptHolds`
every fault of the database and of Redis, the other two every host call that fails; all of them any number of deaths of the agent. Of `HostFilesKept` more may be true than is proved: for
`patient` clients TLC finds no counterexample (four requests, one memory limit, 684,567 states), but the invariant it rests on speaks of polite ones.

The invariant `HInv` follows one container through its life, and says for every request that spawned an installation
(`ServerOK`) what its container looks like,

* `Made`: at each point of the installation; on the way of its cleanup, and in a row that says `ERROR`, the image can still be found
  by its config file, what is bound into it is bound into a mounted image, and it is mounted or running only if the one fault has been
  spent (`Failed`). A mounted image is noted in `diskMounted` (`Noted`), so that the cleanup does unmount it, and with it what an `unbind` left;
* `HandlerOK`: at each point of a handler, what it has left of the container (`HostAt`), how row, config file and container agree
  (`RowAt`), and that nobody else works on the server. `LateOn` are the requests that gave up waiting: only after one of them may a row say
  `RUNNING` of a stopped container;
* `PurgeOK`: at each point of the purge before a retry (`PurgeAt`): it ignores the errors of its calls, but if the
  installation left something running or mounted, the fault is spent and none of them can fail;
* `RowOK` and `GoneOK`: when nobody works on it, with a row and without.

`Links` and `Fresh` say which container belongs to which request. A handler that died (`LostOn`) frees its server from `RowAt`
for good, but not from `HostAt`: the next request must still find a container it can handle. `RowAt` is needed at
every point, and not only at rest, because a handler that fails half way answers 500 and thereby ends the exception it was making. The
argument goes by shapes again: a step that concerns one server (`Only`) leaves all others alone (`Unmoved`), by `SidsOK`; a handler's
step is an entry (`Seeks`), or a step or an answer (`Moves`) that is `Sound` for the container it leaves; a purge step only takes away
(`Shrinks`); an installation's step goes on (`Comes`), or fails with what it leaves (`Leaves`).

**PanelProofs** assumes `ModulusAssumption`, `StreamsAssumption`, `NoneAssumption`, `KeyAssumption` and
`HeaderAssumption`. Its invariant `MInv` says that every sample, in the shared table or in the hands
of a stream, is the CPU time its container had at that second, unless the container was started since (`SampleOK`);
that a stream holds counters the host really had (`SeenOK`); that a container that was not started
in between uses no more than its limit (`UsedOK`); and that the host's counters have grown by less than the
modulus since the beginning (`SpentOK`), so that a wrapped difference is the difference. `SampleOK` does not mention
who took the sample: that is why streams may measure against each other's. The key's theorems need no
induction over states beyond `JudgedHolds` (an answer was computed from the header it stands next to); they rest
on `PaddingRemoved` and `PaddedMachineId`, about what removing the padding accepts and gives back.

**TerminalProofs** assumes `TerminalAssumption`. `TInv` relates connections and sessions both ways. `ConnOK`: from the moment
`Lookup` has accepted it a handler works on a session of its own server, and what it replayed is no later than what the reader has read.
`ShellOK`: a client of a session is attached to it or about to leave, there is at most one, and it has seen everything that was
sent since it came, up to `LastSent`. The last part is what `OutputInOrder` lacks: that the next chunk continues what a
client has follows only if one knows where the reader stands when it is between reading and sending. Steps that concern no
client go through `QuietKeeps`, steps of a handler that concern no session through `ConnKeeps`, and those that change who
the clients are (`Register`, `Detach`, `Send`, `CloseClients`) through `ClientsChange`.

Only model-checked: everything under fairness (`InstallEnds`, `RequestsAnswered`, `StreamsEnd`, the four of the terminal), which is
out of this prover's reach. Every invariant and every action property of a passing run has a theorem.

## What is not modelled

* The five queries read one row or all and answer. Responses keep their class (2xx, 400, 401, 404, 500); JSON is left out.
* Of what the metrics streams send, only the CPU percentages are computed from more than one reading, and only they are
  modelled; memory, disk and network numbers are read and passed on, except for the subtraction in
  `getMemoryStats`, which has a theorem of its own. The host's counters only grow, although
  Linux may take back part of IOWait.
* AES, base64 and hexadecimal decoding: a key either cannot be decoded or stands as the bytes it decrypts to. Keys are longer in
  reality than the two blocks the run has; the theorems are for any length.
* Configuration is read once. bcrypt is not used by the agent. Random ids are fresh values;
  a collision would be refused by the unique column.
* A reboot of the node. Nothing in the agent compares rows with containers when it starts, and `lxc.start.auto`
  (`C/server.controller.go:672`) may start containers whose rows say `STOPPED`; which ones run is for the LXC service to decide.
* A failed UPDATE that gives an installation's verdict leaves the row `INSTALLING`, although the agent is up; the
  run `progress` and the theorem `InstallingRowsHaveJobs` have no failing statement. A client that does not read its terminal is outside the model.
* Columns no transition reads: disk size, user, node, allocation, time stamps.
* In the terminal: raw mode and window sizes, the deadline on PTY reads (which only matters for how soon a
  reader sees `Done`), and the bytes inside a chunk. A session is forgotten five minutes after its shell
  exited, whoever has come back to it meanwhile; the code says nothing of such a client, and no property does.

## Plan

Done, in this order: `Environment`, `ServerStore`, `ContainerHost`, `Provisioner`, `ServerController`,
`Agent` with `AgentProofs`; `TerminalSessions`; `ServerLifecycle` with `LifecycleProofs`; `NodeMetrics`, `MetricsStreams`,
`NodeKey` and `Panel` with `PanelProofs`; `TerminalProofs`; `HostProofs`.

What is left: the safety behind the liveness properties, which the prover can reach. For the terminal, that the goroutines
never wait for each other in a circle (whoever holds `ClientsMutex` is not waiting for `sessionsMutex`); for the
installation, that every point but the last can be left in any state of the host.

## Running it

```
tlc -workers 2 -config races.cfg MCAgent
tlc -workers 2 -config terminals.cfg MCTerminal
tlc -workers 2 -config panel.cfg MCPanel
tlapm AgentProofs.tla
tlapm LifecycleProofs.tla
tlapm HostProofs.tla
tlapm PanelProofs.tla
tlapm TerminalProofs.tla
```

The first column of the table of runs gives the name of the `.cfg`; its module is `MCAgent`, `MCTerminal` or `MCPanel`.
