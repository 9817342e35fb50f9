--------------------------- MODULE MetricsStreams ---------------------------
(***************************************************************************)
(* The metrics streams of the agent.  A connection is served by a handler  *)
(* that samples once a second and a goroutine that notices its end.  The   *)
(* streams of containers measure CPU use against the last sample of the    *)
(* container, in a table that all of them share; a stream of the host      *)
(* measures against its own last sample.                                   *)
(*                                                                         *)
(* The clock counts seconds.  Reading the CPU time of a container and then *)
(* the clock takes less; waiting for the mutex of the table may not.       *)
(***************************************************************************)
EXTENDS NodeMetrics

CONSTANTS
    Conns,     \* connections of the panel
    Panels,    \* bound: what each of them is made for
    Servers,   \* servers in the table `servers`
    None,      \* no server, no sample
    MaxClock,  \* bound: seconds
    MaxBoots,  \* bound: how often a container is started
    Limits,    \* cpu limits a container is started with
    Loads,     \* CPU time a container may use in a second
    First,     \* the counters of the host when the agent starts
    Growths    \* by what they may grow in a second

Counters == [idle: Nat, iowait: Nat, busy: Nat]

Kinds == {"none", "container", "host", "call"}

ASSUME StreamsAssumption ==
    /\ Panels \subseteq [Conns -> Kinds]
    /\ MaxClock \in Nat
    /\ MaxBoots \in Nat
    /\ Limits \subseteq Nat \ {0}
    /\ Loads \subseteq Nat
    /\ First \in Counters
    /\ Growths \subseteq Counters
    /\ \A d \in Growths :  \* 2^64 takes longer than any bound
          MaxClock * (d.idle + d.iowait + d.busy) < Modulus

VARIABLES
    stream,       \* the streams
    cpuStatsMap,  \* the last sample of each server, shared
    container,    \* the containers
    clock,
    used,         \* the CPU time of each container, at each second until now
    spent         \* what the counters of the host would be if they did not wrap

streamVars == <<stream, cpuStatsMap, container, clock, used, spent>>

Seconds == 0..MaxClock

Samples == [cpu: Nat, at: Seconds]

ASSUME NoneAssumption == None \notin Servers \cup Samples \cup CPUStats \cup Counters

Streams == [kind: Kinds,
            pc: {"new", "wait", "record", "write", "close", "closed"},
            open: BOOLEAN,                 \* the client is there
            done: BOOLEAN,                 \* the channel done is closed
            server: Servers \cup {None},
            cpus: Limits \cup {0},         \* server.Cpu when the stream began
            reading: Samples \cup {None},  \* the sample taken
            prev: CPUStats \cup {None},    \* prevCPU
            seen: Counters \cup {None},    \* history: the counters last read
            percent: Fractions \cup {None}]

NewStream(kind) ==
    [kind |-> kind, pc |-> "new", open |-> FALSE, done |-> FALSE, server |-> None,
     cpus |-> 0, reading |-> None, prev |-> None, seen |-> None, percent |-> None]

Containers == [running: BOOLEAN, cpus: Limits, boots: 0..MaxBoots,
               booted: Seconds \cup {-1}]  \* when it was last started; -1, before all this

StreamsTypeOK ==
    /\ stream \in [Conns -> Streams]
    /\ cpuStatsMap \in [Servers -> Samples \cup {None}]
    /\ container \in [Servers -> Containers]
    /\ clock \in Seconds
    /\ used \in [Servers -> [Seconds -> Nat]]
    /\ spent \in Counters

StreamsInit ==
    /\ \E panel \in Panels : stream = [c \in Conns |-> NewStream(panel[c])]
    /\ cpuStatsMap = [v \in Servers |-> None]
    /\ container \in [Servers -> [running: {TRUE}, cpus: Limits, boots: {0}, booted: {-1}]]
    /\ clock = 0
    /\ used = [v \in Servers |-> [t \in Seconds |-> 0]]
    /\ spent = First

-----------------------------------------------------------------------------
\* What happens on the host.  A container uses at most the CPUs it may.
Second ==
    /\ clock < MaxClock
    /\ clock' = clock + 1
    /\ \E more \in [Servers -> Loads] :
          /\ \A v \in Servers :
                more[v] <= IF container[v].running THEN container[v].cpus ELSE 0
          /\ used' = [v \in Servers |->
                        [used[v] EXCEPT ![clock + 1] = used[v][clock] + more[v]]]
    /\ \E d \in Growths :
          spent' = [idle |-> spent.idle + d.idle, iowait |-> spent.iowait + d.iowait,
                    busy |-> spent.busy + d.busy]
    /\ UNCHANGED <<stream, cpuStatsMap, container>>

Halt(v) ==
    /\ container[v].running
    /\ container' = [container EXCEPT ![v].running = FALSE]
    /\ UNCHANGED <<stream, cpuStatsMap, clock, used, spent>>

\* A container that starts, maybe after its limit was updated, counts from zero.
Start(v) ==
    /\ ~container[v].running
    /\ container[v].boots < MaxBoots
    /\ \E cpus \in Limits :
          container' = [container EXCEPT ![v] = [running |-> TRUE, cpus |-> cpus,
                                                 boots |-> @.boots + 1, booted |-> clock]]
    /\ used' = [used EXCEPT ![v][clock] = 0]
    /\ UNCHANGED <<stream, cpuStatsMap, clock, spent>>

-----------------------------------------------------------------------------
Serving(c) == stream[c].pc \notin {"new", "closed"}

\* ServerResourcesWebSocket.  The server is unknown, the connection cannot be
\* upgraded, or LXC gives no handle; or the stream begins.
OpenContainer(c, v) ==
    /\ stream[c].pc = "new"
    /\ stream[c].kind = "container"
    /\ \/ stream' = [stream EXCEPT ![c].pc = "closed"]
       \/ stream' = [stream EXCEPT ![c] = [@ EXCEPT !.pc = "wait", !.open = TRUE, !.server = v,
                                                    !.cpus = container[v].cpus]]
    /\ UNCHANGED <<cpuStatsMap, container, clock, used, spent>>

\* getCpuUsage: what the cgroup of the container has counted since it started.
CpuUsage(v) == used[v][clock]

\* The CPU time of a running container is read, and the clock; or it cannot be
\* read, as when the container has halted since.  A tick that finds it stopped
\* sends zeroes, ignores the error, and waits for the next one.
Measure(c) ==
    LET st == stream[c] IN
    /\ st.pc = "wait"
    /\ st.kind = "container"
    /\ container[st.server].running
    /\ \/ stream' = [stream EXCEPT ![c].pc = "record",
                                   ![c].reading = [cpu |-> CpuUsage(st.server), at |-> clock]]
       \/ stream' = [stream EXCEPT ![c].pc = "write"]
    /\ UNCHANGED <<cpuStatsMap, container, clock, used, spent>>

\* Mutant of Percent: whatever the other stream did, the difference is divided.
PercentUnchecked(last, now, cpus) ==
    [num |-> now.cpu - last.cpu, den |-> (now.at - last.at) * cpus]

\* The share of the limit used between two samples, kept between 0 and 1; none
\* when the other stream of the container was later.
Percent(last, now, cpus) ==
    LET time == now.at - last.at
        cpu == now.cpu - last.cpu
    IN  IF time <= 0 \/ cpu < 0 THEN Zero
        ELSE IF cpu > time * cpus THEN [num |-> 1, den |-> 1]
        ELSE [num |-> cpu, den |-> time * cpus]

\* Mutant of Record: the clock is read again when the mutex is taken.
RecordLater(c) ==
    LET st == stream[c]
        last == cpuStatsMap[st.server]
        now == [st.reading EXCEPT !.at = clock]
    IN  /\ st.pc = "record"
        /\ stream' = [stream EXCEPT ![c].pc = "write", ![c].reading = None,
                                    ![c].percent = IF last = None THEN Zero
                                                   ELSE Percent(last, now, st.cpus)]
        /\ cpuStatsMap' = [cpuStatsMap EXCEPT ![st.server] = now]
        /\ UNCHANGED <<container, clock, used, spent>>

\* Under the mutex, the sample is measured against the last one and replaces it.
Record(c) ==
    LET st == stream[c]
        last == cpuStatsMap[st.server]
    IN  /\ st.pc = "record"
        /\ stream' = [stream EXCEPT ![c].pc = "write", ![c].reading = None,
                                    ![c].percent = IF last = None THEN Zero
                                                   ELSE Percent(last, st.reading, st.cpus)]
        /\ cpuStatsMap' = [cpuStatsMap EXCEPT ![st.server] = st.reading]
        /\ UNCHANGED <<container, clock, used, spent>>

-----------------------------------------------------------------------------
\* NodeResourcesWebSocket.
OpenHost(c) ==
    /\ stream[c].pc = "new"
    /\ stream[c].kind = "host"
    /\ \/ stream' = [stream EXCEPT ![c].pc = "closed"]
       \/ stream' = [stream EXCEPT ![c].pc = "wait", ![c].open = TRUE]
    /\ UNCHANGED <<cpuStatsMap, container, clock, used, spent>>

\* parseCPUStat.
CurrentStat == [idle |-> spent.idle % Modulus, iowait |-> spent.iowait % Modulus,
                busy |-> spent.busy % Modulus]

\* Mutant of Kept: a sample is kept only if everything was read.
KeptIfComplete(prev, curr, complete) == IF complete THEN curr ELSE prev

\* prevCPU after a sample, whether or not memory and disk could be read too.
Kept(prev, curr, complete) == curr

\* getNodeResourceStats: without the CPU counters prevCPU stays; without memory
\* or disk an error is sent and no percentage.
SampleHost(c) ==
    LET st == stream[c] IN
    /\ st.pc = "wait"
    /\ st.kind = "host"
    /\ \/ stream' = [stream EXCEPT ![c].pc = "write"]
       \/ \E complete \in BOOLEAN :
             stream' = [stream EXCEPT ![c] =
                 [@ EXCEPT !.pc = "write", !.prev = Kept(st.prev, CurrentStat, complete),
                           !.seen = spent,
                           !.percent = IF ~complete THEN None
                                       ELSE IF st.prev = None THEN Zero
                                       ELSE CalculateCPUPercent(st.prev, CurrentStat)]]
    /\ UNCHANGED <<cpuStatsMap, container, clock, used, spent>>

-----------------------------------------------------------------------------
\* The answer is sent; once the client has left, sending may fail.
Write(c) ==
    /\ stream[c].pc = "write"
    /\ \E pc \in IF stream[c].open THEN {"wait"} ELSE {"wait", "close"} :
          stream' = [stream EXCEPT ![c].pc = pc, ![c].percent = None]
    /\ UNCHANGED <<cpuStatsMap, container, clock, used, spent>>

\* The client closes the connection, or it breaks.
Leave(c) ==
    /\ stream[c].open
    /\ stream' = [stream EXCEPT ![c].open = FALSE]
    /\ UNCHANGED <<cpuStatsMap, container, clock, used, spent>>

\* The goroutine that reads the connection fails to and closes done.
ReaderEnds(c) ==
    /\ Serving(c)
    /\ ~stream[c].open
    /\ ~stream[c].done
    /\ stream' = [stream EXCEPT ![c].done = TRUE]
    /\ UNCHANGED <<cpuStatsMap, container, clock, used, spent>>

\* Mutant of HangUp: a break leaves the select and not the loop.
BreakSelect(c) ==
    /\ stream[c].pc = "wait"
    /\ stream[c].done
    /\ UNCHANGED streamVars

\* select takes done; it may take a tick instead for as long as both are ready.
HangUp(c) ==
    /\ stream[c].pc = "wait"
    /\ stream[c].done
    /\ stream' = [stream EXCEPT ![c].pc = "close"]
    /\ UNCHANGED <<cpuStatsMap, container, clock, used, spent>>

Closed(c) ==
    stream' = [stream EXCEPT ![c] = [NewStream(stream[c].kind) EXCEPT !.pc = "closed"]]

\* Mutant of Close: the sample of the container stays in the table.
CloseOnly(c) ==
    /\ stream[c].pc = "close"
    /\ Closed(c)
    /\ UNCHANGED <<cpuStatsMap, container, clock, used, spent>>

\* The deferred calls: the sample of the container is deleted, whoever took it.
Close(c) ==
    /\ stream[c].pc = "close"
    /\ Closed(c)
    /\ cpuStatsMap' = IF stream[c].kind = "host" THEN cpuStatsMap
                      ELSE [cpuStatsMap EXCEPT ![stream[c].server] = None]
    /\ UNCHANGED <<container, clock, used, spent>>

-----------------------------------------------------------------------------
HostStep == \/ Second
            \/ \E v \in Servers : Halt(v) \/ Start(v)

Handler(c) == Measure(c) \/ Record(c) \/ SampleHost(c) \/ Write(c) \/ Close(c)

StreamStep(c) ==
    \/ \E v \in Servers : OpenContainer(c, v)
    \/ OpenHost(c)
    \/ Handler(c)
    \/ Leave(c)
    \/ ReaderEnds(c)
    \/ HangUp(c)

StreamsNext == HostStep \/ \E c \in Conns : StreamStep(c)

\* The runtime runs every goroutine, ticks come while the program runs, and
\* select chooses at random among what is ready.
StreamsFairness ==
    \A c \in Conns : /\ WF_streamVars(Handler(c))
                     /\ WF_streamVars(ReaderEnds(c))
                     /\ SF_streamVars(HangUp(c))

StreamsSpec == StreamsInit /\ [][StreamsNext]_streamVars /\ StreamsFairness

-----------------------------------------------------------------------------
\* A sample is kept only while a stream is there to use it: the table does not
\* grow with every server ever watched (ServerResourcesWebSocket deletes the
\* entry when any stream of the server ends).
EntriesHaveStream ==
    \A v \in Servers :
        cpuStatsMap[v] # None => \E c \in Conns : Serving(c) /\ stream[c].server = v

\* The percentage sent is the CPU time the container used between the two
\* samples over what its limit allows in that time, whichever stream took the
\* first one and however long this one waited for the mutex.  Nothing is said
\* of samples from before the container was last started, of two in one second,
\* and of a limit updated after the stream began.
PercentTrue ==
    [][\A c \in Conns :
         LET st == stream[c]
             last == cpuStatsMap[st.server]
             h == container[st.server]
             cpu == used[st.server]
             percent == stream'[c].percent
         IN  /\ st.pc = "record" /\ stream'[c].pc = "write"
             /\ last # None
             /\ h.booted < last.at /\ last.at < st.reading.at
             /\ h.cpus = st.cpus
             => percent.num * (st.reading.at - last.at) * st.cpus
                   = percent.den * (cpu[st.reading.at] - cpu[last.at])]_streamVars

\* The percentage sent for the host is the share of the time since the counters
\* were last read that was not idle, also when a counter wrapped in between and
\* when the sample before could not be sent (getNodeResourceStats).
CpuPercentExact ==
    [][\A c \in Conns :
         LET st == stream[c]
             busy == spent.busy - st.seen.busy
             all == busy + spent.idle - st.seen.idle + spent.iowait - st.seen.iowait
             percent == stream'[c].percent
         IN  /\ st.pc = "wait" /\ stream'[c].pc = "write"
             /\ st.seen # None /\ percent # None
             => /\ percent.num * all = busy * percent.den
                /\ percent.den > 0]_streamVars

\* The handler of a connection that the client has left ends, also while the
\* container is stopped and nothing that is sent is checked.
StreamsEnd == \A c \in Conns : Serving(c) /\ ~stream[c].open ~> ~Serving(c)

=============================================================================
