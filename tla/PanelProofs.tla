----------------------------- MODULE PanelProofs -----------------------------
(***************************************************************************)
(* Proofs about the panel's connections, for every number of them, of      *)
(* servers and of seconds, every modulus and every size of a block.  The   *)
(* invariant MInv says what the samples in the table and in the streams    *)
(* are: CPU times the container really had at that second, unless it was   *)
(* started since, and counters of the host that have not grown by a        *)
(* modulus.  The percentages then follow by arithmetic.                    *)
(***************************************************************************)
EXTENDS Panel, TLAPS

-----------------------------------------------------------------------------
\* Counters that wrap.

\* A number is a multiple of a divisor and a remainder.
LEMMA Division ==
    ASSUME NEW n \in Nat, NEW d \in Nat \ {0}
    PROVE  /\ n % d \in 0..d - 1
           /\ n \div d \in Nat
           /\ n = d * (n \div d) + (n % d)
<1>1. n % d \in 0..d - 1
  OBVIOUS
<1>2. n \div d \in Nat
  OBVIOUS
<1>3. n = d * (n \div d) + (n % d)
  OBVIOUS
<1>4. QED
  BY <1>1, <1>2, <1>3

\* The remainder is unique.
LEMMA Remainder ==
    ASSUME NEW d \in Nat \ {0}, NEW p \in Nat, NEW q \in Nat,
           NEW k \in 0..d - 1, NEW m \in 0..d - 1, d * p + k = d * q + m
    PROVE  k = m
<1>1. CASE p < q
  <2>1. d * (p + 1) <= d * q
    BY <1>1
  <2>2. QED
    BY <2>1
<1>2. CASE p > q
  <2>1. d * (q + 1) <= d * p
    BY <1>2
  <2>2. QED
    BY <2>1
<1>3. QED
  BY <1>1, <1>2

\* The remainder of a number that is written as a multiple and one.
LEMMA RemainderOf ==
    ASSUME NEW d \in Nat \ {0}, NEW q \in Nat, NEW m \in 0..d - 1
    PROVE  (d * q + m) % d = m
<1> DEFINE n == d * q + m
<1>1. n \in Nat
  OBVIOUS
<1> HIDE DEF n
<1>2. n % d \in 0..d - 1 /\ n \div d \in Nat /\ n = d * (n \div d) + (n % d)
  BY <1>1, Division
<1>3. n = d * q + m
  BY DEF n
<1>4. n % d = m
  BY <1>2, <1>3, Remainder
<1>5. QED
  BY <1>4 DEF n

\* A sum of wrapped counters is the wrapped sum.
LEMMA PlusWraps ==
    ASSUME NEW a \in Nat, NEW b \in Nat
    PROVE  Plus(a % Modulus, b % Modulus) = (a + b) % Modulus
<1> DEFINE x == a % Modulus
           y == b % Modulus
           p == a \div Modulus
           q == b \div Modulus
<1>1. Modulus \in Nat \ {0}
  BY ModulusAssumption
<1>2. x \in 0..Modulus - 1 /\ p \in Nat /\ a = Modulus * p + x
  BY <1>1, Division
<1>3. y \in 0..Modulus - 1 /\ q \in Nat /\ b = Modulus * q + y
  BY <1>1, Division
<1> HIDE DEF x, y, p, q
<1>4. CASE x + y < Modulus
  <2>1. a + b = Modulus * (p + q) + (x + y)
    BY <1>1, <1>2, <1>3
  <2>2. (Modulus * (p + q) + (x + y)) % Modulus = x + y
    BY <1>1, <1>2, <1>3, <1>4, RemainderOf
  <2>3. QED
    BY <1>4, <2>1, <2>2 DEF Plus, x, y
<1>5. CASE x + y >= Modulus
  <2>1. a + b = Modulus * (p + q + 1) + (x + y - Modulus)
    BY <1>1, <1>2, <1>3
  <2>2. (Modulus * (p + q + 1) + (x + y - Modulus)) % Modulus = x + y - Modulus
    <3>1. p + q + 1 \in Nat /\ x + y - Modulus \in 0..Modulus - 1
      BY <1>1, <1>2, <1>3, <1>5
    <3>2. QED
      BY <1>1, <3>1, RemainderOf
  <2>3. ~(x + y < Modulus)
    BY <1>1, <1>2, <1>3, <1>5
  <2>4. QED
    BY <2>1, <2>2, <2>3 DEF Plus, x, y
<1>6. QED
  BY <1>1, <1>2, <1>3, <1>4, <1>5

\* The difference of two wrapped counters is what the counter grew by, if that
\* is less than the modulus.
LEMMA MinusUnwraps ==
    ASSUME NEW a \in Nat, NEW b \in Nat, a <= b, b - a < Modulus
    PROVE  Minus(b % Modulus, a % Modulus) = b - a
<1> DEFINE x == a % Modulus
           y == b % Modulus
           p == a \div Modulus
           q == b \div Modulus
<1>1. Modulus \in Nat \ {0}
  BY ModulusAssumption
<1>2. x \in 0..Modulus - 1 /\ p \in Nat /\ a = Modulus * p + x
  BY <1>1, Division
<1>3. y \in 0..Modulus - 1 /\ q \in Nat /\ b = Modulus * q + y
  BY <1>1, Division
<1> HIDE DEF x, y, p, q
<1> DEFINE d == b - a
<1>4. d \in 0..Modulus - 1 /\ b = a + d
  BY <1>1
<1> HIDE DEF d
<1>5. CASE x + d < Modulus
  <2>1. Modulus * q + y = Modulus * p + (x + d)
    BY <1>1, <1>2, <1>3, <1>4
  <2>2. y = x + d
    BY <1>1, <1>2, <1>3, <1>4, <1>5, <2>1, Remainder
  <2>3. Minus(y, x) = d
    BY <1>1, <1>2, <1>4, <2>2 DEF Minus
  <2>4. QED
    BY <2>3 DEF x, y, d
<1>6. CASE x + d >= Modulus
  <2> DEFINE z == x + d - Modulus
             r == p + 1
  <2>1. z \in 0..Modulus - 1 /\ r \in Nat
    BY <1>1, <1>2, <1>4, <1>6
  <2>2. Modulus * q + y = Modulus * r + z
    BY <1>1, <1>2, <1>3, <1>4
  <2> HIDE DEF z, r
  <2>3. y = z
    BY <1>1, <1>3, <2>1, <2>2, Remainder
  <2>4. Minus(y, x) = d
    BY <1>1, <1>2, <1>4, <2>3 DEF Minus, z
  <2>5. QED
    BY <2>4 DEF x, y, d
<1>7. QED
  BY <1>1, <1>2, <1>4, <1>5, <1>6

\* The statistics of counters that may have wrapped any number of times.
Stat(counters) == [idle |-> counters.idle % Modulus, iowait |-> counters.iowait % Modulus,
                   busy |-> counters.busy % Modulus]

All(counters) == counters.idle + counters.iowait + counters.busy

\* Idle and total time of counters, as parseCPUStat and calculateCPUPercent sum them.
LEMMA StatSums ==
    ASSUME NEW counters \in Counters
    PROVE  /\ Stat(counters) \in CPUStats
           /\ Idle(Stat(counters)) = (counters.idle + counters.iowait) % Modulus
           /\ Total(Stat(counters)) = All(counters) % Modulus
<1>1. counters.idle \in Nat /\ counters.iowait \in Nat /\ counters.busy \in Nat
  BY DEF Counters
<1>2. Stat(counters) \in CPUStats
  BY <1>1, Division, ModulusAssumption DEF Stat, CPUStats, Uint
<1>3. Idle(Stat(counters)) = (counters.idle + counters.iowait) % Modulus
  BY <1>1, PlusWraps DEF Idle, Stat
<1>4. counters.idle + counters.iowait \in Nat
  BY <1>1
<1>5. Plus((counters.idle + counters.iowait) % Modulus, counters.busy % Modulus)
        = All(counters) % Modulus
  BY <1>1, <1>4, PlusWraps DEF All
<1>6. Total(Stat(counters)) = All(counters) % Modulus
  BY <1>3, <1>5 DEF Total, Stat
<1>7. QED
  BY <1>2, <1>3, <1>6

\* The counters of `now`, which only grew since `then`, and by less than the
\* modulus.
Grew(then, now) ==
    /\ then.idle <= now.idle /\ then.iowait <= now.iowait /\ then.busy <= now.busy
    /\ All(now) - All(then) < Modulus

\* The percentage of the host is the share of the time that was not idle.
LEMMA PercentOfHost ==
    ASSUME NEW then \in Counters, NEW now \in Counters, Grew(then, now)
    PROVE  CalculateCPUPercent(Stat(then), Stat(now)) =
              IF All(now) = All(then) THEN Zero
              ELSE [num |-> now.busy - then.busy, den |-> All(now) - All(then)]
<1>1. /\ then.idle \in Nat /\ then.iowait \in Nat /\ then.busy \in Nat
      /\ now.idle \in Nat /\ now.iowait \in Nat /\ now.busy \in Nat
  BY DEF Counters
<1> DEFINE total == All(now) - All(then)
           idle == (now.idle + now.iowait) - (then.idle + then.iowait)
<1>2. /\ total \in Nat /\ idle \in Nat
      /\ idle <= total /\ total < Modulus
      /\ total - idle = now.busy - then.busy
      /\ All(now) \in Nat /\ All(then) \in Nat
  BY <1>1 DEF Grew, All
<1>3. Minus(Total(Stat(now)), Total(Stat(then))) = total
  BY <1>2, StatSums, MinusUnwraps
<1>4. Minus(Idle(Stat(now)), Idle(Stat(then))) = idle
  <2>1. /\ now.idle + now.iowait \in Nat /\ then.idle + then.iowait \in Nat
        /\ then.idle + then.iowait <= now.idle + now.iowait
    BY <1>1 DEF Grew
  <2>2. idle < Modulus
    BY <1>2, ModulusAssumption
  <2> DEFINE b == now.idle + now.iowait
             a == then.idle + then.iowait
  <2>3. Idle(Stat(now)) = b % Modulus /\ Idle(Stat(then)) = a % Modulus
    BY StatSums
  <2>4. a \in Nat /\ b \in Nat /\ a <= b /\ b - a < Modulus
    BY <2>1, <2>2
  <2> HIDE DEF a, b
  <2>5. Minus(b % Modulus, a % Modulus) = b - a
    BY <2>4, MinusUnwraps
  <2>6. QED
    BY <2>3, <2>5 DEF a, b
<1>5. Minus(total, idle) = now.busy - then.busy
  BY <1>2 DEF Minus
<1>6. total = 0 <=> All(now) = All(then)
  BY <1>2
<1>7. QED
  BY <1>3, <1>4, <1>5, <1>6 DEF CalculateCPUPercent

-----------------------------------------------------------------------------
\* A sample holds the CPU time that the container had at that second, unless it
\* was started since.
SampleOK(v, sample) ==
    /\ sample.at <= clock
    /\ container[v].booted < sample.at => sample.cpu = used[v][sample.at]

\* The counters were read after the agent started and before now.
SeenOK(seen) ==
    /\ First.idle <= seen.idle /\ seen.idle <= spent.idle
    /\ First.iowait <= seen.iowait /\ seen.iowait <= spent.iowait
    /\ First.busy <= seen.busy /\ seen.busy <= spent.busy

\* What a stream holds at which point.
Good(st) ==
    /\ st \in Streams
    /\ st.pc \in {"new", "closed"} => st.server = None
    /\ st.pc \notin {"new", "closed"} =>
          \/ st.kind = "container" /\ st.server \in Servers /\ st.cpus \in Limits
          \/ st.kind = "host" /\ st.server = None
    /\ st.reading # None <=> st.pc = "record"
    /\ st.pc = "record" => /\ st.kind = "container"
                           /\ SampleOK(st.server, st.reading)
    /\ st.percent # None => st.pc = "write"
    /\ st.prev = IF st.seen = None THEN None ELSE Stat(st.seen)
    /\ st.seen # None => SeenOK(st.seen)

\* Since it was last started, a container used no more than its limit.
UsedOK(v) ==
    /\ container[v].booted <= clock
    /\ \A t, u \in 0..clock :
          container[v].booted < t /\ t <= u
            => /\ used[v][t] <= used[v][u]
               /\ used[v][u] - used[v][t] <= (u - t) * container[v].cpus

\* The counters of the host have not grown by a whole modulus.
SpentOK ==
    /\ First.idle <= spent.idle /\ First.iowait <= spent.iowait /\ First.busy <= spent.busy
    /\ clock = 0 => All(spent) = All(First)
    /\ MaxClock * (All(spent) - All(First)) <= clock * (Modulus - 1)

MInv ==
    /\ StreamsTypeOK
    /\ \A c \in Conns : Good(stream[c])
    /\ \A v \in Servers : cpuStatsMap[v] # None => SampleOK(v, cpuStatsMap[v])
    /\ \A v \in Servers : UsedOK(v)
    /\ SpentOK
    /\ EntriesHaveStream

-----------------------------------------------------------------------------
\* Nothing has been measured at first.
LEMMA MInvInit == StreamsInit => MInv
<1> SUFFICES ASSUME StreamsInit
             PROVE  MInv
  OBVIOUS
<1>1. ASSUME NEW kind \in Kinds
      PROVE  Good(NewStream(kind))
  <2> DEFINE st == NewStream(kind)
  <2>1. /\ st.kind = kind /\ st.pc = "new" /\ st.open = FALSE /\ st.done = FALSE
        /\ st.server = None /\ st.cpus = 0 /\ st.reading = None /\ st.prev = None
        /\ st.seen = None /\ st.percent = None
    BY DEF NewStream
  <2>2. st \in Streams
    BY <1>1 DEF NewStream, Streams
  <2> HIDE DEF st
  <2>3. Good(st)
    BY <2>1, <2>2 DEF Good
  <2>4. QED
    BY <2>3 DEF st
<1>2. \A c \in Conns : Good(stream[c])
  <2>1. PICK panel \in Panels : stream = [c \in Conns |-> NewStream(panel[c])]
    BY DEF StreamsInit
  <2>2. ASSUME NEW c \in Conns
        PROVE  Good(stream[c])
    <3>1. panel[c] \in Kinds /\ stream[c] = NewStream(panel[c])
      BY <2>1, StreamsAssumption
    <3>2. QED
      BY <1>1, <3>1
  <2>3. QED
    BY <2>2
<1>3. stream \in [Conns -> Streams]
  <2>1. PICK panel \in Panels : stream = [c \in Conns |-> NewStream(panel[c])]
    BY DEF StreamsInit
  <2>2. \A c \in Conns : stream[c] \in Streams
    BY <1>2 DEF Good
  <2>3. QED
    BY <2>1, <2>2
<1>4. /\ container \in [Servers -> Containers]
      /\ \A v \in Servers : container[v].booted = -1
  <2>1. container \in [Servers -> [running: {TRUE}, cpus: Limits, boots: {0}, booted: {-1}]]
    BY DEF StreamsInit
  <2>2. [running: {TRUE}, cpus: Limits, boots: {0}, booted: {-1}] \subseteq Containers
    <3>1. 0 \in 0..MaxBoots
      BY StreamsAssumption
    <3>2. QED
      BY <3>1 DEF Containers
  <2>3. QED
    BY <2>1, <2>2
<1>5. clock = 0 /\ clock \in Seconds
  BY StreamsAssumption DEF StreamsInit, Seconds
<1>6. used \in [Servers -> [Seconds -> Nat]] /\ \A v \in Servers : used[v][0] = 0
  BY <1>5 DEF StreamsInit
<1>7. spent = First /\ First \in Counters
  BY StreamsAssumption DEF StreamsInit
<1>8. cpuStatsMap \in [Servers -> Samples \cup {None}] /\ \A v \in Servers : cpuStatsMap[v] = None
  BY DEF StreamsInit
<1>9. \A v \in Servers : UsedOK(v)
  <2>1. ASSUME NEW v \in Servers
        PROVE  container[v].cpus \in Nat
    BY <1>4, StreamsAssumption DEF Containers
  <2>2. QED
    BY <1>4, <1>5, <1>6, <2>1 DEF UsedOK
<1>10. SpentOK
  BY <1>5, <1>7, StreamsAssumption, ModulusAssumption DEF SpentOK, All, Counters
<1>11. QED
  BY <1>2, <1>3, <1>4, <1>5, <1>6, <1>7, <1>8, <1>9, <1>10
  DEF MInv, StreamsTypeOK, EntriesHaveStream

-----------------------------------------------------------------------------
\* What the streams hold stays good while the host goes on.
LEMMA HostKeepsStreams ==
    ASSUME MInv, UNCHANGED <<stream, cpuStatsMap>>,
           \A v \in Servers, sample \in Samples : SampleOK(v, sample) => SampleOK(v, sample)',
           \A seen \in Counters : SeenOK(seen) => SeenOK(seen)'
    PROVE  /\ \A c \in Conns : Good(stream[c])'
           /\ \A v \in Servers : cpuStatsMap'[v] # None => SampleOK(v, cpuStatsMap[v])'
           /\ EntriesHaveStream'
<1>1. ASSUME NEW c \in Conns
      PROVE  Good(stream[c])'
  <2>1. Good(stream[c]) /\ stream'[c] = stream[c]
    BY DEF MInv
  <2>2. stream[c].reading # None => SampleOK(stream[c].server, stream[c].reading)'
    <3>1. stream[c].reading # None => stream[c].reading \in Samples /\ stream[c].server \in Servers
      BY <2>1, NoneAssumption DEF Good, Streams, Kinds
    <3>2. QED
      BY <2>1, <3>1 DEF Good
  <2>3. stream[c].seen # None => SeenOK(stream[c].seen)'
    <3>1. stream[c].seen # None => stream[c].seen \in Counters
      BY <2>1 DEF Good, Streams
    <3>2. QED
      BY <2>1, <3>1 DEF Good
  <2>4. QED
    BY <2>1, <2>2, <2>3 DEF Good
<1>2. ASSUME NEW v \in Servers, cpuStatsMap'[v] # None
      PROVE  SampleOK(v, cpuStatsMap[v])'
  <2>1. cpuStatsMap[v] \in Samples /\ SampleOK(v, cpuStatsMap[v])
    BY <1>2 DEF MInv, StreamsTypeOK
  <2>2. QED
    BY <2>1
<1>3. EntriesHaveStream'
  BY DEF MInv, EntriesHaveStream, Serving
<1>4. QED
  BY <1>1, <1>2, <1>3

\* A container uses no more in a second than its limit allows.
LEMMA UsedBySecond ==
    ASSUME MInv, Second, NEW v \in Servers
    PROVE  UsedOK(v)'
<1>1. PICK more \in [Servers -> Loads] :
         /\ more[v] <= IF container[v].running THEN container[v].cpus ELSE 0
         /\ used' = [w \in Servers |-> [used[w] EXCEPT ![clock + 1] = used[w][clock] + more[w]]]
  BY DEF Second
<1> DEFINE b == container[v].booted
           l == container[v].cpus
           f == used[v]
           k == clock
           n == more[v]
<1>2. /\ k \in Nat /\ k + 1 \in Seconds /\ clock' = k + 1 /\ container' = container
      /\ \A t \in 0..k + 1 : t \in Seconds
  BY StreamsAssumption DEF MInv, StreamsTypeOK, Second, Seconds
<1>3. /\ container[v] \in Containers /\ f \in [Seconds -> Nat] /\ l \in Nat
      /\ n \in Nat /\ n <= l
  <2>1. container[v] \in Containers /\ f \in [Seconds -> Nat]
    BY DEF MInv, StreamsTypeOK
  <2>2. l \in Nat
    BY <2>1, StreamsAssumption DEF Containers
  <2>3. n \in Nat
    BY <1>1, StreamsAssumption
  <2>4. n <= IF container[v].running THEN l ELSE 0
    BY <1>1
  <2>5. QED
    BY <2>1, <2>2, <2>3, <2>4
<1>4. b \in Int /\ b <= k
  BY <1>2, <1>3 DEF MInv, UsedOK, Containers, Seconds
<1>5. used'[v] = [f EXCEPT ![k + 1] = f[k] + n]
  BY <1>1
<1>6. \A t, u \in 0..k : b < t /\ t <= u => f[t] <= f[u] /\ f[u] - f[t] <= (u - t) * l
  BY DEF MInv, UsedOK
<1>7. container'[v].booted = b /\ container'[v].cpus = l
  BY <1>2
<1> HIDE DEF b, l, f, k, n
<1>8. ASSUME NEW t \in 0..k + 1, NEW u \in 0..k + 1, b < t, t <= u
      PROVE  /\ used'[v][t] <= used'[v][u]
             /\ used'[v][u] - used'[v][t] <= (u - t) * l
  <2>1. CASE u <= k
    <3>1. t \in 0..k /\ u \in 0..k /\ used'[v][t] = f[t] /\ used'[v][u] = f[u]
      BY <1>2, <1>3, <1>5, <1>8, <2>1
    <3>2. QED
      BY <1>6, <1>8, <3>1
  <2>2. CASE u = k + 1 /\ t <= k
    <3>1. t \in 0..k /\ k \in 0..k /\ used'[v][t] = f[t] /\ used'[v][u] = f[k] + n
      BY <1>2, <1>3, <1>5, <1>8, <2>2
    <3>2. f[t] <= f[k] /\ f[k] - f[t] <= (k - t) * l
      BY <1>6, <1>8, <2>2, <3>1
    <3>3. f[t] \in Nat /\ f[k] \in Nat
      BY <1>2, <1>3, <3>1
    <3>4. (u - t) * l = (k - t) * l + l
      BY <1>2, <1>3, <2>2, <3>1
    <3>5. (k - t) * l \in Int
      BY <1>2, <1>3, <3>1
    <3> DEFINE p == (k - t) * l
    <3> HIDE DEF p
    <3>6. f[k] + n - f[t] <= p + l
      BY <1>3, <3>2, <3>3, <3>5 DEF p
    <3>7. f[t] <= f[k] + n
      BY <1>3, <3>2, <3>3
    <3> DEFINE q == (u - t) * l
    <3>8. q = p + l
      BY <3>4 DEF p
    <3> HIDE DEF q
    <3>9. used'[v][u] - used'[v][t] <= q
      BY <3>1, <3>6, <3>8, <3>3, <1>3
    <3>10. QED
      BY <3>1, <3>7, <3>9 DEF q
  <2>3. CASE u = k + 1 /\ t = k + 1
    <3>1. used'[v][t] = f[k] + n /\ used'[v][u] = f[k] + n
      BY <1>2, <1>3, <1>5, <2>3
    <3>2. f[k] + n \in Nat
      BY <1>2, <1>3
    <3>3. (u - t) * l = 0
      BY <1>2, <1>3, <2>3
    <3>4. QED
      BY <3>1, <3>2, <3>3
  <2>4. QED
    BY <1>2, <1>8, <2>1, <2>2, <2>3
<1>9. b <= clock'
  BY <1>2, <1>4
<1>10. clock' = k + 1
  BY <1>2
<1>11. QED
  BY <1>7, <1>8, <1>9, <1>10 DEF UsedOK

\* In all the seconds, the counters of the host do not grow by a modulus.
LEMMA SpentBySecond ==
    ASSUME MInv, Second
    PROVE  SpentOK' /\ \A seen \in Counters : SeenOK(seen) => SeenOK(seen)'
<1>1. PICK d \in Growths :
         spent' = [idle |-> spent.idle + d.idle, iowait |-> spent.iowait + d.iowait,
                   busy |-> spent.busy + d.busy]
  BY DEF Second
<1> DEFINE k == clock
           n == d.idle + d.iowait + d.busy
           s == All(spent) - All(First)
<1>2. /\ d.idle \in Nat /\ d.iowait \in Nat /\ d.busy \in Nat
      /\ First.idle \in Nat /\ First.iowait \in Nat /\ First.busy \in Nat
      /\ spent.idle \in Nat /\ spent.iowait \in Nat /\ spent.busy \in Nat
      /\ Modulus \in Nat \ {0} /\ MaxClock \in Nat /\ k \in Nat /\ clock' = k + 1
  BY StreamsAssumption, ModulusAssumption DEF Counters, MInv, StreamsTypeOK, Seconds, Second
<1>3. MaxClock * n < Modulus /\ n \in Nat
  BY <1>2, StreamsAssumption
<1>4. All(spent') - All(First) = s + n
  BY <1>1, <1>2 DEF All
<1>5. MaxClock * s <= k * (Modulus - 1) /\ s \in Int
  BY <1>2 DEF MInv, SpentOK, All
<1>6. MaxClock * (s + n) <= (k + 1) * (Modulus - 1)
  <2> HIDE DEF k, n, s
  <2>1. MaxClock * (s + n) = MaxClock * s + MaxClock * n
    BY <1>2, <1>3, <1>5
  <2>2. (k + 1) * (Modulus - 1) = k * (Modulus - 1) + (Modulus - 1)
    BY <1>2
  <2> DEFINE a == MaxClock * s
             b == MaxClock * n
             e == k * (Modulus - 1)
  <2>3. a \in Int /\ b \in Int /\ e \in Int
    BY <1>2, <1>3, <1>5
  <2>4. a <= e /\ b < Modulus
    BY <1>3, <1>5
  <2>5. MaxClock * (s + n) = a + b /\ (k + 1) * (Modulus - 1) = e + (Modulus - 1)
    BY <2>1, <2>2
  <2> HIDE DEF a, b, e
  <2>6. a + b <= e + (Modulus - 1)
    BY <1>2, <2>3, <2>4
  <2>7. QED
    BY <2>5, <2>6
<1>7. /\ spent.idle <= spent'.idle /\ spent.iowait <= spent'.iowait
      /\ spent.busy <= spent'.busy
      /\ spent'.idle \in Nat /\ spent'.iowait \in Nat /\ spent'.busy \in Nat
  BY <1>1, <1>2
<1>8. SpentOK'
  <2>1. First.idle <= spent'.idle /\ First.iowait <= spent'.iowait /\ First.busy <= spent'.busy
    BY <1>2, <1>7 DEF MInv, SpentOK
  <2>2. clock' # 0
    BY <1>2
  <2>3. MaxClock * (All(spent') - All(First)) <= clock' * (Modulus - 1)
    BY <1>2, <1>4, <1>6
  <2>4. QED
    BY <2>1, <2>2, <2>3 DEF SpentOK, All
<1>9. \A seen \in Counters : SeenOK(seen) => SeenOK(seen)'
  BY <1>2, <1>7 DEF SeenOK, Counters
<1>10. QED
  BY <1>8, <1>9

\* A second passes.
LEMMA SecondKeeps ==
    ASSUME MInv, Second
    PROVE  MInv'
<1>1. /\ clock \in Nat /\ clock + 1 \in Seconds /\ clock' = clock + 1
      /\ UNCHANGED <<stream, cpuStatsMap, container>>
      /\ \A t \in 0..clock : t \in Seconds
  BY StreamsAssumption DEF MInv, StreamsTypeOK, Second, Seconds
<1>2. PICK more \in [Servers -> Loads] :
         used' = [v \in Servers |-> [used[v] EXCEPT ![clock + 1] = used[v][clock] + more[v]]]
  BY DEF Second
<1>3. ASSUME NEW v \in Servers
      PROVE  /\ used'[v] = [used[v] EXCEPT ![clock + 1] = used[v][clock] + more[v]]
             /\ used[v] \in [Seconds -> Nat] /\ used'[v] \in [Seconds -> Nat]
  <2>1. used[v] \in [Seconds -> Nat] /\ more[v] \in Nat /\ clock \in Seconds
    BY <1>1, StreamsAssumption DEF MInv, StreamsTypeOK
  <2>2. used'[v] = [used[v] EXCEPT ![clock + 1] = used[v][clock] + more[v]]
    BY <1>2
  <2>3. QED
    BY <1>1, <2>1, <2>2
<1>4. used' \in [Servers -> [Seconds -> Nat]]
  BY <1>2, <1>3
<1>5. spent' \in Counters
  <2>1. PICK d \in Growths :
           spent' = [idle |-> spent.idle + d.idle, iowait |-> spent.iowait + d.iowait,
                     busy |-> spent.busy + d.busy]
    BY DEF Second
  <2>2. d \in Counters /\ spent \in Counters
    BY StreamsAssumption DEF MInv, StreamsTypeOK
  <2>3. QED
    BY <2>1, <2>2 DEF Counters
<1>6. ASSUME NEW v \in Servers, NEW sample \in Samples, SampleOK(v, sample)
      PROVE  SampleOK(v, sample)'
  <2>1. sample.at \in Seconds /\ sample.at \in Nat /\ sample.at <= clock /\ sample.at # clock + 1
    BY <1>1, <1>6 DEF SampleOK, Samples, Seconds
  <2>2. used'[v][sample.at] = used[v][sample.at]
    <3>1. PICK at \in Seconds : at = sample.at /\ at # clock + 1
      BY <2>1
    <3>2. /\ used'[v] = [used[v] EXCEPT ![clock + 1] = used[v][clock] + more[v]]
          /\ used[v] \in [Seconds -> Nat]
      BY <1>3
    <3>3. used'[v][at] = used[v][at]
      BY <3>1, <3>2
    <3>4. QED
      BY <3>1, <3>3
  <2>3. QED
    BY <1>1, <1>6, <2>1, <2>2 DEF SampleOK
<1>7. SpentOK' /\ \A seen \in Counters : SeenOK(seen) => SeenOK(seen)'
  BY SpentBySecond
<1>8. \A v \in Servers : UsedOK(v)'
  BY UsedBySecond
<1>9. /\ \A c \in Conns : Good(stream[c])'
      /\ \A v \in Servers : cpuStatsMap'[v] # None => SampleOK(v, cpuStatsMap[v])'
      /\ EntriesHaveStream'
  BY <1>1, <1>6, <1>7, HostKeepsStreams
<1>10. StreamsTypeOK'
  BY <1>1, <1>4, <1>5 DEF MInv, StreamsTypeOK
<1>11. QED
  BY <1>7, <1>8, <1>9, <1>10 DEF MInv

\* A container halts.
LEMMA HaltKeeps ==
    ASSUME MInv, NEW v \in Servers, Halt(v)
    PROVE  MInv'
<1>1. UNCHANGED <<stream, cpuStatsMap, clock, used, spent>>
  BY DEF Halt
<1>2. /\ container' \in [Servers -> Containers]
      /\ \A w \in Servers : /\ container'[w].booted = container[w].booted
                            /\ container'[w].cpus = container[w].cpus
  BY DEF MInv, StreamsTypeOK, Halt, Containers
<1>3. \A w \in Servers, sample \in Samples : SampleOK(w, sample) => SampleOK(w, sample)'
  BY <1>1, <1>2 DEF SampleOK
<1>4. \A seen \in Counters : SeenOK(seen) => SeenOK(seen)'
  BY <1>1 DEF SeenOK
<1>5. \A w \in Servers : UsedOK(w)'
  BY <1>1, <1>2 DEF UsedOK, MInv
<1>6. SpentOK'
  BY <1>1 DEF SpentOK, MInv, All
<1>7. /\ \A c \in Conns : Good(stream[c])'
      /\ \A w \in Servers : cpuStatsMap'[w] # None => SampleOK(w, cpuStatsMap[w])'
      /\ EntriesHaveStream'
  BY <1>1, <1>3, <1>4, HostKeepsStreams
<1>8. StreamsTypeOK'
  BY <1>1, <1>2 DEF MInv, StreamsTypeOK
<1>9. QED
  BY <1>5, <1>6, <1>7, <1>8 DEF MInv

\* A container starts and counts from zero.
LEMMA StartKeeps ==
    ASSUME MInv, NEW v \in Servers, Start(v)
    PROVE  MInv'
<1>1. UNCHANGED <<stream, cpuStatsMap, clock, spent>> /\ clock \in Seconds /\ clock \in Nat
  BY DEF Start, MInv, StreamsTypeOK, Seconds
<1>2. PICK cpus \in Limits :
         container' = [container EXCEPT ![v] = [running |-> TRUE, cpus |-> cpus,
                                                boots |-> @.boots + 1, booted |-> clock]]
  BY DEF Start
<1>3. container[v].boots + 1 \in 0..MaxBoots
  BY StreamsAssumption DEF Start, MInv, StreamsTypeOK, Containers
<1>4. container' \in [Servers -> Containers]
  BY <1>1, <1>2, <1>3 DEF MInv, StreamsTypeOK, Containers
<1>5. container'[v].booted = clock /\ \A w \in Servers \ {v} : container'[w] = container[w]
  BY <1>2 DEF MInv, StreamsTypeOK
<1>6. used' = [used EXCEPT ![v][clock] = 0]
  BY DEF Start
<1>7. used' \in [Servers -> [Seconds -> Nat]] /\ \A w \in Servers \ {v} : used'[w] = used[w]
  <2>1. used \in [Servers -> [Seconds -> Nat]]
    BY DEF MInv, StreamsTypeOK
  <2>2. [used[v] EXCEPT ![clock] = 0] \in [Seconds -> Nat]
    BY <1>1, <2>1
  <2>3. used' = [used EXCEPT ![v] = [used[v] EXCEPT ![clock] = 0]]
    BY <1>6
  <2>4. QED
    BY <2>1, <2>2, <2>3
<1>8. ASSUME NEW w \in Servers, NEW sample \in Samples, SampleOK(w, sample)
      PROVE  SampleOK(w, sample)'
  <2>1. CASE w = v
    <3>1. sample.at \in Nat /\ sample.at <= clock
      BY <1>8 DEF SampleOK, Samples, Seconds
    <3>2. QED
      BY <1>1, <1>5, <2>1, <3>1 DEF SampleOK
  <2>2. CASE w # v
    BY <1>1, <1>5, <1>7, <1>8, <2>2 DEF SampleOK
  <2>3. QED
    BY <2>1, <2>2
<1>9. ASSUME NEW w \in Servers
      PROVE  UsedOK(w)'
  <2>1. CASE w = v
    BY <1>1, <1>5, <2>1 DEF UsedOK
  <2>2. CASE w # v
    BY <1>1, <1>5, <1>7, <2>2 DEF UsedOK, MInv
  <2>3. QED
    BY <2>1, <2>2
<1>10. \A seen \in Counters : SeenOK(seen) => SeenOK(seen)'
  BY <1>1 DEF SeenOK
<1>11. SpentOK'
  BY <1>1 DEF SpentOK, MInv, All
<1>12. /\ \A c \in Conns : Good(stream[c])'
       /\ \A w \in Servers : cpuStatsMap'[w] # None => SampleOK(w, cpuStatsMap[w])'
       /\ EntriesHaveStream'
  BY <1>1, <1>8, <1>10, HostKeepsStreams
<1>13. StreamsTypeOK'
  BY <1>1, <1>4, <1>7 DEF MInv, StreamsTypeOK
<1>14. QED
  BY <1>9, <1>11, <1>12, <1>13 DEF MInv

\* The host keeps the invariant.
LEMMA HostKeeps == MInv /\ HostStep => MInv'
BY SecondKeeps, HaltKeeps, StartKeeps DEF HostStep

-----------------------------------------------------------------------------
\* A stream keeps the invariant if it stays good, and every entry of the table is
\* good and belongs to a stream: the one that moved, or one that had it before.
LEMMA StreamKeeps ==
    ASSUME MInv, NEW c \in Conns, NEW new \in Streams, Good(new),
           stream' = [stream EXCEPT ![c] = new],
           UNCHANGED <<container, clock, used, spent>>,
           cpuStatsMap' \in [Servers -> Samples \cup {None}],
           \A v \in Servers : cpuStatsMap'[v] # None =>
              /\ SampleOK(v, cpuStatsMap'[v])
              /\ \/ new.pc \notin {"new", "closed"} /\ new.server = v
                 \/ /\ cpuStatsMap[v] # None
                    /\ ~(Serving(c) /\ stream[c].server = v)
    PROVE  MInv'
<1>1. /\ stream \in [Conns -> Streams] /\ stream' \in [Conns -> Streams]
      /\ stream'[c] = new /\ \A d \in Conns \ {c} : stream'[d] = stream[d]
  BY DEF MInv, StreamsTypeOK
<1>2. StreamsTypeOK'
  BY <1>1 DEF MInv, StreamsTypeOK
<1>3. ASSUME NEW d \in Conns
      PROVE  Good(stream[d])'
  <2>1. Good(stream'[d])
    BY <1>1 DEF MInv
  <2>2. \A v, sample : SampleOK(v, sample) = SampleOK(v, sample)'
    BY DEF SampleOK
  <2>3. \A seen : SeenOK(seen) = SeenOK(seen)'
    BY DEF SeenOK
  <2>4. QED
    BY <2>1, <2>2, <2>3 DEF Good
<1>4. ASSUME NEW v \in Servers, cpuStatsMap'[v] # None
      PROVE  SampleOK(v, cpuStatsMap[v])'
  BY <1>4 DEF SampleOK
<1>5. ASSUME NEW v \in Servers
      PROVE  UsedOK(v)'
  BY DEF UsedOK, MInv
<1>6. SpentOK'
  BY DEF SpentOK, MInv, All
<1>7. EntriesHaveStream'
  <2>1. ASSUME NEW v \in Servers, cpuStatsMap'[v] # None
        PROVE  \E d \in Conns : stream'[d].pc \notin {"new", "closed"} /\ stream'[d].server = v
    <3>1. CASE new.pc \notin {"new", "closed"} /\ new.server = v
      BY <1>1, <3>1
    <3>2. CASE cpuStatsMap[v] # None /\ ~(Serving(c) /\ stream[c].server = v)
      <4>1. PICK d \in Conns : Serving(d) /\ stream[d].server = v
        BY <3>2 DEF MInv, EntriesHaveStream
      <4>2. d # c /\ stream'[d] = stream[d]
        BY <1>1, <3>2, <4>1
      <4>3. QED
        BY <4>1, <4>2 DEF Serving
    <3>3. QED
      BY <2>1, <3>1, <3>2
  <2>2. QED
    BY <2>1 DEF EntriesHaveStream, Serving
<1>8. QED
  BY <1>2, <1>3, <1>4, <1>5, <1>6, <1>7 DEF MInv

\* A step that leaves the table alone and the stream on its server.
LEMMA QuietStep ==
    ASSUME MInv, NEW c \in Conns, NEW new \in Streams, Good(new),
           stream' = [stream EXCEPT ![c] = new],
           UNCHANGED <<cpuStatsMap, container, clock, used, spent>>,
           Serving(c) => new.pc \notin {"new", "closed"} /\ new.server = stream[c].server
    PROVE  MInv'
<1>1. cpuStatsMap' \in [Servers -> Samples \cup {None}]
  BY DEF MInv, StreamsTypeOK
<1>2. ASSUME NEW v \in Servers, cpuStatsMap'[v] # None
      PROVE  /\ SampleOK(v, cpuStatsMap'[v])
             /\ \/ new.pc \notin {"new", "closed"} /\ new.server = v
                \/ /\ cpuStatsMap[v] # None
                   /\ ~(Serving(c) /\ stream[c].server = v)
  BY <1>2 DEF MInv
<1>3. QED
  BY <1>1, <1>2, StreamKeeps

\* What is known of a stream before it moves.
LEMMA GoodStream ==
    ASSUME MInv, NEW c \in Conns
    PROVE  Good(stream[c]) /\ stream[c] \in Streams
BY DEF MInv, Good

\* The stream of a container begins or is refused.
LEMMA OpenContainerKeeps ==
    ASSUME MInv, NEW c \in Conns, NEW v \in Servers, OpenContainer(c, v)
    PROVE  MInv'
<1> DEFINE st == stream[c]
           refused == [st EXCEPT !.pc = "closed"]
           begun == [st EXCEPT !.pc = "wait", !.open = TRUE, !.server = v,
                               !.cpus = container[v].cpus]
<1>1. Good(st) /\ st \in Streams /\ st.pc = "new" /\ st.kind = "container"
  BY GoodStream DEF OpenContainer
<1>2. container[v].cpus \in Limits
  BY DEF MInv, StreamsTypeOK, Containers
<1>3. ~Serving(c) /\ UNCHANGED <<cpuStatsMap, container, clock, used, spent>>
  BY DEF OpenContainer, Serving
<1>4. CASE stream' = [stream EXCEPT ![c] = refused]
  <2>1. refused \in Streams
    BY <1>1 DEF Streams
  <2>2. Good(refused)
    BY <1>1, <2>1 DEF Good, Streams
  <2>3. QED
    BY <1>3, <1>4, <2>1, <2>2, QuietStep
<1>5. CASE stream' = [stream EXCEPT ![c] = begun]
  <2>1. begun \in Streams
    BY <1>1, <1>2 DEF Streams
  <2>2. Good(begun)
    BY <1>1, <1>2, <2>1 DEF Good, Streams
  <2>3. QED
    BY <1>3, <1>5, <2>1, <2>2, QuietStep
<1>6. QED
  BY <1>4, <1>5 DEF OpenContainer

\* The stream of the host begins or is refused.
LEMMA OpenHostKeeps ==
    ASSUME MInv, NEW c \in Conns, OpenHost(c)
    PROVE  MInv'
<1> DEFINE st == stream[c]
           refused == [st EXCEPT !.pc = "closed"]
           begun == [st EXCEPT !.pc = "wait", !.open = TRUE]
<1>1. Good(st) /\ st \in Streams /\ st.pc = "new" /\ st.kind = "host"
  BY GoodStream DEF OpenHost
<1>2. ~Serving(c) /\ UNCHANGED <<cpuStatsMap, container, clock, used, spent>>
  BY DEF OpenHost, Serving
<1>3. CASE stream' = [stream EXCEPT ![c] = refused]
  <2>1. refused \in Streams
    BY <1>1 DEF Streams
  <2>2. Good(refused)
    BY <1>1, <2>1 DEF Good, Streams
  <2>3. QED
    BY <1>2, <1>3, <2>1, <2>2, QuietStep
<1>4. CASE stream' = [stream EXCEPT ![c] = begun]
  <2>1. begun \in Streams
    BY <1>1 DEF Streams
  <2>2. Good(begun)
    BY <1>1, <2>1 DEF Good, Streams
  <2>3. QED
    BY <1>2, <1>4, <2>1, <2>2, QuietStep
<1>5. QED
  BY <1>3, <1>4 DEF OpenHost

\* The sample is the CPU time of this second.
LEMMA MeasureKeeps ==
    ASSUME MInv, NEW c \in Conns, Measure(c)
    PROVE  MInv'
<1> DEFINE st == stream[c]
           sample == [cpu |-> used[st.server][clock], at |-> clock]
           taken == [st EXCEPT !.pc = "record", !.reading = sample]
           failed == [st EXCEPT !.pc = "write"]
<1>1. /\ Good(st) /\ st \in Streams /\ st.pc = "wait" /\ st.kind = "container"
      /\ UNCHANGED <<cpuStatsMap, container, clock, used, spent>>
  BY GoodStream DEF Measure
<1>2. st.server \in Servers /\ st.cpus \in Limits
  BY <1>1 DEF Good
<1>3. sample \in Samples /\ sample # None /\ SampleOK(st.server, sample)
  <2>1. used[st.server][clock] \in Nat /\ clock \in Seconds /\ clock \in Nat
    <3>1. clock \in Seconds /\ used \in [Servers -> [Seconds -> Nat]]
      BY DEF MInv, StreamsTypeOK
    <3>2. used[st.server][clock] \in Nat
      BY <1>2, <3>1
    <3>3. clock \in Nat
      BY <3>1 DEF Seconds
    <3>4. QED
      BY <3>1, <3>2, <3>3
  <2>2. QED
    BY <2>1, NoneAssumption DEF Samples, SampleOK
<1>4. CASE stream' = [stream EXCEPT ![c] = taken]
  <2> HIDE DEF sample
  <2>1. taken \in Streams
    BY <1>1, <1>3 DEF Streams
  <2>2. Good(taken)
    BY <1>1, <1>2, <1>3, <2>1 DEF Good, Streams
  <2>3. taken.pc \notin {"new", "closed"} /\ taken.server = st.server
    BY <1>1 DEF Streams
  <2>4. QED
    BY <1>1, <1>4, <2>1, <2>2, <2>3, QuietStep
<1>5. CASE stream' = [stream EXCEPT ![c] = failed]
  <2>1. failed \in Streams
    BY <1>1 DEF Streams
  <2>2. Good(failed)
    BY <1>1, <1>2, <2>1 DEF Good, Streams
  <2>3. failed.pc \notin {"new", "closed"} /\ failed.server = st.server
    BY <1>1 DEF Streams
  <2>4. QED
    BY <1>1, <1>5, <2>1, <2>2, <2>3, QuietStep
<1>6. QED
  BY <1>4, <1>5 DEF Measure, CpuUsage

\* The share that a container used of its limit is a fraction.
LEMMA PercentIsFraction ==
    ASSUME NEW last \in Samples, NEW now \in Samples, NEW cpus \in Nat \ {0}
    PROVE  Percent(last, now, cpus) \in Fractions
<1> DEFINE time == now.at - last.at
           cpu == now.cpu - last.cpu
<1>1. time \in Int /\ cpu \in Int
  BY DEF Samples, Seconds
<1> HIDE DEF time, cpu
<1>2. CASE time <= 0 \/ cpu < 0
  BY <1>2 DEF Percent, Fractions, Zero, time, cpu
<1>3. CASE ~(time <= 0 \/ cpu < 0)
  <2>1. time \in Nat \ {0} /\ cpu \in Nat
    BY <1>1, <1>3
  <2>2. time * cpus \in Nat \ {0}
    BY <2>1
  <2>3. [num |-> cpu, den |-> time * cpus] \in Fractions
    BY <2>1, <2>2 DEF Fractions
  <2>4. [num |-> 1, den |-> 1] \in Fractions
    BY DEF Fractions
  <2>5. QED
    BY <1>3, <2>3, <2>4 DEF Percent, time, cpu
<1>4. QED
  BY <1>2, <1>3

\* The sample that a stream has taken becomes that of the container.
LEMMA RecordKeeps ==
    ASSUME MInv, NEW c \in Conns, Record(c)
    PROVE  MInv'
<1> DEFINE st == stream[c]
           last == cpuStatsMap[st.server]
           percent == IF last = None THEN Zero ELSE Percent(last, st.reading, st.cpus)
           new == [st EXCEPT !.pc = "write", !.reading = None, !.percent = percent]
<1>1. /\ Good(st) /\ st \in Streams /\ st.pc = "record"
      /\ stream' = [stream EXCEPT ![c] = new]
      /\ cpuStatsMap' = [cpuStatsMap EXCEPT ![st.server] = st.reading]
      /\ UNCHANGED <<container, clock, used, spent>>
  BY GoodStream DEF Record
<1>2. st.server \in Servers /\ st.cpus \in Limits /\ st.cpus \in Nat \ {0}
  BY <1>1, StreamsAssumption DEF Good
<1>3. st.reading \in Samples /\ SampleOK(st.server, st.reading)
  BY <1>1 DEF Good, Streams
<1>4. percent \in Fractions
  <2>1. last \in Samples \cup {None}
    BY <1>2 DEF MInv, StreamsTypeOK
  <2>2. Zero \in Fractions
    BY DEF Zero, Fractions
  <2>3. QED
    BY <1>2, <1>3, <2>1, <2>2, PercentIsFraction
<1> HIDE DEF percent
<1>5. new \in Streams
  BY <1>1, <1>4 DEF Streams
<1>6. Good(new)
  BY <1>1, <1>2, <1>5 DEF Good, Streams
<1>7. new.pc \notin {"new", "closed"} /\ new.server = st.server
  BY <1>1 DEF Streams
<1>8. /\ cpuStatsMap' \in [Servers -> Samples \cup {None}]
      /\ cpuStatsMap'[st.server] = st.reading
      /\ \A v \in Servers \ {st.server} : cpuStatsMap'[v] = cpuStatsMap[v]
  BY <1>1, <1>2, <1>3 DEF MInv, StreamsTypeOK
<1>9. ASSUME NEW v \in Servers, cpuStatsMap'[v] # None
      PROVE  /\ SampleOK(v, cpuStatsMap'[v])
             /\ \/ new.pc \notin {"new", "closed"} /\ new.server = v
                \/ /\ cpuStatsMap[v] # None
                   /\ ~(Serving(c) /\ stream[c].server = v)
  <2>1. CASE v = st.server
    BY <1>3, <1>7, <1>8, <2>1
  <2>2. CASE v # st.server
    BY <1>8, <1>9, <2>2 DEF MInv
  <2>3. QED
    BY <2>1, <2>2
<1> HIDE DEF new
<1>10. QED
  BY <1>1, <1>5, <1>6, <1>8, <1>9, StreamKeeps

\* Since the counters were last read, they have not grown by a modulus.
LEMMA GrewSince ==
    ASSUME MInv, NEW seen \in Counters, SeenOK(seen)
    PROVE  Grew(seen, spent)
<1> DEFINE k == clock
           s == All(spent) - All(First)
<1>1. /\ First.idle \in Nat /\ First.iowait \in Nat /\ First.busy \in Nat
      /\ spent.idle \in Nat /\ spent.iowait \in Nat /\ spent.busy \in Nat
      /\ seen.idle \in Nat /\ seen.iowait \in Nat /\ seen.busy \in Nat
      /\ Modulus \in Nat \ {0} /\ MaxClock \in Nat /\ k \in 0..MaxClock
  BY StreamsAssumption, ModulusAssumption DEF Counters, MInv, StreamsTypeOK, Seconds
<1>2. /\ seen.idle <= spent.idle /\ seen.iowait <= spent.iowait /\ seen.busy <= spent.busy
      /\ All(spent) - All(seen) <= s
      /\ s \in Int
  BY <1>1 DEF SeenOK, All
<1>3. (k = 0 => s = 0) /\ MaxClock * s <= k * (Modulus - 1)
  BY <1>1 DEF MInv, SpentOK, All
<1>4. s < Modulus
  <2> HIDE DEF s, k
  <2>1. CASE k = 0
    BY <1>1, <1>3, <2>1
  <2>2. CASE k # 0
    <3>1. k * (Modulus - 1) <= MaxClock * (Modulus - 1) /\ MaxClock > 0
      BY <1>1, <2>2
    <3>2. MaxClock * s <= MaxClock * (Modulus - 1)
      <4>1. MaxClock * s \in Int /\ k * (Modulus - 1) \in Int /\ MaxClock * (Modulus - 1) \in Int
        BY <1>1, <1>2
      <4>2. QED
        BY <1>3, <3>1, <4>1
    <3>3. s <= Modulus - 1
      BY <1>1, <1>2, <3>1, <3>2
    <3>4. QED
      BY <1>1, <1>2, <3>3
  <2>3. QED
    BY <2>1, <2>2
<1>5. All(spent) \in Nat /\ All(seen) \in Nat
  BY <1>1 DEF All
<1>6. All(spent) - All(seen) < Modulus
  BY <1>1, <1>2, <1>4, <1>5
<1>7. QED
  BY <1>2, <1>6 DEF Grew

\* The share of the host's time is a fraction.
LEMMA HostFraction ==
    ASSUME MInv, NEW seen \in Counters, SeenOK(seen)
    PROVE  CalculateCPUPercent(Stat(seen), CurrentStat) \in Fractions
<1>1. spent \in Counters /\ CurrentStat = Stat(spent)
  BY DEF MInv, StreamsTypeOK, CurrentStat, Stat
<1>2. Grew(seen, spent)
  BY GrewSince
<1>3. /\ All(spent) \in Nat /\ All(seen) \in Nat /\ All(seen) <= All(spent)
      /\ spent.busy - seen.busy \in Nat
  BY <1>1, <1>2 DEF Grew, All, Counters
<1>4. CASE All(spent) = All(seen)
  BY <1>1, <1>2, <1>4, PercentOfHost DEF Zero, Fractions
<1>5. CASE All(spent) # All(seen)
  <2>1. All(spent) - All(seen) \in Nat \ {0}
    BY <1>3, <1>5
  <2>2. CalculateCPUPercent(Stat(seen), Stat(spent))
          = [num |-> spent.busy - seen.busy, den |-> All(spent) - All(seen)]
    BY <1>1, <1>2, <1>5, PercentOfHost
  <2>3. QED
    BY <1>1, <1>3, <2>1, <2>2 DEF Fractions
<1>6. QED
  BY <1>4, <1>5

\* The host is sampled, or cannot be.
LEMMA SampleHostKeeps ==
    ASSUME MInv, NEW c \in Conns, SampleHost(c)
    PROVE  MInv'
<1> DEFINE st == stream[c]
           failed == [st EXCEPT !.pc = "write"]
           percent(complete) == IF ~complete THEN None
                                ELSE IF st.prev = None THEN Zero
                                ELSE CalculateCPUPercent(st.prev, CurrentStat)
           sampled(p) == [st EXCEPT !.pc = "write", !.prev = CurrentStat,
                                    !.seen = spent, !.percent = p]
<1>1. /\ Good(st) /\ st \in Streams /\ st.pc = "wait" /\ st.kind = "host"
      /\ UNCHANGED <<cpuStatsMap, container, clock, used, spent>>
  BY GoodStream DEF SampleHost
<1>2. st.server = None
  BY <1>1 DEF Good
<1>3. CASE stream' = [stream EXCEPT ![c].pc = "write"]
  <2>1. failed \in Streams
    BY <1>1 DEF Streams
  <2>2. Good(failed)
    BY <1>1, <1>2, <2>1 DEF Good, Streams
  <2>3. failed.pc \notin {"new", "closed"} /\ failed.server = st.server
    BY <1>1 DEF Streams
  <2>4. QED
    BY <1>1, <1>3, <2>1, <2>2, <2>3, QuietStep
<1>4. ASSUME NEW complete \in BOOLEAN,
             stream' = [stream EXCEPT ![c] = sampled(percent(complete))]
      PROVE  MInv'
  <2>1. spent \in Counters /\ CurrentStat = Stat(spent) /\ CurrentStat \in CPUStats
    <3>1. spent \in Counters /\ CurrentStat = Stat(spent)
      BY DEF MInv, StreamsTypeOK, CurrentStat, Stat
    <3>2. QED
      BY <3>1, StatSums
  <2>2. percent(complete) \in Fractions \cup {None}
    <3>1. CASE st.prev = None
      BY <3>1 DEF Zero, Fractions
    <3>2. CASE st.prev # None
      <4>1. st.seen \in Counters /\ SeenOK(st.seen) /\ st.prev = Stat(st.seen)
        BY <1>1, <3>2 DEF Good, Streams
      <4>2. PICK seen \in Counters : SeenOK(seen) /\ st.prev = Stat(seen)
        BY <4>1
      <4>3. CalculateCPUPercent(st.prev, CurrentStat) \in Fractions
        BY <4>2, HostFraction
      <4>4. QED
        BY <3>2, <4>3
    <3>3. QED
      BY <3>1, <3>2
  <2>3. PICK p \in Fractions \cup {None} : p = percent(complete)
    BY <2>2
  <2>4. stream' = [stream EXCEPT ![c] = sampled(p)]
    BY <1>4, <2>3
  <2>5. SeenOK(spent) /\ spent # None
    <3>1. SpentOK
      BY DEF MInv
    <3>2. spent.idle \in Nat /\ spent.iowait \in Nat /\ spent.busy \in Nat
      BY <2>1 DEF Counters
    <3>3. QED
      BY <2>1, <3>1, <3>2, NoneAssumption DEF SeenOK, SpentOK
  <2> HIDE DEF percent
  <2>6. sampled(p) \in Streams
    BY <1>1, <2>1 DEF Streams
  <2>7. Good(sampled(p))
    BY <1>1, <1>2, <2>1, <2>5, <2>6 DEF Good, Streams
  <2>8. sampled(p).pc \notin {"new", "closed"} /\ sampled(p).server = st.server
    BY <1>1 DEF Streams
  <2>9. PICK new \in Streams : new = sampled(p)
    BY <2>6
  <2>10. QED
    BY <1>1, <2>4, <2>7, <2>8, <2>9, QuietStep
<1>5. QED
  BY <1>3, <1>4 DEF SampleHost, Kept

\* The answer is sent.
LEMMA WriteKeeps ==
    ASSUME MInv, NEW c \in Conns, Write(c)
    PROVE  MInv'
<1> DEFINE st == stream[c]
<1>1. PICK pc \in {"wait", "close"} : stream' = [stream EXCEPT ![c].pc = pc, ![c].percent = None]
  BY DEF Write
<1> DEFINE new == [st EXCEPT !.pc = pc, !.percent = None]
<1>2. /\ Good(st) /\ st \in Streams /\ st.pc = "write"
      /\ UNCHANGED <<cpuStatsMap, container, clock, used, spent>>
  BY GoodStream DEF Write
<1>3. new \in Streams
  BY <1>2 DEF Streams
<1>4. Good(new)
  BY <1>2, <1>3 DEF Good, Streams
<1>5. new.pc \notin {"new", "closed"} /\ new.server = st.server
  BY <1>2 DEF Streams
<1>6. stream' = [stream EXCEPT ![c] = new]
  BY <1>1, <1>2 DEF MInv, StreamsTypeOK
<1> HIDE DEF new
<1>7. QED
  BY <1>2, <1>3, <1>4, <1>5, <1>6, QuietStep

\* The client leaves, its reader notices, and the handler does.
LEMMA EndingKeeps ==
    ASSUME MInv, NEW c \in Conns, Leave(c) \/ ReaderEnds(c) \/ HangUp(c)
    PROVE  MInv'
<1> DEFINE st == stream[c]
<1>1. Good(st) /\ st \in Streams /\ UNCHANGED <<cpuStatsMap, container, clock, used, spent>>
  BY GoodStream DEF Leave, ReaderEnds, HangUp
<1>2. CASE Leave(c)
  <2> DEFINE new == [st EXCEPT !.open = FALSE]
  <2>1. new \in Streams /\ new.pc = st.pc /\ new.server = st.server
    BY <1>1 DEF Streams
  <2>2. Good(new)
    BY <1>1, <2>1 DEF Good, Streams
  <2>3. stream' = [stream EXCEPT ![c] = new]
    BY <1>2 DEF Leave
  <2> HIDE DEF new
  <2>4. QED
    BY <1>1, <2>1, <2>2, <2>3, QuietStep DEF Serving
<1>3. CASE ReaderEnds(c)
  <2> DEFINE new == [st EXCEPT !.done = TRUE]
  <2>1. new \in Streams /\ new.pc = st.pc /\ new.server = st.server
    BY <1>1 DEF Streams
  <2>2. Good(new)
    BY <1>1, <2>1 DEF Good, Streams
  <2>3. stream' = [stream EXCEPT ![c] = new]
    BY <1>3 DEF ReaderEnds
  <2> HIDE DEF new
  <2>4. QED
    BY <1>1, <2>1, <2>2, <2>3, QuietStep DEF Serving
<1>4. CASE HangUp(c)
  <2> DEFINE new == [st EXCEPT !.pc = "close"]
  <2>1. new \in Streams /\ new.pc = "close" /\ new.server = st.server /\ st.pc = "wait"
    BY <1>1, <1>4 DEF Streams, HangUp
  <2>2. Good(new)
    BY <1>1, <2>1 DEF Good, Streams
  <2>3. stream' = [stream EXCEPT ![c] = new]
    BY <1>4 DEF HangUp
  <2> HIDE DEF new
  <2>4. QED
    BY <1>1, <2>1, <2>2, <2>3, QuietStep DEF Serving
<1>5. QED
  BY <1>2, <1>3, <1>4

\* The stream ends and takes the sample of its container with it.
LEMMA CloseKeeps ==
    ASSUME MInv, NEW c \in Conns, Close(c)
    PROVE  MInv'
<1> DEFINE st == stream[c]
           new == [NewStream(st.kind) EXCEPT !.pc = "closed"]
<1>1. /\ Good(st) /\ st \in Streams /\ st.pc = "close"
      /\ stream' = [stream EXCEPT ![c] = new]
      /\ cpuStatsMap' = IF st.kind = "host" THEN cpuStatsMap
                        ELSE [cpuStatsMap EXCEPT ![st.server] = None]
      /\ UNCHANGED <<container, clock, used, spent>>
  BY GoodStream DEF Close, Closed
<1>2. new \in Streams
  BY <1>1 DEF Streams, NewStream
<1>3. Good(new)
  <2>1. /\ new.pc = "closed" /\ new.server = None /\ new.reading = None /\ new.prev = None
        /\ new.seen = None /\ new.percent = None
    BY DEF NewStream
  <2> HIDE DEF new
  <2>2. QED
    BY <1>2, <2>1 DEF Good
<1>4. CASE st.kind = "host"
  <2>1. st.server = None /\ cpuStatsMap' = cpuStatsMap
    BY <1>1, <1>4 DEF Good
  <2>2. cpuStatsMap' \in [Servers -> Samples \cup {None}]
    BY <2>1 DEF MInv, StreamsTypeOK
  <2>3. ASSUME NEW v \in Servers, cpuStatsMap'[v] # None
        PROVE  /\ SampleOK(v, cpuStatsMap'[v])
               /\ cpuStatsMap[v] # None
               /\ ~(Serving(c) /\ stream[c].server = v)
    BY <2>1, <2>3, NoneAssumption DEF MInv
  <2> HIDE DEF new
  <2>4. QED
    BY <1>1, <1>2, <1>3, <2>2, <2>3, StreamKeeps
<1>5. CASE st.kind # "host"
  <2>1. st.server \in Servers /\ cpuStatsMap' = [cpuStatsMap EXCEPT ![st.server] = None]
    BY <1>1, <1>5 DEF Good
  <2>2. /\ cpuStatsMap' \in [Servers -> Samples \cup {None}]
        /\ cpuStatsMap'[st.server] = None
        /\ \A v \in Servers \ {st.server} : cpuStatsMap'[v] = cpuStatsMap[v]
    BY <2>1 DEF MInv, StreamsTypeOK
  <2>3. ASSUME NEW v \in Servers, cpuStatsMap'[v] # None
        PROVE  /\ SampleOK(v, cpuStatsMap'[v])
               /\ cpuStatsMap[v] # None
               /\ ~(Serving(c) /\ stream[c].server = v)
    BY <2>2, <2>3 DEF MInv
  <2> HIDE DEF new
  <2>4. QED
    BY <1>1, <1>2, <1>3, <2>2, <2>3, StreamKeeps
<1>6. QED
  BY <1>4, <1>5

\* Every stream keeps the invariant.
LEMMA StreamsKeep ==
    ASSUME MInv, NEW c \in Conns, StreamStep(c)
    PROVE  MInv'
BY OpenContainerKeeps, OpenHostKeeps, MeasureKeeps, RecordKeeps, SampleHostKeeps, WriteKeeps,
   EndingKeeps, CloseKeeps DEF StreamStep, Handler

-----------------------------------------------------------------------------
\* What follows for the streams.

\* The strengthening that makes them inductive.
LEMMA MInvHolds == Spec => []MInv
<1>1. Init => MInv
  BY MInvInit DEF Init
<1>2. ASSUME MInv, [Next]_vars
      PROVE  MInv'
  <2>1. CASE HostStep
    BY <1>2, <2>1, HostKeeps
  <2>2. ASSUME NEW c \in Conns, StreamStep(c)
        PROVE  MInv'
    BY <1>2, <2>2, StreamsKeep
  <2>3. CASE UNCHANGED streamVars
    <3>1. MInv = MInv'
      BY <2>3 DEF MInv, StreamsTypeOK, Good, SampleOK, SeenOK, UsedOK, SpentOK,
                  EntriesHaveStream, Serving, All, streamVars
    <3>2. QED
      BY <1>2, <3>1
  <2>4. QED
    BY <1>2, <2>1, <2>2, <2>3 DEF Next, Call, vars
<1>3. QED
  BY <1>1, <1>2, PTL DEF Spec

\* No entry of cpuStatsMap outlives the streams of its server.
THEOREM PanelEntriesHaveStream == Spec => []EntriesHaveStream
<1>1. MInv => EntriesHaveStream
  BY DEF MInv
<1>2. QED
  BY <1>1, MInvHolds, PTL

\* Every percentage is a fraction of a number that is not zero, for any number of
\* streams, servers and seconds.
THEOREM PanelTyped == Spec => []TypeOK
<1> DEFINE T == secretOk \in BOOLEAN
                /\ answer \in [Conns -> [header: Headers, got: Answers \cup {"nothing"}]]
<1>1. Init => T
  <2> SUFFICES ASSUME Init
               PROVE  T
    OBVIOUS
  <2>1. secretOk \in BOOLEAN
    BY DEF Init
  <2>2. Missing \in Headers
    BY DEF Headers
  <2>3. answer \in [Conns -> [header: Headers, got: Answers \cup {"nothing"}]]
    BY <2>2 DEF Init
  <2>4. QED
    BY <2>1, <2>3
<1>2. ASSUME T, [Next]_vars
      PROVE  T'
  <2>1. ASSUME NEW c \in Conns, Call(c)
        PROVE  T'
    <3>1. PICK header \in Headers, readable \in BOOLEAN :
             answer' = [answer EXCEPT ![c] = [header |-> header, got |-> Verdict(header, readable)]]
      BY <2>1 DEF Call
    <3>2. Verdict(header, readable) \in Answers
      BY DEF Verdict, Checked, Answers
    <3>3. secretOk' = secretOk
      BY <2>1 DEF Call
    <3> HIDE DEF Headers, Answers
    <3>4. QED
      BY <1>2, <3>1, <3>2, <3>3
  <2>2. CASE UNCHANGED <<secretOk, answer>>
    BY <1>2, <2>2
  <2>3. QED
    BY <1>2, <2>1, <2>2 DEF Next, vars
<1>3. MInv /\ T => TypeOK
  BY DEF MInv, TypeOK
<1>4. QED
  BY <1>1, <1>2, <1>3, MInvHolds, PTL DEF Spec

\* A step that changes a stream is a step of that stream.
LEMMA WhoMoved ==
    ASSUME MInv, Next, NEW c \in Conns, stream'[c] # stream[c]
    PROVE  StreamStep(c)
<1>1. stream' # stream /\ stream \in [Conns -> Streams]
  BY DEF MInv, StreamsTypeOK
<1>2. ~HostStep /\ \A d \in Conns : ~Call(d)
  BY <1>1 DEF HostStep, Second, Halt, Start, Call, streamVars
<1>3. PICK d \in Conns : StreamStep(d)
  BY <1>2 DEF Next
<1>4. d = c
  <2> SUFFICES ASSUME d # c
               PROVE  FALSE
    OBVIOUS
  <2>1. CASE OpenHost(d) \/ \E v \in Servers : OpenContainer(d, v)
    BY <1>1, <2>1 DEF OpenHost, OpenContainer
  <2>2. CASE Measure(d) \/ Record(d)
    BY <1>1, <2>2 DEF Measure, Record
  <2>3. CASE SampleHost(d)
    BY <1>1, <2>3 DEF SampleHost
  <2>4. CASE Write(d) \/ Close(d)
    BY <1>1, <2>4 DEF Write, Close, Closed
  <2>5. CASE Leave(d) \/ ReaderEnds(d) \/ HangUp(d)
    BY <1>1, <2>5 DEF Leave, ReaderEnds, HangUp
  <2>6. QED
    BY <1>3, <2>1, <2>2, <2>3, <2>4, <2>5 DEF StreamStep, Handler
<1>5. QED
  BY <1>3, <1>4

\* A percentage sent for a container is true.
THEOREM PanelPercentTrue == Spec => PercentTrue
<1> DEFINE Step ==
       \A c \in Conns :
         LET st == stream[c]
             last == cpuStatsMap[st.server]
             h == container[st.server]
             cpu == used[st.server]
             percent == stream'[c].percent
         IN  /\ st.pc = "record" /\ stream'[c].pc = "write"
             /\ last # None
             /\ h.booted < last.at /\ last.at < st.reading.at
             /\ h.cpus = st.cpus
             => percent.num * (st.reading.at - last.at) * st.cpus
                   = percent.den * (cpu[st.reading.at] - cpu[last.at])
<1>1. ASSUME MInv, Next
      PROVE  Step
  <2> SUFFICES ASSUME NEW c \in Conns,
                      stream[c].pc = "record", stream'[c].pc = "write",
                      cpuStatsMap[stream[c].server] # None,
                      container[stream[c].server].booted < cpuStatsMap[stream[c].server].at,
                      cpuStatsMap[stream[c].server].at < stream[c].reading.at,
                      container[stream[c].server].cpus = stream[c].cpus
               PROVE  stream'[c].percent.num
                        * (stream[c].reading.at - cpuStatsMap[stream[c].server].at) * stream[c].cpus
                      = stream'[c].percent.den
                        * (used[stream[c].server][stream[c].reading.at]
                             - used[stream[c].server][cpuStatsMap[stream[c].server].at])
    BY Zenon
  <2> DEFINE st == stream[c]
             last == cpuStatsMap[st.server]
             now == st.reading
             cpu == used[st.server]
  <2>1. Record(c)
    <3>1. stream'[c] # stream[c]
      OBVIOUS
    <3>2. StreamStep(c)
      BY <1>1, <3>1, WhoMoved
    <3>3. ~(Leave(c) \/ ReaderEnds(c))
      <4>1. stream[c] \in Streams /\ stream \in [Conns -> Streams]
        BY <1>1 DEF MInv, StreamsTypeOK
      <4>2. QED
        BY <4>1 DEF Leave, ReaderEnds, Streams
    <3>4. QED
      BY <3>2, <3>3 DEF StreamStep, Handler, OpenContainer, OpenHost, Measure, SampleHost, Write,
                        HangUp, Close
  <2>2. Good(st) /\ st \in Streams
    BY <1>1, GoodStream
  <2>3. st.server \in Servers /\ st.cpus \in Nat \ {0}
    BY <2>2, StreamsAssumption DEF Good
  <2>4. now \in Samples /\ last \in Samples
    BY <1>1, <2>2, <2>3 DEF Good, Streams, MInv, StreamsTypeOK
  <2>5. now.cpu = cpu[now.at] /\ last.cpu = cpu[last.at] /\ now.at <= clock
    <3>1. SampleOK(st.server, now) /\ SampleOK(st.server, last)
      BY <1>1, <2>2, <2>3 DEF Good, MInv
    <3>2. container[st.server].booted \in Int /\ now.at \in Int /\ last.at \in Int
      BY <1>1, <2>3, <2>4 DEF MInv, StreamsTypeOK, Containers, Samples, Seconds
    <3>3. QED
      BY <3>1, <3>2 DEF SampleOK
  <2>6. /\ now.at \in 0..clock /\ last.at \in 0..clock
        /\ now.cpu \in Nat /\ last.cpu \in Nat
    BY <1>1, <2>4, <2>5 DEF MInv, StreamsTypeOK, Samples, Seconds
  <2>7. last.cpu <= now.cpu /\ now.cpu - last.cpu <= (now.at - last.at) * st.cpus
    <3>1. UsedOK(st.server)
      BY <1>1, <2>3 DEF MInv
    <3>2. last.at <= now.at
      BY <2>6
    <3>3. QED
      BY <2>5, <2>6, <3>1, <3>2 DEF UsedOK
  <2>8. stream'[c].percent = Percent(last, now, st.cpus)
    BY <1>1, <2>1 DEF Record, MInv, StreamsTypeOK, Streams
  <2> DEFINE time == now.at - last.at
             more == now.cpu - last.cpu
             n == st.cpus
  <2>9. time \in Nat \ {0} /\ more \in Nat /\ n \in Nat /\ more <= time * n
    BY <2>3, <2>6, <2>7
  <2>10. Percent(last, now, n) = [num |-> more, den |-> time * n]
    <3>1. ~(time <= 0 \/ more < 0) /\ ~(more > time * n)
      BY <2>9
    <3>2. QED
      BY <3>1 DEF Percent
  <2>11. more * time * n = (time * n) * more
    BY <2>9
  <2>12. QED
    BY <2>5, <2>8, <2>10, <2>11
<1>2. ASSUME MInv, UNCHANGED vars
      PROVE  Step
  BY <1>2 DEF vars, streamVars
<1>3. MInv /\ [Next]_vars => [Step]_streamVars
  BY <1>1, <1>2
<1>4. QED
  BY <1>3, MInvHolds, PTL DEF Spec, PercentTrue

\* A percentage sent for the host is true, also when counters have wrapped any
\* number of times before.
THEOREM PanelCpuPercentExact == Spec => CpuPercentExact
<1> DEFINE Step ==
       \A c \in Conns :
         LET st == stream[c]
             busy == spent.busy - st.seen.busy
             all == busy + spent.idle - st.seen.idle + spent.iowait - st.seen.iowait
             percent == stream'[c].percent
         IN  /\ st.pc = "wait" /\ stream'[c].pc = "write"
             /\ st.seen # None /\ percent # None
             => /\ percent.num * all = busy * percent.den
                /\ percent.den > 0
<1>1. ASSUME MInv, Next, NEW c \in Conns,
             stream[c].pc = "wait", stream'[c].pc = "write",
             stream[c].seen # None, stream'[c].percent # None
      PROVE  LET seen == stream[c].seen
                 percent == stream'[c].percent
                 busy == spent.busy - seen.busy
                 all == busy + spent.idle - seen.idle + spent.iowait - seen.iowait
             IN  /\ percent.num * all = busy * percent.den
                 /\ percent.den > 0
  <2> DEFINE st == stream[c]
             seen == st.seen
             busy == spent.busy - seen.busy
             all == busy + spent.idle - seen.idle + spent.iowait - seen.iowait
             percent == stream'[c].percent
  <2>1. Good(st) /\ st \in Streams /\ stream \in [Conns -> Streams]
    BY <1>1, GoodStream DEF MInv, StreamsTypeOK
  <2>2. SampleHost(c)
    <3>1. StreamStep(c)
      BY <1>1, WhoMoved
    <3>2. ~(Leave(c) \/ ReaderEnds(c) \/ HangUp(c))
      BY <1>1, <2>1 DEF Leave, ReaderEnds, HangUp, Streams
    <3>3. ~Measure(c)
      <4>1. st.percent = None
        BY <1>1, <2>1 DEF Good
      <4>2. QED
        BY <1>1, <2>1, <4>1 DEF Measure, Streams
    <3>4. QED
      BY <1>1, <3>1, <3>2, <3>3
      DEF StreamStep, Handler, OpenContainer, OpenHost, Record, Write, Close
  <2>3. /\ seen \in Counters /\ SeenOK(seen)
        /\ st.prev = Stat(seen) /\ st.prev # None /\ st.percent = None
    <3>1. seen \in Counters /\ SeenOK(seen) /\ st.prev = Stat(seen) /\ st.percent = None
      BY <1>1, <2>1 DEF Good, Streams
    <3>2. Stat(seen) # None
      BY <3>1, StatSums, NoneAssumption
    <3>3. QED
      BY <3>1, <3>2
  <2>4. percent = CalculateCPUPercent(st.prev, CurrentStat)
    <3>1. CASE stream' = [stream EXCEPT ![c].pc = "write"]
      <4>1. percent = st.percent
        BY <2>1, <3>1
      <4>2. QED
        BY <1>1, <2>3, <4>1
    <3>2. ASSUME NEW complete \in BOOLEAN,
                 percent = IF ~complete THEN None
                           ELSE IF st.prev = None THEN Zero
                           ELSE CalculateCPUPercent(st.prev, CurrentStat)
          PROVE  percent = CalculateCPUPercent(st.prev, CurrentStat)
      BY <1>1, <2>3, <3>2
    <3>3. QED
      <4>1. CASE \E complete \in BOOLEAN :
                   stream' = [stream EXCEPT ![c] =
                     [@ EXCEPT !.pc = "write", !.prev = Kept(st.prev, CurrentStat, complete),
                               !.seen = spent,
                               !.percent = IF ~complete THEN None
                                           ELSE IF st.prev = None THEN Zero
                                           ELSE CalculateCPUPercent(st.prev, CurrentStat)]]
        <5>1. PICK complete \in BOOLEAN :
                   stream' = [stream EXCEPT ![c] =
                     [@ EXCEPT !.pc = "write", !.prev = Kept(st.prev, CurrentStat, complete),
                               !.seen = spent,
                               !.percent = IF ~complete THEN None
                                           ELSE IF st.prev = None THEN Zero
                                           ELSE CalculateCPUPercent(st.prev, CurrentStat)]]
          BY <4>1
        <5>2. percent = IF ~complete THEN None
                        ELSE IF st.prev = None THEN Zero
                        ELSE CalculateCPUPercent(st.prev, CurrentStat)
          BY <2>1, <5>1 DEF Streams
        <5>3. QED
          BY <3>2, <5>2
      <4>2. QED
        BY <2>2, <3>1, <4>1 DEF SampleHost
  <2>5. spent \in Counters /\ CurrentStat = Stat(spent) /\ Grew(seen, spent)
    BY <1>1, <2>3, GrewSince DEF MInv, StreamsTypeOK, CurrentStat, Stat
  <2>6. percent = IF All(spent) = All(seen) THEN Zero
                  ELSE [num |-> spent.busy - seen.busy, den |-> All(spent) - All(seen)]
    <3>1. PICK then \in Counters, now \in Counters : then = seen /\ now = spent
      BY <2>3, <2>5
    <3>2. CalculateCPUPercent(Stat(then), Stat(now)) =
              IF All(now) = All(then) THEN Zero
              ELSE [num |-> now.busy - then.busy, den |-> All(now) - All(then)]
      BY <2>5, <3>1, PercentOfHost
    <3>3. percent = CalculateCPUPercent(Stat(then), Stat(now))
      BY <2>3, <2>4, <2>5, <3>1
    <3>4. QED
      BY <3>1, <3>2, <3>3
  <2>7. /\ busy \in Nat /\ all \in Nat /\ all = All(spent) - All(seen)
        /\ busy <= all /\ (all = 0 <=> All(spent) = All(seen))
    <3>1. /\ seen.idle \in Nat /\ seen.iowait \in Nat /\ seen.busy \in Nat
          /\ spent.idle \in Nat /\ spent.iowait \in Nat /\ spent.busy \in Nat
      BY <2>3, <2>5 DEF Counters
    <3>2. seen.idle <= spent.idle /\ seen.iowait <= spent.iowait /\ seen.busy <= spent.busy
      BY <2>5 DEF Grew
    <3> HIDE DEF seen
    <3>3. QED
      BY <3>1, <3>2 DEF All
  <2>8. CASE all = 0
    <3>1. percent = Zero /\ busy = 0
      BY <2>6, <2>7, <2>8
    <3>2. QED
      BY <2>8, <3>1 DEF Zero
  <2>9. CASE all # 0
    <3>1. percent.num = busy /\ percent.den = all
      BY <2>6, <2>7, <2>9
    <3>2. QED
      BY <2>7, <2>9, <3>1
  <2>10. QED
    BY <2>8, <2>9
<1>2. ASSUME MInv, Next
      PROVE  Step
  BY <1>1, <1>2
<1>3. MInv /\ [Next]_vars => [Step]_streamVars
  <2>1. UNCHANGED vars => UNCHANGED streamVars
    BY DEF vars
  <2>2. QED
    BY <1>2, <2>1
<1>4. QED
  BY <1>3, MInvHolds, PTL DEF Spec, CpuPercentExact

-----------------------------------------------------------------------------
\* What each call got is the verdict on what it sent.
Judged(c) ==
    answer[c].got # "nothing" =>
        /\ answer[c].header \in Headers
        /\ \E readable \in BOOLEAN : answer[c].got = Verdict(answer[c].header, readable)

\* Every answer is the middleware's.
LEMMA JudgedHolds == Spec => [](TypeOK /\ \A c \in Conns : Judged(c))
<1> DEFINE J == \A c \in Conns : Judged(c)
<1>1. Init => J
  BY DEF Init, Judged
<1>2. ASSUME TypeOK, J, [Next]_vars
      PROVE  J'
  <2>1. ASSUME NEW d \in Conns, Call(d)
        PROVE  J'
    <3>1. PICK header \in Headers, readable \in BOOLEAN :
             answer' = [answer EXCEPT ![d] = [header |-> header, got |-> Verdict(header, readable)]]
      BY <2>1 DEF Call
    <3>2. secretOk' = secretOk
      BY <2>1 DEF Call
    <3>3. ASSUME NEW c \in Conns
          PROVE  Judged(c)'
      <4>1. CASE c = d
        <5>1. answer'[c] = [header |-> header, got |-> Verdict(header, readable)]
          BY <1>2, <3>1, <4>1 DEF TypeOK
        <5>2. QED
          BY <3>2, <5>1 DEF Judged, Verdict
      <4>2. CASE c # d
        <5>1. answer'[c] = answer[c]
          BY <1>2, <3>1, <4>2 DEF TypeOK
        <5>2. Judged(c)
          BY <1>2
        <5>3. QED
          BY <3>2, <5>1, <5>2 DEF Judged, Verdict
      <4>3. QED
        BY <4>1, <4>2
    <3>4. QED
      BY <3>3
  <2>2. CASE UNCHANGED <<secretOk, answer>>
    BY <1>2, <2>2 DEF Judged, Verdict
  <2>3. QED
    BY <1>2, <2>1, <2>2 DEF Next, vars
<1>3. QED
  BY <1>1, <1>2, PanelTyped, PTL DEF Spec

\* A text that comes off its padding was padded with it.
LEMMA PaddingRemoved ==
    ASSUME NEW data \in Data, RemovePKCS7Padding(data).ok
    PROVE  \E p \in 1..MaxData :
              data = RemovePKCS7Padding(data).text \o [i \in 1..p |-> p]
<1> DEFINE n == Len(data)
           p == data[n]
           text == SubSeq(data, 1, n - p)
<1>1. PICK k \in 0..MaxData : data \in [1..k -> Bytes]
  BY DEF Data
<1>2. k \in Nat /\ n = k /\ data \in Seq(Bytes)
  BY <1>1, KeyAssumption
<1>3. /\ p \in 1..n /\ \A i \in n - p + 1 .. n : data[i] = p
      /\ RemovePKCS7Padding(data).text = text
  BY DEF RemovePKCS7Padding, Plain, Failed
<1>4. p \in 1..MaxData
  BY <1>1, <1>2, <1>3, KeyAssumption
<1>5. data = text \o [i \in 1..p |-> p]
  <2>1. /\ text \in Seq(Bytes) /\ Len(text) = n - p
        /\ \A i \in 1..n - p : text[i] = data[i]
    <3>1. n \in Nat /\ p \in 1..n
      BY <1>2, <1>3
    <3> HIDE DEF n, p
    <3>2. n - p \in 0..n
      BY <3>1
    <3>3. n = Len(data)
      BY DEF n
    <3>4. QED
      BY <1>2, <3>1, <3>2, <3>3
  <2> DEFINE tail == [i \in 1..p |-> p]
  <2>2. tail \in Seq(Nat) /\ Len(tail) = p /\ \A i \in 1..p : tail[i] = p
    BY <1>2, <1>3
  <2> HIDE DEF text, tail, p, n
  <2>3. Len(text \o tail) = n
    BY <1>2, <1>3, <2>1, <2>2
  <2>4. \A i \in 1..n : (text \o tail)[i] = data[i]
    BY <1>2, <1>3, <2>1, <2>2
  <2>5. QED
    BY <1>1, <1>2, <1>3, <2>1, <2>2, <2>3, <2>4 DEF n, tail
<1>6. QED
  BY <1>3, <1>4, <1>5

\* The machine id comes off its own padding, and that fills the last block.
LEMMA PaddedMachineId ==
    /\ RemovePKCS7Padding(Padded(MachineId)) = Plain(MachineId)
    /\ Len(Padded(MachineId)) % BlockSize = 0
<1> DEFINE l == Len(MachineId)
           p == BlockSize - (l % BlockSize)
           tail == [i \in 1..p |-> p]
           data == MachineId \o tail
<1>1. l \in Nat /\ BlockSize \in Nat \ {0} /\ MachineId \in Seq(Bytes)
  BY KeyAssumption
<1>2. l % BlockSize \in 0..BlockSize - 1 /\ l \div BlockSize \in Nat
      /\ l = BlockSize * (l \div BlockSize) + (l % BlockSize)
  BY <1>1, Division
<1>3. p \in 1..BlockSize
  BY <1>1, <1>2
<1>4. (l + p) % BlockSize = 0
  <2> DEFINE q == l \div BlockSize
             r == l % BlockSize
  <2>1. q \in Nat /\ r \in 0..BlockSize - 1 /\ l = BlockSize * q + r /\ p = BlockSize - r
    BY <1>2
  <2> HIDE DEF l, q, r, p
  <2>2. l + p = BlockSize * (q + 1) + 0
    BY <1>1, <2>1
  <2>3. q + 1 \in Nat /\ 0 \in 0..BlockSize - 1
    BY <1>1, <2>1
  <2>4. (BlockSize * (q + 1) + 0) % BlockSize = 0
    BY <1>1, <2>3, RemainderOf
  <2>5. QED
    BY <2>2, <2>4
<1> HIDE DEF p
<1>5. tail \in Seq(Nat) /\ Len(tail) = p /\ \A i \in 1..p : tail[i] = p
  BY <1>1, <1>3
<1> HIDE DEF tail
<1>6. /\ data \in Seq(Nat) /\ Len(data) = l + p
      /\ \A i \in 1..l : data[i] = MachineId[i]
      /\ \A i \in l + 1..l + p : data[i] = p
  <2>1. MachineId \in Seq(Nat)
    <3>1. MachineId \in [1..l -> Bytes]
      BY <1>1
    <3>2. MachineId \in [1..l -> Nat]
      BY <3>1, KeyAssumption
    <3>3. QED
      BY <1>1, <3>2
  <2>2. \A i \in l + 1..l + p : data[i] = tail[i - l]
    BY <1>1, <1>3, <1>5, <2>1
  <2>3. \A i \in l + 1..l + p : i - l \in 1..p
    BY <1>1, <1>3
  <2>4. data \in Seq(Nat) /\ Len(data) = l + p
    BY <1>1, <1>3, <1>5, <2>1
  <2>5. \A i \in 1..l : data[i] = MachineId[i]
    BY <1>1, <1>3, <1>5, <2>1
  <2>6. \A i \in l + 1..l + p : data[i] = p
    BY <1>5, <2>2, <2>3
  <2>7. QED
    BY <2>4, <2>5, <2>6
<1>7. data = Padded(MachineId)
  BY DEF Padded, tail, p
<1> HIDE DEF data
<1>8. data[l + p] = p /\ l + p > 0 /\ p \in 1..l + p /\ l + p - p = l
  BY <1>1, <1>3, <1>6
<1>9. SubSeq(data, 1, l) = MachineId
  <2>1. Len(SubSeq(data, 1, l)) = l /\ \A i \in 1..l : SubSeq(data, 1, l)[i] = data[i]
    BY <1>1, <1>3, <1>6
  <2>2. SubSeq(data, 1, l) \in Seq(Nat)
    BY <1>1, <1>3, <1>6
  <2>3. QED
    BY <1>1, <1>6, <2>1, <2>2
<1>10. RemovePKCS7Padding(data) = Plain(MachineId)
  <2> DEFINE n == l + p
  <2>1. Len(data) = n /\ n > 0 /\ data[n] = p /\ p \in 1..n /\ n - p = l
    BY <1>6, <1>8
  <2>2. \A i \in n - p + 1 .. n : data[i] = p
    BY <1>6, <2>1
  <2> HIDE DEF n
  <2>3. QED
    BY <1>9, <2>1, <2>2 DEF RemovePKCS7Padding
<1>11. QED
  BY <1>4, <1>6, <1>7, <1>10

\* Only a key that stands for the machine id of this node passes.
THEOREM PanelOnlyOwnKeyServed == Spec => []OnlyOwnKeyServed
<1>1. ASSUME TypeOK, NEW c \in Conns, Judged(c), answer[c].got = "served"
      PROVE  /\ answer[c].header \in Keys
             /\ \E p \in 1..MaxData : answer[c].header.data = MachineId \o [i \in 1..p |-> p]
  <2> DEFINE header == answer[c].header
  <2>1. PICK readable \in BOOLEAN : Verdict(header, readable) = "served"
    BY <1>1 DEF Judged
  <2>2. header \in Keys
    BY <1>1, <2>1 DEF Judged, Headers, Verdict
  <2>3. Checked(RemovePKCS7Padding(header.data), readable) = "served"
    BY <2>1 DEF Verdict
  <2>4. RemovePKCS7Padding(header.data).ok /\ RemovePKCS7Padding(header.data).text = MachineId
    <3>1. RemovePKCS7Padding(header.data).ok \in BOOLEAN
      BY DEF RemovePKCS7Padding, Plain, Failed
    <3>2. QED
      BY <2>3, <3>1 DEF Checked
  <2>5. header.data \in Data
    BY <2>2 DEF Keys
  <2>6. PICK data \in Data : data = header.data
    BY <2>5
  <2>7. QED
    BY <2>2, <2>4, <2>6, PaddingRemoved
<1>2. TypeOK /\ (\A c \in Conns : Judged(c)) => OnlyOwnKeyServed
  BY <1>1 DEF OnlyOwnKeyServed
<1>3. QED
  BY <1>2, JudgedHolds, PTL

\* The panel's own key is never refused and never panics, for every machine id
\* and every size of a block.
THEOREM PanelOwnKeyServed == Spec => []OwnKeyServed
<1>1. ASSUME NEW c \in Conns, Judged(c), secretOk, answer[c].header = PanelKey
      PROVE  answer[c].got \in {"nothing", "served", "error"}
  <2>1. PanelKey.iv = TRUE /\ PanelKey.data = Padded(MachineId)
    BY DEF PanelKey
  <2>2. ~Panics(PanelKey) /\ PanelKey \notin {Missing, Garbled}
    BY <2>1, PaddedMachineId, HeaderAssumption DEF Panics
  <2>3. ASSUME NEW readable \in BOOLEAN
        PROVE  Verdict(PanelKey, readable) \in {"served", "error"}
    <3>1. Verdict(PanelKey, readable) = Checked(Plain(MachineId), readable)
      BY <1>1, <2>1, <2>2, PaddedMachineId DEF Verdict
    <3>2. QED
      BY <3>1 DEF Checked, Plain
  <2>4. QED
    BY <1>1, <2>3 DEF Judged
<1>2. (\A c \in Conns : Judged(c)) => OwnKeyServed
  BY <1>1 DEF OwnKeyServed
<1>3. QED
  BY <1>2, JudgedHolds, PTL

-----------------------------------------------------------------------------
\* getMemoryStats subtracts unsigned numbers: the memory in use is what is
\* neither free nor buffers nor cache as long as these are no more than all there
\* is; otherwise the result wraps and is more than the total.
THEOREM MemoryUsedIfConsistent ==
    ASSUME NEW total \in Uint, NEW free \in Uint, NEW buffers \in Uint, NEW cached \in Uint,
           free + buffers + cached < Modulus
    PROVE  IF free + buffers + cached <= total
           THEN MemoryUsed(total, free, buffers, cached) = total - (free + buffers + cached)
           ELSE MemoryUsed(total, free, buffers, cached) > total
<1>1. Modulus \in Nat \ {0}
  BY ModulusAssumption
<1>2. QED
  BY <1>1 DEF MemoryUsed, Minus, Uint

=============================================================================
