----------------------------- MODULE NodeMetrics -----------------------------
(***************************************************************************)
(* The arithmetic of the host metrics: unsigned numbers of a fixed width,  *)
(* as the counters of /proc/stat and the sizes of /proc/meminfo are read.  *)
(* A percentage stands as a fraction.                                      *)
(***************************************************************************)
EXTENDS Integers

CONSTANT Modulus  \* 2^64

ASSUME ModulusAssumption == Modulus \in Nat \ {0}

Uint == 0..Modulus - 1

\* uint64 addition and subtraction.
Plus(a, b) == IF a + b < Modulus THEN a + b ELSE a + b - Modulus
Minus(a, b) == IF a >= b THEN a - b ELSE a - b + Modulus

\* The counters of a line of /proc/stat; `busy` stands for user, nice, system,
\* irq, softirq and steal, which are only ever added up.
CPUStats == [idle: Uint, iowait: Uint, busy: Uint]

Idle(stat) == Plus(stat.idle, stat.iowait)
Total(stat) == Plus(Idle(stat), stat.busy)

Zero == [num |-> 0, den |-> 1]
Fractions == [num: Nat, den: Nat \ {0}]

\* The share of the time since prev that was not idle.
CalculateCPUPercent(prev, curr) ==
    LET total == Minus(Total(curr), Total(prev))
        idle == Minus(Idle(curr), Idle(prev))
    IN  IF total = 0 THEN Zero ELSE [num |-> Minus(total, idle), den |-> total]

\* getMemoryStats: what is neither free nor buffers nor page cache.
MemoryUsed(total, free, buffers, cached) ==
    Minus(Minus(Minus(total, free), buffers), cached)

=============================================================================
