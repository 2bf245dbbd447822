------------------------------ MODULE HostStats ------------------------------
(***************************************************************************)
(* The Sampler of src/stack/stats/hoststats.py: CPU use and network rates  *)
(* are differences between two readings of counters that other programs    *)
(* move, and that go away, come back at zero, or run backwards.  Received  *)
(* bytes stand for both directions; a rate is kept as the bytes it is      *)
(* computed from, its division by the elapsed time being the same for all. *)
(***************************************************************************)
EXTENDS Integers, FiniteSets, FiniteSetsExt

CONSTANTS
    Physical,   \* interfaces with a device in sysfs
    Virtual,    \* the other ones shown (tailscale0 among them)
    Cores,      \* the lines cpu0, cpu1, ... of /proc/stat that may exist
    MaxCount,   \* bound of every counter
    None        \* Python's None: no counter, no figure

Ifaces == Physical \cup Virtual

ASSUME FigureAssumption ==
    Physical \cap Virtual = {} /\ IsFiniteSet(Ifaces) /\ MaxCount \in Nat /\ None \notin Int

VARIABLES
    counters,   \* net/dev: bytes of each interface, None when it does not exist
    previous,   \* self._net_previous: the counters of the last reading, or None
    rates,      \* self.network: bytes since the last reading per interface, or None
    total,      \* ... and of totals["rx_rate"], over the physical ones
    ticks,      \* self._cpu_previous: (busy, total) of each line, or None
    percents,   \* self.cpu: "percent" and "per_core", each 0..100 or None
    moved,      \* (history) bytes really received since the last reading
    was         \* (history) ... and those between the last two readings

network  == <<previous, rates, total>>
cpu      == <<ticks, percents>>
hostVars == <<counters, network, cpu, moved, was>>

Lines  == {"cpu"} \cup Cores
Ticks  == {t \in (0..MaxCount) \X (0..MaxCount) : t[1] <= t[2]}   \* busy <= total
Nobody == [i \in Ifaces |-> None]

HostInit ==
    /\ counters \in [Ifaces -> {None, 0}]
    /\ previous = None /\ rates = Nobody /\ total = None
    /\ ticks = None /\ percents = [l \in Lines |-> None]
    /\ moved = [i \in Ifaces |-> 0] /\ was = moved

----------------------------------------------------------------------------
(* The host                                                                *)

\* Traffic, on an interface, or on a virtual one and the physical one below it.
Receives(S) ==
    /\ \A i \in S : counters[i] # None /\ counters[i] < MaxCount /\ moved[i] < MaxCount
    /\ counters' = [i \in Ifaces |-> IF i \in S THEN counters[i] + 1 ELSE counters[i]]
    /\ moved' = [i \in Ifaces |-> IF i \in S THEN moved[i] + 1 ELSE moved[i]]
    /\ UNCHANGED <<network, cpu, was>>

\* An interface goes away, or is created with its counters at zero.
Replugged(i) ==
    /\ counters' = [counters EXCEPT ![i] = IF @ = None THEN 0 ELSE None]
    /\ UNCHANGED <<network, cpu, moved, was>>

----------------------------------------------------------------------------
(* The sampler                                                             *)

\* _rate: None for a counter that was reset.
Rate(before, now) == IF now < before THEN None ELSE now - before

MutantCounted == Ifaces
Counted == Physical   \* "tailscale0 traffic is already carried by them"

\* _sum_rates, over the interfaces there are: None when one of them has none.
SumRates(r) ==
    LET there == {i \in Counted : counters[i] # None} IN
    IF \E i \in there : r[i] = None THEN None ELSE MapThenSumSet(LAMBDA i : r[i], there)

\* _sample_network; the file may be unreadable, then the next reading is a first one.
SampleNetwork ==
    \/ /\ previous' = None /\ rates' = Nobody /\ total' = None
    \/ /\ previous' = counters
       /\ rates' = [i \in Ifaces |->
              IF previous # None /\ counters[i] # None /\ previous[i] # None
              THEN Rate(previous[i], counters[i]) ELSE None]
       /\ total' = SumRates(rates')

\* _busy_percent: idle and iowait may run backwards, a CPU may come back online.
Clamp(n) == IF n < 0 THEN 0 ELSE IF n > 100 THEN 100 ELSE n
BusyPercent(before, now) ==
    IF before = None \/ now = None \/ now[2] <= before[2] THEN None
    ELSE Clamp((100 * (now[1] - before[1])) \div (now[2] - before[2]))

\* _sample_cpu, of whatever /proc/stat says by now ("cpu" is always there).
SampleCpu ==
    \/ ticks' = None /\ percents' = [l \in Lines |-> None]
    \/ \E now \in [Lines -> Ticks \cup {None}] :
          /\ now["cpu"] # None
          /\ ticks' = now
          /\ percents' = [l \in Lines |->
                IF ticks = None THEN None ELSE BusyPercent(ticks[l], now[l])]

\* sample() is both, one after the other; they share nothing but the moment.
CpuNext == SampleCpu /\ UNCHANGED <<counters, network, moved, was>>

NetworkNext ==
    \/ \E i \in Ifaces : Receives({i}) \/ Replugged(i)
    \/ \E v \in Virtual, p \in Physical : Receives({v, p})
    \/ /\ SampleNetwork
       /\ moved' = [i \in Ifaces |-> 0] /\ was' = moved
       /\ UNCHANGED <<counters, cpu>>

----------------------------------------------------------------------------
(* Readings without a memory: meminfo and statvfs                          *)

Percent(part, whole) == IF whole = 0 THEN None ELSE (100 * part) \div whole

\* memory_info of a meminfo without or with MemAvailable, and disk_info.
Used(whole, available) == IF available > whole THEN 0 ELSE whole - available
MemoryPercent(m) ==
    Percent(Used(m.total, IF m.available = None THEN m.free + m.cached ELSE m.available), m.total)
SwapPercent(m) == IF m.swap = 0 THEN 0 ELSE Percent(Used(m.swap, m.swapFree), m.swap)
DiskPercent(d) == Percent(d.blocks - d.bfree, (d.blocks - d.bfree) + d.bavail)

Meminfos ==
    [total : 1..MaxCount, available : {None} \cup 0..MaxCount, free : 0..MaxCount,
     cached : 0..MaxCount, swap : 0..MaxCount, swapFree : 0..MaxCount]
Disks == {d \in [blocks : 0..MaxCount, bfree : 0..MaxCount, bavail : 0..MaxCount] :
             d.bavail <= d.bfree /\ d.bfree <= d.blocks}

----------------------------------------------------------------------------
(* Properties                                                              *)

\* A rate is never more than what the interface really received since the reading
\* before, nor is the total more than what came in by wire: not when an interface is
\* re-created with smaller or again larger counters, not after an unreadable file, and
\* not by counting what tailscale0 and the NIC below it both carry.
NeverOverstates ==
    /\ \A i \in Ifaces : rates[i] # None => rates[i] \in 0..was[i]
    /\ total # None => total \in 0..MapThenSumSet(LAMBDA i : was[i], Physical)

\* Every percentage of the page is one, whatever the kernel's counters do.
PercentsMakeSense ==
    /\ \A l \in Lines : percents[l] # None => percents[l] \in 0..100
    /\ \A m \in Meminfos : MemoryPercent(m) \in 0..100 /\ SwapPercent(m) \in 0..100
    /\ \A d \in Disks : DiskPercent(d) # None => DiskPercent(d) \in 0..100

\* No figure of the host claims more than there is.
FiguresMakeSense == NeverOverstates /\ PercentsMakeSense
=============================================================================
