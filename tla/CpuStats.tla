------------------------------ MODULE CpuStats ------------------------------
(***************************************************************************)
(* The module cpu_stats: every read of /proc/cpu_stats opens /proc/stat    *)
(* twice, once for the idle and once for the total time, and compares both *)
(* with what the previous read left in two static variables.  Readers with *)
(* a file of their own run at the same time, and time passes between the   *)
(* two samples.                                                            *)
(***************************************************************************)
EXTENDS Integers

CONSTANTS
    Shower,   \* threads that read /proc/cpu_stats
    MaxTime,  \* bound on the time the system runs
    Word,     \* 2^64, where unsigned long long wraps
    IntWord   \* 2^32, where the cast to int wraps

ASSUME CpuAssumption ==
    /\ MaxTime \in Nat /\ 100 * MaxTime < Word
    /\ IntWord \in Nat /\ IntWord > 200 /\ IntWord < Word /\ Word \in Nat

\* What get_cpu_idle_time and get_cpu_total_time return when they fail: -1 as an
\* unsigned number.
Failed == Word - 1

VARIABLES
    idle, busy,             \* the times of /proc/stat: idle + iowait, and the rest
    prevIdle, prevTotal,    \* prev_idle_time, prev_total_time
    cpc,                    \* cpc[s]: "out", "idle", "total", "delta", "store", "show"
    idleTime, totalTime,    \* the locals idle_time and total_time
    deltaIdle, deltaTotal,  \* the locals delta_idle and delta_total
    usagePct,               \* usagePct[s]: what calculate_cpu_usage returned to s
    last                    \* the samples of the last reading that had both

clockVars == <<idle, busy>>
prevVars == <<prevIdle, prevTotal>>
localVars == <<idleTime, totalTime, deltaIdle, deltaTotal>>
cpuVars == <<clockVars, prevVars, cpc, localVars, usagePct, last>>

CpuInit ==
    /\ idle = 0 /\ busy = 0 /\ prevIdle = 0 /\ prevTotal = 0
    /\ last = [idle |-> 0, total |-> 0]
    /\ cpc = [s \in Shower |-> "out"] /\ usagePct = [s \in Shower |-> 0]
    /\ idleTime = [s \in Shower |-> 0] /\ totalTime = [s \in Shower |-> 0]
    /\ deltaIdle = [s \in Shower |-> 0] /\ deltaTotal = [s \in Shower |-> 0]

----------------------------------------------------------------------------
Tick ==
    /\ idle + busy < MaxTime
    /\ \/ idle' = idle + 1 /\ UNCHANGED busy
       \/ busy' = busy + 1 /\ UNCHANGED idle
    /\ UNCHANGED <<prevVars, cpc, localVars, usagePct, last>>

ToPC(s, label) == cpc' = [cpc EXCEPT ![s] = label]

OpenShow(s) ==
    /\ cpc[s] = "out" /\ ToPC(s, "idle")
    /\ UNCHANGED <<clockVars, prevVars, localVars, usagePct, last>>

GetIdle(s) ==
    /\ cpc[s] = "idle" /\ ToPC(s, "total")
    /\ \E v \in {idle, Failed} : idleTime' = [idleTime EXCEPT ![s] = v]
    /\ UNCHANGED <<clockVars, prevVars, totalTime, deltaIdle, deltaTotal, usagePct, last>>

\* A slip: only one of the two samples is checked.
NoSampleUnchecked(s) == idleTime[s] = Failed

NoSample(s) == idleTime[s] = Failed \/ totalTime'[s] = Failed

\* get_cpu_total_time, and the way out when one of the samples failed.
GetTotal(s) ==
    /\ cpc[s] = "total"
    /\ \E v \in {idle + busy, Failed} : totalTime' = [totalTime EXCEPT ![s] = v]
    /\ IF NoSample(s)
       THEN ToPC(s, "show") /\ usagePct' = [usagePct EXCEPT ![s] = -1]
       ELSE ToPC(s, "delta") /\ UNCHANGED usagePct
    /\ UNCHANGED <<clockVars, prevVars, idleTime, deltaIdle, deltaTotal, last>>

Deltas(s) ==
    /\ cpc[s] = "delta" /\ ToPC(s, "store")
    /\ deltaIdle' = [deltaIdle EXCEPT ![s] = (idleTime[s] - prevIdle) % Word]
    /\ deltaTotal' = [deltaTotal EXCEPT ![s] = (totalTime[s] - prevTotal) % Word]
    /\ UNCHANGED <<clockVars, prevVars, idleTime, totalTime, usagePct, last>>

\* A value stored in an int.
ToInt(v) == LET w == v % IntWord IN IF w < IntWord \div 2 THEN w ELSE w - IntWord

Percent(di, dt) == ((100 * ((dt - di) % Word)) % Word) \div dt

CpuUsage(di, dt) == IF dt > 0 THEN ToInt(Percent(di, dt)) ELSE 0

\* A slip: the total is not remembered.
RememberIdleOnly(s) == prevIdle' = idleTime[s] /\ UNCHANGED prevTotal

Remember(s) == prevIdle' = idleTime[s] /\ prevTotal' = totalTime[s]

StorePrev(s) ==
    /\ cpc[s] = "store" /\ ToPC(s, "show")
    /\ Remember(s)
    /\ last' = [idle |-> idleTime[s], total |-> totalTime[s]]
    /\ usagePct' = [usagePct EXCEPT ![s] = CpuUsage(deltaIdle[s], deltaTotal[s])]
    /\ UNCHANGED <<clockVars, localVars>>

Show(s) ==
    /\ cpc[s] = "show" /\ ToPC(s, "out")
    /\ UNCHANGED <<clockVars, prevVars, localVars, usagePct, last>>

ShowStep(s) == GetIdle(s) \/ GetTotal(s) \/ Deltas(s) \/ StorePrev(s) \/ Show(s)

CpuNext == Tick \/ \E s \in Shower : OpenShow(s) \/ ShowStep(s)

CpuSpec == CpuInit /\ [][CpuNext]_cpuVars

----------------------------------------------------------------------------
\* What readers leave for the next one are times that have passed: a failed
\* sample never gets into prev_idle_time or prev_total_time, whoever else reads.
PrevIsSample == prevIdle <= idle /\ prevTotal <= idle + busy

\* A reading is the busy share of the time since the last reading that did not
\* fail, rounded down, and 0 when no time has passed: wrap-around and the cast to
\* int do no harm, provided that no other reader stores between its subtractions
\* and its own store, and that its samples do not show more idle than total time.
UsageIsExact ==
    [][\A s \in Shower : cpc[s] = "store" /\ cpc'[s] = "show" =>
           LET total == totalTime[s] - last.total
               idled == idleTime[s] - last.idle
           IN  /\ deltaIdle[s] = (idleTime[s] - prevIdle) % Word
               /\ deltaTotal[s] = (totalTime[s] - prevTotal) % Word
               /\ 0 <= idled /\ idled <= total
               => usagePct'[s] = IF total = 0 THEN 0
                                 ELSE (100 * (total - idled)) \div total]_cpuVars

\* /proc/cpu_stats "muestra el uso de CPU en porcentaje cada vez que se lee"
\* (Documentacion_fase1/README.md).  Broken by time that passes between the two
\* samples: more idle than total time, and a difference below zero.
UsageIsPercentage == \A s \in Shower : usagePct[s] \in -1..100
=============================================================================
