-------------------------- MODULE SyscallCounters --------------------------
(***************************************************************************)
(* The four call counters (open_call_counter, read_call_counter,           *)
(* write_call_counter, fork_call_counter) and luis_track_syscall_usage,    *)
(* which reports them.  The counters are plain longs, incremented with ++  *)
(* on every CPU without a lock, so an increment is a load and a store and  *)
(* other calls run between the two.                                        *)
(***************************************************************************)
EXTENDS Integers, FiniteSets

CONSTANTS
    Thread,    \* threads that make system calls
    Tracker,   \* threads that call luis_track_syscall_usage
    Syscall,   \* the calls this instance makes, a subset of Calls
    MaxCalls   \* bound on the calls of one kind

Counter == {"open", "read", "write", "fork"}
Calls == {"open", "openat", "openat2", "read", "write", "fork", "vfork", "clone", "clone3"}

ASSUME CountersAssumption ==
    /\ IsFiniteSet(Thread)
    /\ Syscall \subseteq Calls
    /\ MaxCalls \in Nat

\* The counter that speaks of a call.
KindOf(call) ==
    IF call \in {"open", "openat", "openat2"} THEN "open"
    ELSE IF call \in {"fork", "vfork", "clone", "clone3"} THEN "fork"
    ELSE call

VARIABLES
    counter,  \* counter[k]: the global
    spc,      \* spc[t]: "user", "load", "store" (inside the ++), "run"
    call,     \* call[t]: the call t is in or was in last
    tmp,      \* tmp[t]: the value t's ++ has loaded
    made,     \* made[k]: how many calls of kind k were made
    overlap,  \* the counters of which two increments have overlapped
    tpc,      \* tpc[r]: "user", "copy", or the counter r reads next
    report    \* report[r]: local_trackers

counterVars == <<counter, spc, call, tmp, made, overlap, tpc, report>>
callerVars == <<spc, call, tmp, made, overlap>>

CountersTypeOK ==
    /\ counter \in [Counter -> Nat]
    /\ spc \in [Thread -> {"user", "load", "store", "run"}]
    /\ call \in [Thread -> Calls]
    /\ tmp \in [Thread -> Nat]
    /\ made \in [Counter -> Nat]
    /\ overlap \subseteq Counter
    /\ tpc \in [Tracker -> {"user", "copy"} \cup Counter]
    /\ report \in [Tracker -> [Counter -> Nat]]

CountersInit ==
    /\ counter = [k \in Counter |-> 0]
    /\ spc = [t \in Thread |-> "user"]
    /\ call = [t \in Thread |-> "read"]
    /\ tmp = [t \in Thread |-> 0]
    /\ made = [k \in Counter |-> 0]
    /\ overlap = {}
    /\ tpc = [r \in Tracker |-> "user"]
    /\ report = [r \in Tracker |-> [k \in Counter |-> 0]]

----------------------------------------------------------------------------
\* A slip: the increment sits in open() and not in do_sys_open, which openat
\* shares.
CountedOpenOnly(c) == c \in {"open", "read", "write", "clone"}

\* The calls that pass a ++: read, write and clone themselves, open and openat
\* through do_sys_open.
Counted(c) == c \in {"open", "openat", "read", "write", "clone"}

Enter(t, c) ==
    /\ spc[t] = "user" /\ made[KindOf(c)] < MaxCalls
    /\ made' = [made EXCEPT ![KindOf(c)] = @ + 1]
    /\ call' = [call EXCEPT ![t] = c]
    /\ spc' = [spc EXCEPT ![t] = IF Counted(c) THEN "load" ELSE "run"]
    /\ UNCHANGED <<counter, tmp, overlap, tpc, report>>

Load(t) ==
    /\ spc[t] = "load"
    /\ tmp' = [tmp EXCEPT ![t] = counter[KindOf(call[t])]]
    /\ spc' = [spc EXCEPT ![t] = "store"]
    /\ overlap' = overlap \cup
           {KindOf(call[u]) : u \in {v \in Thread : spc[v] = "store"
                                                   /\ KindOf(call[v]) = KindOf(call[t])}}
    /\ UNCHANGED <<counter, call, made, tpc, report>>

\* A slip: the call is counted where it enters and again in the function it shares.
StoredTwice(t) == tmp[t] + 2

Stored(t) == tmp[t] + 1

Store(t) ==
    /\ spc[t] = "store"
    /\ counter' = [counter EXCEPT ![KindOf(call[t])] = Stored(t)]
    /\ spc' = [spc EXCEPT ![t] = "run"]
    /\ UNCHANGED <<call, tmp, made, overlap, tpc, report>>

\* What the call does after it is counted changes no counter; it may fail.
Leave(t) ==
    /\ spc[t] = "run"
    /\ spc' = [spc EXCEPT ![t] = "user"]
    /\ UNCHANGED <<counter, call, tmp, made, overlap, tpc, report>>

----------------------------------------------------------------------------
TrackEnter(r) ==
    /\ tpc[r] = "user"
    /\ tpc' = [tpc EXCEPT ![r] = "write"]
    /\ UNCHANGED <<counter, callerVars, report>>

\* The order in which luis_track_syscall_usage reads the counters.
After(k) ==
    IF k = "write" THEN "read" ELSE IF k = "read" THEN "open"
    ELSE IF k = "open" THEN "fork" ELSE "copy"

\* A slip: a field is filled from another counter.
FieldSwapped(k) == IF k = "open" THEN "read" ELSE k

Field(k) == k

TrackRead(r) ==
    /\ tpc[r] \in Counter
    /\ report' = [report EXCEPT ![r][tpc[r]] = counter[Field(tpc[r])]]
    /\ tpc' = [tpc EXCEPT ![r] = After(tpc[r])]
    /\ UNCHANGED <<counter, callerVars>>

\* copy_to_user; when it faults the call returns -EFAULT and no more.
TrackCopy(r) ==
    /\ tpc[r] = "copy"
    /\ tpc' = [tpc EXCEPT ![r] = "user"]
    /\ UNCHANGED <<counter, callerVars, report>>

CountersNext ==
    \/ \E t \in Thread :
        \/ \E c \in Syscall : Enter(t, c)
        \/ Load(t) \/ Store(t) \/ Leave(t)
    \/ \E r \in Tracker : TrackEnter(r) \/ TrackRead(r) \/ TrackCopy(r)

CountersSpec == CountersInit /\ [][CountersNext]_counterVars

----------------------------------------------------------------------------
\* No counter gets ahead of the calls made, however the increments interleave.
CountNeverAhead == \A k \in Counter : counter[k] <= made[k]

\* Nor does a field of a report, which is read counter by counter while calls go on.
ReportNeverAhead == \A r \in Tracker, k \in Counter : report[r][k] <= made[k]

Incrementing(k) == {t \in Thread : spc[t] \in {"load", "store"} /\ KindOf(call[t]) = k}

\* When no call is between its entry and the end of its increment, and no two
\* increments have overlapped, the counter is the number of calls.  The calls are
\* those the kernel counts: openat2, fork, vfork and clone3 have no increment.
CountsExact ==
    \A k \in Counter \ overlap : Incrementing(k) = {} => counter[k] = made[k]

\* The counters "se actualizan en otras partes del kernel cuando las
\* correspondientes syscalls son ejecutadas" (Documentacion_fase1/README.md).  Two
\* increments that overlap break it.
EveryCallCounted == \A k \in Counter : Incrementing(k) = {} => counter[k] = made[k]
============================================================================
