------------------------------ MODULE Prlimit ------------------------------
(***************************************************************************)
(* prlimit64 on another process, run by any number of callers at once.     *)
(* It is the kernel's own way of doing what the memory limiter does, and   *)
(* the only one that holds a reference on the task while it calls          *)
(* do_prlimit.                                                             *)
(*                                                                         *)
(* The call is three steps: under rcu_read_lock it finds the task, checks  *)
(* the permission and takes a reference; do_prlimit; copying the old limit *)
(* out and dropping the reference.                                         *)
(***************************************************************************)
EXTENDS Tasks

CONSTANTS
    PrCaller,  \* threads that call prlimit64
    NoTask,    \* a task pointer that is not set
    NoRlimit   \* a NULL new_rlim

ASSUME PrlimitAssumption ==
    /\ IsFiniteSet(PrCaller)
    /\ NoTask \notin Slot
    /\ NoRlimit \notin [cur : UserLimit, max : UserLimit]

VARIABLES
    ppc,    \* ppc[c]: "idle", "set" (about to call do_prlimit), "put"
    ptask,  \* ptask[c]: the local tsk
    pnew,   \* pnew[c]: the new limit, or NoRlimit
    pcap,   \* pcap[c]: the caller has CAP_SYS_RESOURCE
    pret    \* pret[c]: the result so far

prVars == <<ppc, ptask, pnew, pcap, pret>>

PrRet == {"OK", "EINVAL", "EPERM", "EACCES", "ESRCH", "EFAULT"}

PrTypeOK ==
    /\ ppc \in [PrCaller -> {"idle", "set", "put"}]
    /\ ptask \in [PrCaller -> Slot \cup {NoTask}]
    /\ pnew \in [PrCaller -> [cur : UserLimit, max : UserLimit] \cup {NoRlimit}]
    /\ pcap \in [PrCaller -> BOOLEAN]
    /\ pret \in [PrCaller -> PrRet]

PrInit ==
    /\ ppc = [c \in PrCaller |-> "idle"]
    /\ ptask = [c \in PrCaller |-> NoTask]
    /\ pnew = [c \in PrCaller |-> NoRlimit]
    /\ pcap = [c \in PrCaller |-> FALSE]
    /\ pret = [c \in PrCaller |-> "OK"]

----------------------------------------------------------------------------
\* The early returns of prlimit64: an unreadable new_rlim, no such process,
\* check_prlimit_permission.  idMatch: the six ids of the caller and the task
\* agree, or the task is the caller.
PrFail(c, pid, ret, idMatch, capResource) ==
    /\ ppc[c] = "idle"
    /\ \/ ret = "EFAULT"
       \/ ret = "ESRCH" /\ PidUnused(pid)
       \/ ret = "EPERM" /\ ~PidUnused(pid) /\ ~idMatch /\ ~capResource
       \/ ret = "EACCES" /\ ~PidUnused(pid) /\ "EACCES" \in LsmVerdict
    /\ pret' = [pret EXCEPT ![c] = ret]
    /\ UNCHANGED <<taskVars, ppc, ptask, pnew, pcap>>

\* The section under rcu_read_lock when it succeeds, get_task_struct included.
PrGet(c, s, new, idMatch, capResource) ==
    /\ ppc[c] = "idle"
    /\ Hashed(s)
    /\ idMatch \/ capResource
    /\ usage' = [usage EXCEPT ![s] = @ + 1]
    /\ ppc' = [ppc EXCEPT ![c] = "set"]
    /\ ptask' = [ptask EXCEPT ![c] = s]
    /\ pnew' = [pnew EXCEPT ![c] = new]
    /\ pcap' = [pcap EXCEPT ![c] = capResource]
    /\ pret' = [pret EXCEPT ![c] = "OK"]
    /\ UNCHANGED <<tstate, tpid, tsig, rlim, vm>>

\* The call of do_prlimit; with a NULL new_rlim it only reads.
PrSet(c) ==
    /\ ppc[c] = "set"
    /\ \E ret \in {"OK", "EINVAL", "EPERM", "EACCES"} :
        /\ IF pnew[c] = NoRlimit
           THEN ret = "OK" /\ UNCHANGED rlim
           ELSE DoPrlimit(tsig[ptask[c]], pnew[c], pcap[c], ret)
        /\ pret' = [pret EXCEPT ![c] = ret]
    /\ ppc' = [ppc EXCEPT ![c] = "put"]
    /\ UNCHANGED <<tstate, tpid, tsig, usage, vm, ptask, pnew, pcap>>

\* Slips: the failing copy_to_user returns without put_task_struct; or drops the
\* reference before the common exit does.
PutLeaks(c) == IF pret'[c] = "EFAULT" THEN usage ELSE [usage EXCEPT ![ptask[c]] = @ - 1]
PutTwice(c) == [usage EXCEPT ![ptask[c]] = @ - (IF pret'[c] = "EFAULT" THEN 2 ELSE 1)]

\* The references after put_task_struct(tsk).
Put(c) == [usage EXCEPT ![ptask[c]] = @ - 1]

\* copy_to_user of the old limit, which may fail, and put_task_struct.
PrPut(c) ==
    /\ ppc[c] = "put"
    /\ \/ UNCHANGED pret
       \/ pret[c] = "OK" /\ pret' = [pret EXCEPT ![c] = "EFAULT"]
    /\ usage' = Put(c)
    /\ ppc' = [ppc EXCEPT ![c] = "idle"]
    /\ ptask' = [ptask EXCEPT ![c] = NoTask]
    /\ pnew' = [pnew EXCEPT ![c] = NoRlimit]
    /\ pcap' = [pcap EXCEPT ![c] = FALSE]
    /\ UNCHANGED <<tstate, tpid, tsig, rlim, vm>>

PrNext ==
    \E c \in PrCaller :
        \/ \E idMatch, capResource \in BOOLEAN :
            \/ \E pid \in Pid, ret \in PrRet : PrFail(c, pid, ret, idMatch, capResource)
            \/ \E s \in Slot,
                  new \in [cur : UserLimit, max : UserLimit] \cup {NoRlimit} :
                   PrGet(c, s, new, idMatch, capResource)
        \/ PrSet(c)
        \/ PrPut(c)

----------------------------------------------------------------------------
limitsVars == <<taskVars, prVars>>

LimitsInit == TasksInit /\ PrInit

LimitsNext ==
    \/ TasksNext /\ UNCHANGED prVars
    \/ PrNext

LimitsSpec == LimitsInit /\ [][LimitsNext]_limitsVars

LimitsTypeOK == TasksTypeOK /\ PrTypeOK

Holding(c) == ppc[c] # "idle"

Holders(s) == {c \in PrCaller : Holding(c) /\ ptask[c] = s}

\* prlimit64 works on a task_struct that still exists, and on the limits of the
\* process it looked up: between get_task_struct and put_task_struct neither the
\* task nor its signal_struct is freed or handed to another process
\* (sys.c: "Holding a refcount on tsk protects tsk->signal from disappearing").
PinnedTaskStays ==
    \A c \in PrCaller :
        Holding(c) => tstate[ptask[c]] # "free" /\ ~SignalFree(tsig[ptask[c]])

\* While a caller is inside prlimit64 its task keeps its pid and its signal:
\* the slot it holds is never recycled under it.
PinnedTaskKeepsIdentity ==
    [][\A c \in PrCaller : Holding(c) /\ Holding(c)' =>
           /\ tpid'[ptask[c]] = tpid[ptask[c]]
           /\ tsig'[ptask[c]] = tsig[ptask[c]]]_limitsVars

\* get_task_struct and put_task_struct balance: a task's count is the number of
\* callers that are between the two.
RefsBalanced == \A s \in Slot : usage[s] = Cardinality(Holders(s))

\* No call leaves a soft limit above the hard one, whoever sets it: do_prlimit
\* compares the two before it stores them.
SoftBelowHard ==
    \A g \in Slot : rlim[g].cur <= rlim[g].max

\* The pid table names at most one task per pid, so find_task_by_vpid is a
\* function.
PidsUnique ==
    \A s, t \in Slot : Hashed(s) /\ Hashed(t) /\ tpid[s] = tpid[t] => s = t
============================================================================
