------------------------------- MODULE Tasks -------------------------------
(***************************************************************************)
(* The tasks the memory limiter acts on: task_struct objects, the pid      *)
(* table, the resource limit and the size of the address space of every    *)
(* thread group, and the calls of the tasks themselves that change them    *)
(* (clone, exit, mmap, setrlimit).                                         *)
(*                                                                         *)
(* A task_struct is a Slot of its slab cache, so a pointer to one is the   *)
(* slot, and a pointer kept after the object was freed names whatever the  *)
(* slot holds next.  The signal_struct of a thread group (its rlimits) and *)
(* its mm are indexed by the slot of the group's first task.               *)
(***************************************************************************)
EXTENDS Integers, FiniteSets

CONSTANTS
    Slot,        \* objects of task_struct_cachep
    Pid,         \* the pid numbers the instance uses
    Boot,        \* the tasks alive at the start: a function from slots to pids
    BootPages,   \* total_vm of those tasks
    UserLimit,   \* limits that tasks ask for with setrlimit and prlimit64, bytes
    Infinity,    \* RLIM_INFINITY
    PageSize,    \* 1 << PAGE_SHIFT
    MaxPages,    \* bound on total_vm
    LsmVerdict,  \* what security_task_setrlimit may answer
    Event        \* the calls of tasks this instance lets happen

ASSUME TasksAssumption ==
    /\ DOMAIN Boot \subseteq Slot
    /\ \A s \in DOMAIN Boot : Boot[s] \in Pid
    /\ \A s, t \in DOMAIN Boot : Boot[s] = Boot[t] => s = t
    /\ Pid # {} /\ Pid \subseteq Nat \ {0}
    /\ UserLimit \subseteq Nat /\ Infinity \in Nat
    /\ PageSize \in Nat \ {0} /\ MaxPages \in Nat /\ BootPages \in 0..MaxPages
    /\ LsmVerdict \subseteq {"OK", "EACCES"}

VARIABLES
    tstate,   \* tstate[s]: "free", "live", "zombie" (exited, still hashed) or
              \* "dead" (unhashed, waiting for its last reference)
    tpid,     \* tpid[s]: task->pid
    tsig,     \* tsig[s]: task->signal, named by the slot of the group leader
    usage,    \* usage[s]: references taken with get_task_struct
    rlim,     \* rlim[g]: signal->rlim[RLIMIT_AS]
    vm        \* vm[g]: mm->total_vm, in pages

taskVars == <<tstate, tpid, tsig, usage, rlim, vm>>

Rlimit == [cur : Nat, max : Nat]

TasksTypeOK ==
    /\ tstate \in [Slot -> {"free", "live", "zombie", "dead"}]
    /\ tpid \in [Slot -> Pid]
    /\ tsig \in [Slot -> Slot]
    /\ usage \in [Slot -> Nat]
    /\ rlim \in [Slot -> Rlimit]
    /\ vm \in [Slot -> 0..MaxPages]

TasksInit ==
    /\ tstate = [s \in Slot |-> IF s \in DOMAIN Boot THEN "live" ELSE "free"]
    /\ tpid = [s \in Slot |-> IF s \in DOMAIN Boot THEN Boot[s]
                              ELSE CHOOSE p \in Pid : TRUE]
    /\ tsig = [s \in Slot |-> s]
    /\ usage = [s \in Slot |-> 0]
    /\ rlim = [s \in Slot |-> [cur |-> Infinity, max |-> Infinity]]
    /\ vm = [s \in Slot |-> BootPages]

----------------------------------------------------------------------------
\* The task is in the pid table: find_task_by_vpid finds it.
Hashed(s) == tstate[s] \in {"live", "zombie"}

\* What find_task_by_vpid(pid) returns; no element stands for NULL.
FindTaskByVpid(pid) == {s \in Slot : Hashed(s) /\ tpid[s] = pid}

\* No task_struct that still exists points to the signal_struct of g:
\* put_signal_struct has dropped its last reference.
SignalFree(g) == \A t \in Slot : tstate[t] # "free" => tsig[t] # g

PidUnused(p) == FindTaskByVpid(p) = {}

\* A slip: the soft limit is not compared with the hard one.
PrlimitErrorNoOrder(g, new, capResource, verdict) ==
    IF new.max > rlim[g].max /\ ~capResource THEN "EPERM" ELSE verdict

\* do_prlimit's verdict on setting RLIMIT_AS of group g to new.
PrlimitError(g, new, capResource, verdict) ==
    IF new.cur > new.max THEN "EINVAL"
    ELSE IF new.max > rlim[g].max /\ ~capResource THEN "EPERM"
    ELSE verdict

\* do_prlimit with a new limit; task_lock makes it one step.  ret is its result.
DoPrlimit(g, new, capResource, ret) ==
    \E verdict \in LsmVerdict :
        /\ ret = PrlimitError(g, new, capResource, verdict)
        /\ rlim' = IF ret = "OK" THEN [rlim EXCEPT ![g] = new] ELSE rlim

----------------------------------------------------------------------------
\* A slip: an object is handed out before its last reference is dropped.
AllocTaskStructEarly(n) == tstate[n] \in {"free", "dead"}

\* Slot n is free for a new process.
AllocTaskStruct(n) == tstate[n] = "free" /\ SignalFree(n)

\* A slip: a thread gets the pid of its creator.
ThreadPidShared(s, p) == tpid[s]

\* The pid of a thread that s creates when alloc_pid hands out p.
ThreadPid(s, p) == p

\* A slip: the references are not looked at.
LastReferenceIgnored(s) == tstate[s] = "dead"

LastReference(s) == tstate[s] = "dead" /\ usage[s] = 0

\* fork(): copy_signal copies the rlimits of the caller into a signal_struct of
\* the child's own, dup_mmap copies total_vm.
Fork(s, n, p) ==
    /\ "fork" \in Event
    /\ tstate[s] = "live" /\ AllocTaskStruct(n) /\ PidUnused(p)
    /\ tstate' = [tstate EXCEPT ![n] = "live"]
    /\ tpid' = [tpid EXCEPT ![n] = p]
    /\ tsig' = [tsig EXCEPT ![n] = n]
    /\ rlim' = [rlim EXCEPT ![n] = rlim[tsig[s]]]
    /\ vm' = [vm EXCEPT ![n] = vm[tsig[s]]]
    /\ UNCHANGED usage

\* clone(CLONE_THREAD): the new task shares signal_struct and mm.
CloneThread(s, n, p) ==
    /\ "thread" \in Event
    /\ tstate[s] = "live" /\ tstate[n] = "free" /\ PidUnused(p)
    /\ tstate' = [tstate EXCEPT ![n] = "live"]
    /\ tpid' = [tpid EXCEPT ![n] = ThreadPid(s, p)]
    /\ tsig' = [tsig EXCEPT ![n] = tsig[s]]
    /\ UNCHANGED <<usage, rlim, vm>>

\* exit: the task gives up its mm and stays hashed until it is released.
Exit(s) ==
    /\ "exit" \in Event
    /\ tstate[s] = "live"
    /\ tstate' = [tstate EXCEPT ![s] = "zombie"]
    /\ UNCHANGED <<tpid, tsig, usage, rlim, vm>>

\* release_task unhashes it; a group leader is released last.
Release(s) ==
    /\ tstate[s] = "zombie"
    /\ s = tsig[s] => \A t \in Slot \ {s} : Hashed(t) => tsig[t] # s
    /\ tstate' = [tstate EXCEPT ![s] = "dead"]
    /\ UNCHANGED <<tpid, tsig, usage, rlim, vm>>

\* __put_task_struct, once the RCU callback has run and no reference is left.
PutTaskStruct(s) ==
    /\ LastReference(s)
    /\ tstate' = [tstate EXCEPT ![s] = "free"]
    /\ UNCHANGED <<tpid, tsig, usage, rlim, vm>>

\* mmap of n pages: may_expand_vm compares the new total with RLIMIT_AS.
Mmap(s, n) ==
    /\ "mmap" \in Event
    /\ tstate[s] = "live"
    /\ vm[tsig[s]] + n <= rlim[tsig[s]].cur \div PageSize
    /\ vm[tsig[s]] + n <= MaxPages
    /\ vm' = [vm EXCEPT ![tsig[s]] = @ + n]
    /\ UNCHANGED <<tstate, tpid, tsig, usage, rlim>>

Munmap(s, n) ==
    /\ "mmap" \in Event
    /\ tstate[s] = "live" /\ vm[tsig[s]] >= n
    /\ vm' = [vm EXCEPT ![tsig[s]] = @ - n]
    /\ UNCHANGED <<tstate, tpid, tsig, usage, rlim>>

\* setrlimit(RLIMIT_AS): do_prlimit on the caller itself.
Setrlimit(s, new, capResource) ==
    /\ "setrlimit" \in Event
    /\ tstate[s] = "live"
    /\ \E ret \in {"OK", "EINVAL", "EPERM", "EACCES"} :
           DoPrlimit(tsig[s], new, capResource, ret)
    /\ UNCHANGED <<tstate, tpid, tsig, usage, vm>>

TasksNext ==
    \E s \in Slot :
        \/ \E n \in Slot, p \in Pid : Fork(s, n, p) \/ CloneThread(s, n, p)
        \/ Exit(s)
        \/ Release(s)
        \/ PutTaskStruct(s)
        \/ Mmap(s, 1) \/ Munmap(s, 1)
        \/ \E new \in [cur : UserLimit, max : UserLimit], capResource \in BOOLEAN :
               Setrlimit(s, new, capResource)
============================================================================
