---------------------------- MODULE MemoryLimit ----------------------------
(***************************************************************************)
(* The memory limiter: the system calls luis_add_memory_limit,             *)
(* luis_update_memory_limit and luis_remove_memory_limit over the list     *)
(* memory_limitation_head, which no lock protects.                         *)
(*                                                                         *)
(* A call is a sequence of steps; between two steps other callers, other   *)
(* processes and prlimit64 run.  One step is one look-up, one allocation,  *)
(* one do_prlimit or one change of the list.  The list is the sequence of  *)
(* its nodes, head first, and list_add and list_del are single steps: that *)
(* is exact while one caller at a time is inside the limiter (Serial), and *)
(* for several callers it keeps a subset of what the hardware allows.      *)
(***************************************************************************)
EXTENDS Prlimit, Sequences, SequencesExt

CONSTANTS
    Caller,       \* threads that call the limiter
    Node,         \* objects kmalloc hands out for list nodes
    NoNode,       \* a NULL node pointer
    NoArg,        \* the arguments of a caller that is in no call
    ArgPid,       \* pid arguments, invalid ones included
    ArgLimit,     \* memory_limit arguments, 0 included
    RemoveLimit   \* 110 * 1024 * 1024

\* process_pid and memory_limit; cap: the caller has CAP_SYS_RESOURCE.
Arg == [pid : ArgPid, limit : ArgLimit \cup {RemoveLimit}, cap : BOOLEAN]

ASSUME MemoryLimitAssumption ==
    /\ NoNode \notin Node /\ NoArg \notin Arg
    /\ ArgPid \subseteq Int /\ ArgPid # {}
    /\ ArgLimit \subseteq Nat
    /\ RemoveLimit \in Nat \ {0}

VARIABLES
    list,    \* memory_limitation_head: the nodes, first to last
    heap,    \* the nodes that are allocated
    npid,    \* npid[n]: entry->node.pid
    nlimit,  \* nlimit[n]: entry->node.memory_limit
    pc,      \* pc[c]: the next step of caller c
    arg,     \* arg[c]: its arguments
    task,    \* task[c]: its local task
    node,    \* node[c]: its local node or new_entry
    ret      \* ret[c]: what its last call returned, "none" inside a call

listVars == <<list, heap, npid, nlimit>>
callVars == <<pc, arg, task, node, ret>>
limiterVars == <<listVars, callVars>>
vars == <<limitsVars, limiterVars>>

AddPC == {"add_task", "add_node", "add_usage", "add_set", "add_again", "add_alloc",
          "add_link"}
UpdatePC == {"upd_task", "upd_node", "upd_usage", "upd_set", "upd_store"}
RemovePC == {"rem_task", "rem_node", "rem_set", "rem_del"}

\* A caller killed by a kernel oops stays at "oops".
PC == {"idle", "oops"} \cup AddPC \cup UpdatePC \cup RemovePC

\* E101, E100 and E102 stand for -101, -100 and -102.
Ret == {"none", "OK", "EPERM", "EINVAL", "ESRCH", "E101", "E100", "E102", "ENOMEM",
        "EACCES"}

LimiterTypeOK ==
    /\ list \in Seq(Node) /\ heap \subseteq Node
    /\ npid \in [Node -> ArgPid] /\ nlimit \in [Node -> Nat]
    /\ pc \in [Caller -> PC]
    /\ arg \in [Caller -> Arg \cup {NoArg}]
    /\ task \in [Caller -> Slot \cup {NoTask}]
    /\ node \in [Caller -> Node \cup {NoNode}]
    /\ ret \in [Caller -> Ret]

TypeOK == LimitsTypeOK /\ LimiterTypeOK

Init ==
    /\ LimitsInit
    /\ list = <<>> /\ heap = {}
    /\ npid = [n \in Node |-> CHOOSE p \in ArgPid : TRUE]
    /\ nlimit = [n \in Node |-> RemoveLimit]
    /\ pc = [c \in Caller |-> "idle"] /\ ret = [c \in Caller |-> "none"]
    /\ arg = [c \in Caller |-> NoArg]
    /\ task = [c \in Caller |-> NoTask] /\ node = [c \in Caller |-> NoNode]

----------------------------------------------------------------------------
Goto(c, label) ==
    /\ pc' = [pc EXCEPT ![c] = label]
    /\ UNCHANGED ret

Return(c, r) ==
    /\ pc' = [pc EXCEPT ![c] = "idle"]
    /\ ret' = [ret EXCEPT ![c] = r]
    /\ arg' = [arg EXCEPT ![c] = NoArg]
    /\ task' = [task EXCEPT ![c] = NoTask]
    /\ node' = [node EXCEPT ![c] = NoNode]

\* A slip: the search starts behind the first entry.
FindNodeByPidSkip(p, n) ==
    \/ n = NoNode /\ \A i \in DOMAIN list \ {1} : npid[list[i]] # p
    \/ \E i \in DOMAIN list \ {1} :
        n = list[i] /\ npid[n] = p /\ \A j \in 2..(i - 1) : npid[list[j]] # p

\* find_node_by_pid(p) returns n.
FindNodeByPid(p, n) ==
    \/ n = NoNode /\ \A i \in DOMAIN list : npid[list[i]] # p
    \/ \E i \in DOMAIN list :
        n = list[i] /\ npid[n] = p /\ \A j \in 1..(i - 1) : npid[list[j]] # p

\* get_process_memory_usage: a task that has exited has no mm.
GetProcessMemoryUsage(s) == IF tstate[s] = "live" THEN vm[tsig[s]] * PageSize ELSE 0

\* set_process_memory_limit: soft and hard limit alike, through do_prlimit.
SetProcessMemoryLimit(c, limit, r) ==
    /\ DoPrlimit(tsig[task[c]], [cur |-> limit, max |-> limit], arg[c].cap, r)
    /\ UNCHANGED <<tstate, tpid, tsig, usage, vm, prVars>>

\* The capability and argument checks at the head of each call.
Enter(c, a, admin, valid, label) ==
    /\ pc[c] = "idle"
    /\ \/ ~admin /\ Return(c, "EPERM")
       \/ admin /\ ~valid /\ Return(c, "EINVAL")
       \/ /\ admin /\ valid
          /\ arg' = [arg EXCEPT ![c] = a]
          /\ pc' = [pc EXCEPT ![c] = label]
          /\ ret' = [ret EXCEPT ![c] = "none"]
          /\ UNCHANGED <<task, node>>
    /\ UNCHANGED <<limitsVars, listVars>>

\* A slip: the call waits for the process instead of failing.
NoSuchTaskWaits(c) == FALSE

NoSuchTask(c) == PidUnused(arg[c].pid) /\ Return(c, "ESRCH")

FindTask(c, label) ==
    /\ \/ NoSuchTask(c)
       \/ \E s \in FindTaskByVpid(arg[c].pid) :
            /\ task' = [task EXCEPT ![c] = s]
            /\ Goto(c, label)
            /\ UNCHANGED <<arg, node>>
    /\ UNCHANGED <<limitsVars, listVars>>

CheckUsage(c, label) ==
    /\ IF GetProcessMemoryUsage(task[c]) > arg[c].limit
       THEN Return(c, "E100")
       ELSE Goto(c, label) /\ UNCHANGED <<arg, task, node>>
    /\ UNCHANGED <<limitsVars, listVars>>

SetLimit(c, label) ==
    /\ \E r \in {"OK", "EINVAL", "EPERM", "EACCES"} :
        /\ SetProcessMemoryLimit(c, arg[c].limit, r)
        /\ IF r = "OK"
           THEN Goto(c, label) /\ UNCHANGED <<arg, task, node>>
           ELSE Return(c, r)
    /\ UNCHANGED listVars

\* A slip: the loop variable is used without a match, the first entry of any list.
FindExistingAny(c, label) ==
    /\ IF list = <<>>
       THEN Return(c, "E102")
       ELSE /\ node' = [node EXCEPT ![c] = list[1]]
            /\ Goto(c, label)
            /\ UNCHANGED <<arg, task>>
    /\ UNCHANGED <<limitsVars, listVars>>

\* The look-up of a node that must already be there.
FindExisting(c, label) ==
    /\ \E n \in Node \cup {NoNode} :
        /\ FindNodeByPid(arg[c].pid, n)
        /\ IF n = NoNode
           THEN Return(c, "E102")
           ELSE /\ node' = [node EXCEPT ![c] = n]
                /\ Goto(c, label)
                /\ UNCHANGED <<arg, task>>
    /\ UNCHANGED <<limitsVars, listVars>>

\* The look-up of a node that must not be there.
FindNone(c, label) ==
    /\ \E n \in Node \cup {NoNode} :
        /\ FindNodeByPid(arg[c].pid, n)
        /\ IF n # NoNode
           THEN Return(c, "E101")
           ELSE Goto(c, label) /\ UNCHANGED <<arg, task, node>>
    /\ UNCHANGED <<limitsVars, listVars>>

----------------------------------------------------------------------------
(* luis_add_memory_limit *)

AddEnter(c, p, limit, capResource, admin) ==
    Enter(c, [pid |-> p, limit |-> limit, cap |-> capResource], admin,
          p > 0 /\ limit > 0, "add_task")

AddTask(c) == pc[c] = "add_task" /\ FindTask(c, "add_node")

\* A slip: the look-up is left to add_memory_limitation_node.
AddNodeTrusting(c) ==
    /\ pc[c] = "add_node"
    /\ Goto(c, "add_usage")
    /\ UNCHANGED <<limitsVars, listVars, arg, task, node>>

AddNode(c) == pc[c] = "add_node" /\ FindNone(c, "add_usage")

AddUsage(c) == pc[c] = "add_usage" /\ CheckUsage(c, "add_set")

AddSet(c) == pc[c] = "add_set" /\ SetLimit(c, "add_again")

\* add_memory_limitation_node looks the pid up a second time; the new limit is
\* already in force and stays so when this or the allocation fails.
AddAgain(c) == pc[c] = "add_again" /\ FindNone(c, "add_alloc")

\* A slip: the result of kmalloc is not checked.
NoMemoryUnchecked(c) == Goto(c, "add_link") /\ UNCHANGED <<heap, arg, task, node>>

NoMemory(c) == Return(c, "ENOMEM") /\ UNCHANGED heap

\* kmalloc(GFP_KERNEL), which may sleep and may fail.
AddAlloc(c) ==
    /\ pc[c] = "add_alloc"
    /\ \/ NoMemory(c)
       \/ \E n \in Node \ heap :
            /\ heap' = heap \cup {n}
            /\ node' = [node EXCEPT ![c] = n]
            /\ Goto(c, "add_link")
            /\ UNCHANGED <<arg, task>>
    /\ UNCHANGED <<limitsVars, list, npid, nlimit>>

\* The new node is filled in and put at the head of the list.
AddLink(c) ==
    /\ pc[c] = "add_link"
    /\ npid' = [npid EXCEPT ![node[c]] = arg[c].pid]
    /\ nlimit' = [nlimit EXCEPT ![node[c]] = arg[c].limit]
    /\ list' = Cons(node[c], list)
    /\ Return(c, "OK")
    /\ UNCHANGED <<limitsVars, heap>>

----------------------------------------------------------------------------
(* luis_update_memory_limit *)

UpdateEnter(c, p, limit, capResource, admin) ==
    Enter(c, [pid |-> p, limit |-> limit, cap |-> capResource], admin,
          p > 0 /\ limit > 0, "upd_task")

UpdateTask(c) == pc[c] = "upd_task" /\ FindTask(c, "upd_node")

UpdateNode(c) == pc[c] = "upd_node" /\ FindExisting(c, "upd_usage")

UpdateUsage(c) == pc[c] = "upd_usage" /\ CheckUsage(c, "upd_set")

UpdateSet(c) == pc[c] = "upd_set" /\ SetLimit(c, "upd_store")

\* A slip: the limit is changed in force and not in the list.
NewNlimitForgotten(c) == nlimit

NewNlimit(c) == [nlimit EXCEPT ![node[c]] = arg[c].limit]

\* The store goes to the node found earlier, whatever has become of it.
UpdateStore(c) ==
    /\ pc[c] = "upd_store"
    /\ nlimit' = NewNlimit(c)
    /\ Return(c, "OK")
    /\ UNCHANGED <<limitsVars, list, heap, npid>>

----------------------------------------------------------------------------
(* luis_remove_memory_limit *)

RemoveEnter(c, p, capResource, admin) ==
    Enter(c, [pid |-> p, limit |-> RemoveLimit, cap |-> capResource], admin,
          p > 0, "rem_task")

RemoveTask(c) == pc[c] = "rem_task" /\ FindTask(c, "rem_node")

RemoveNode(c) == pc[c] = "rem_node" /\ FindExisting(c, "rem_set")

\* The limit is not lifted but set to RemoveLimit, without a look at the usage.
RemoveSet(c) == pc[c] = "rem_set" /\ SetLimit(c, "rem_del")

\* A slip: kfree is left out.
KfreeForgotten(n) == heap

\* The allocated nodes after kfree(n).
Kfree(n) == heap \ {n}

\* list_del and kfree; unlinking a node twice runs into the list poison.
RemoveDel(c) ==
    /\ pc[c] = "rem_del"
    /\ \/ \E i \in DOMAIN list :
            /\ list[i] = node[c]
            /\ list' = RemoveAt(list, i)
            /\ heap' = Kfree(node[c])
            /\ Return(c, "OK")
       \/ /\ \A i \in DOMAIN list : list[i] # node[c]
          /\ Goto(c, "oops")
          /\ UNCHANGED <<list, heap, arg, task, node>>
    /\ UNCHANGED <<limitsVars, npid, nlimit>>

----------------------------------------------------------------------------
\* The caller follows a task pointer into freed memory: nothing holds a reference
\* on the task.  Either this faults, or (the other steps) the stale or recycled
\* object is used as if it were the task.
Oops(c) ==
    /\ pc[c] \in {"add_usage", "add_set", "upd_usage", "upd_set", "rem_set"}
    /\ tstate[task[c]] = "free"
    /\ Goto(c, "oops")
    /\ UNCHANGED <<limitsVars, listVars, arg, task, node>>

CallStep(c) ==
    \/ AddTask(c) \/ AddNode(c) \/ AddUsage(c) \/ AddSet(c)
    \/ AddAgain(c) \/ AddAlloc(c) \/ AddLink(c)
    \/ UpdateTask(c) \/ UpdateNode(c) \/ UpdateUsage(c) \/ UpdateSet(c) \/ UpdateStore(c)
    \/ RemoveTask(c) \/ RemoveNode(c) \/ RemoveSet(c) \/ RemoveDel(c)
    \/ Oops(c)

CallEnter(c) ==
    \E p \in ArgPid, capResource, admin \in BOOLEAN :
        \/ \E limit \in ArgLimit :
            \/ AddEnter(c, p, limit, capResource, admin)
            \/ UpdateEnter(c, p, limit, capResource, admin)
        \/ RemoveEnter(c, p, capResource, admin)

Next ==
    \/ \E c \in Caller : CallEnter(c) \/ CallStep(c)
    \/ LimitsNext /\ UNCHANGED limiterVars

Spec == Init /\ [][Next]_vars

\* At most one caller is inside the limiter.  The code has no lock that ensures
\* it: it is what a single administration tool gives.
InCall(c) == pc[c] \notin {"idle", "oops"}

Serial == \A c, d \in Caller : InCall(c) /\ InCall(d) => c = d

SerialSpec == Init /\ [][Next /\ Serial']_vars

SerialFair == SerialSpec /\ \A c \in Caller : WF_vars(CallStep(c) /\ Serial')

----------------------------------------------------------------------------
\* The limiter as a table from pids to limits: its entries, and the call a label
\* belongs to.
Table == {[pid |-> npid[n], limit |-> nlimit[n]] : n \in Range(list)}

OpOf(label) ==
    IF label \in AddPC THEN "add"
    ELSE IF label \in UpdatePC THEN "update"
    ELSE IF label \in RemovePC THEN "remove"
    ELSE IF label = "oops" THEN "dead" ELSE "none"

Registry == INSTANCE LimitRegistry WITH
    Client <- Caller, Request <- Arg, NoRequest <- NoArg,
    Failure <- {"EPERM", "EINVAL", "ESRCH", "E100", "ENOMEM", "EACCES"},
    table <- Table, op <- [c \in Caller |-> OpOf(pc[c])], asked <- arg, answer <- ret

\* Used one caller at a time, the limiter is that table: every answer is given in
\* the step that changes the list, and -101 and -102 tell the truth about it.
ImplementsRegistry == Registry!RegistrySpec

\* No pid has two nodes: the two look-ups of luis_add_memory_limit are there
\* "para evitar duplicados".
NoDuplicates ==
    \A i, j \in DOMAIN list : npid[list[i]] = npid[list[j]] => i = j

\* Every node is freed exactly when it leaves the list: the allocated nodes are
\* those of the list and the one an add is about to link.
NodesAccountedFor ==
    /\ heap = {list[i] : i \in DOMAIN list}
              \cup {node[c] : c \in {d \in Caller : pc[d] = "add_link"}}
    /\ \A c \in Caller : pc[c] = "add_link" => \A i \in DOMAIN list : list[i] # node[c]

\* The node an update or a remove found is still the node of that pid in the list
\* when the call comes to write or unlink it.
FoundNodeStays ==
    \A c \in Caller :
        pc[c] \in {"upd_usage", "upd_set", "upd_store", "rem_set", "rem_del"} =>
            \E i \in DOMAIN list : list[i] = node[c] /\ npid[node[c]] = arg[c].pid

\* The list tells the truth about a process that only forks and maps memory: its
\* RLIMIT_AS is the limit of its node, soft and hard, except while an update or a
\* remove of that pid has set the one and not yet the other.
RegisteredIsEnforced ==
    \A i \in DOMAIN list : \A s \in FindTaskByVpid(npid[list[i]]) :
        \/ rlim[tsig[s]] = [cur |-> nlimit[list[i]], max |-> nlimit[list[i]]]
        \/ \E c \in Caller : pc[c] \in {"upd_store", "rem_del"} /\ node[c] = list[i]

\* Once a call has changed the limit it ends in success, or in -ENOMEM when the
\* node cannot be allocated: it never reports that the pid was already there.
ChangedMeansDone ==
    [][\A c \in Caller :
           pc[c] \in {"add_again", "add_alloc", "add_link", "upd_store", "rem_del"}
           /\ pc'[c] = "idle" => ret'[c] \in {"OK", "ENOMEM"}]_vars

\* Every call returns, or its caller has died of a stale task pointer.
CallsReturn == \A c \in Caller : InCall(c) ~> ~InCall(c)

----------------------------------------------------------------------------
(* What comments and documents say of the limiter and the code does not keep. *)

\* do_prlimit's caller holds a reference: "Holding a refcount on tsk protects
\* tsk->signal from disappearing" (sys.c).  The limiter takes none.
TaskStaysForPrlimit ==
    \A c \in Caller :
        pc[c] \in {"add_set", "upd_set", "rem_set"} => tstate[task[c]] # "free"

\* A limit is never set below what the process already uses: luis_add_memory_limit
\* answers -100 instead.
LimitCoversUsage ==
    [][\A c \in Caller :
           pc[c] = "add_set" /\ pc'[c] = "add_again" =>
               GetProcessMemoryUsage(task[c]) <= arg[c].limit]_vars
============================================================================
