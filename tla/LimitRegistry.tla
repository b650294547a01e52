--------------------------- MODULE LimitRegistry ---------------------------
(***************************************************************************)
(* What the memory limiter promises its callers: a table of at most one    *)
(* limit per pid, changed in one step together with the answer of the call *)
(* that asked for it.  Allocation, links and task pointers are not seen.   *)
(***************************************************************************)
EXTENDS Integers

CONSTANTS
    Client,   \* who calls
    Request,  \* arguments: records with a pid and a limit
    NoRequest,
    Failure   \* answers of a call that leaves the table alone

VARIABLES
    table,   \* the set of [pid, limit] pairs
    op,      \* op[c]: "none", the call c is in, or "dead"
    asked,   \* asked[c]: its arguments
    answer   \* answer[c]: what the last call of c answered

registryVars == <<table, op, asked, answer>>

RegistryInit ==
    /\ table = {}
    /\ op = [c \in Client |-> "none"]
    /\ asked = [c \in Client |-> NoRequest]
    /\ answer = [c \in Client |-> "none"]

Registered(p) == {e \in table : e.pid = p}

Answer(c, r) ==
    /\ op' = [op EXCEPT ![c] = "none"]
    /\ asked' = [asked EXCEPT ![c] = NoRequest]
    /\ answer' = [answer EXCEPT ![c] = r]

Call(c, o, a) ==
    /\ op[c] = "none"
    /\ op' = [op EXCEPT ![c] = o]
    /\ asked' = [asked EXCEPT ![c] = a]
    /\ answer' = [answer EXCEPT ![c] = "none"]
    /\ UNCHANGED table

\* The arguments or the capabilities are refused before the call begins.
Refuse(c, r) == op[c] = "none" /\ Answer(c, r) /\ UNCHANGED table

Entry(c) == [pid |-> asked[c].pid, limit |-> asked[c].limit]

Added(c) ==
    /\ op[c] = "add" /\ Registered(asked[c].pid) = {}
    /\ table' = table \cup {Entry(c)}
    /\ Answer(c, "OK")

Taken(c) ==
    /\ op[c] = "add" /\ Registered(asked[c].pid) # {}
    /\ Answer(c, "E101")
    /\ UNCHANGED table

Updated(c) ==
    /\ op[c] = "update" /\ Registered(asked[c].pid) # {}
    /\ table' = (table \ Registered(asked[c].pid)) \cup {Entry(c)}
    /\ Answer(c, "OK")

Removed(c) ==
    /\ op[c] = "remove" /\ Registered(asked[c].pid) # {}
    /\ table' = table \ Registered(asked[c].pid)
    /\ Answer(c, "OK")

Missing(c) ==
    /\ op[c] \in {"update", "remove"} /\ Registered(asked[c].pid) = {}
    /\ Answer(c, "E102")
    /\ UNCHANGED table

Failed(c, r) == op[c] \in {"add", "update", "remove"} /\ Answer(c, r) /\ UNCHANGED table

Dies(c) ==
    /\ op[c] \in {"add", "update", "remove"}
    /\ op' = [op EXCEPT ![c] = "dead"]
    /\ UNCHANGED <<table, asked, answer>>

RegistryNext ==
    \E c \in Client :
        \/ \E o \in {"add", "update", "remove"}, a \in Request : Call(c, o, a)
        \/ \E r \in Failure : Refuse(c, r) \/ Failed(c, r)
        \/ Added(c) \/ Taken(c) \/ Updated(c) \/ Removed(c) \/ Missing(c)
        \/ Dies(c)

RegistrySpec == RegistryInit /\ [][RegistryNext]_registryVars
============================================================================
