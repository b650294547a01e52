-------------------------- MODULE RegistryProofs --------------------------
(***************************************************************************)
(* The limiter, used one caller at a time, implements LimitRegistry: every *)
(* step of SerialSpec is a step of the table or leaves it alone.           *)
(***************************************************************************)
EXTENDS MemoryLimitProofs

Op == [c \in Caller |-> OpOf(pc[c])]

\* list_add puts one node into the list.
LEMMA ConsRange ==
    ASSUME NEW S, NEW s \in Seq(S), NEW e \in S PROVE Range(Cons(e, s)) = Range(s) \cup {e}
<1>1. /\ Cons(e, s) \in Seq(S) /\ Len(Cons(e, s)) = Len(s) + 1 /\ Cons(e, s)[1] = e
      /\ \A i \in 1..Len(s) : Cons(e, s)[i + 1] = s[i]
  BY ConsFacts
<1>2. DOMAIN s = 1..Len(s) /\ DOMAIN Cons(e, s) = 1..(Len(s) + 1) /\ Len(s) \in Nat
  BY <1>1
<1>3. ASSUME NEW i \in DOMAIN Cons(e, s) PROVE Cons(e, s)[i] \in Range(s) \cup {e}
  <2>1. CASE i = 1
    BY <1>1, <2>1
  <2>2. CASE i # 1
    <3>1. i - 1 \in 1..Len(s) /\ (i - 1) + 1 = i
      BY <1>2, <2>2
    <3>2. Cons(e, s)[i] = s[i - 1]
      BY <1>1, <3>1
    <3>3. QED
      BY <1>2, <3>1, <3>2 DEF Range
  <2>3. QED
    BY <2>1, <2>2
<1>4. ASSUME NEW i \in DOMAIN s PROVE s[i] \in Range(Cons(e, s))
  <2>1. i + 1 \in DOMAIN Cons(e, s) /\ Cons(e, s)[i + 1] = s[i]
    BY <1>1, <1>2
  <2>2. QED
    BY <2>1 DEF Range
<1>5. e \in Range(Cons(e, s))
  BY <1>1, <1>2 DEF Range
<1>6. Range(Cons(e, s)) \subseteq Range(s) \cup {e}
  BY <1>3 DEF Range
<1>7. Range(s) \cup {e} \subseteq Range(Cons(e, s))
  BY <1>4, <1>5 DEF Range
<1>8. QED
  BY <1>6, <1>7

----------------------------------------------------------------------------
(* How the steps of a call look in the table. *)

\* A step that stays in the same call and leaves list and answer alone is not seen.
LEMMA MoveHidden ==
    ASSUME TypeInv, NEW c \in Caller, NEW label, Goto(c, label), OpOf(label) = OpOf(pc[c]),
           UNCHANGED <<list, npid, nlimit, arg>>
    PROVE  UNCHANGED Registry!registryVars
<1>1. pc \in [Caller -> PC]
  BY DEF TypeInv, LimiterTypeOK
<1>2. \A d \in Caller : OpOf(pc'[d]) = OpOf(pc[d])
  BY <1>1 DEF Goto
<1>3. Op' = Op
  BY <1>2 DEF Op
<1>4. Table' = Table
  BY DEF Table
<1>5. QED
  BY <1>3, <1>4 DEF Op, Goto, Registry!registryVars

\* A return is an answer.
LEMMA ReturnAnswers ==
    ASSUME TypeInv, NEW c \in Caller, NEW r, Return(c, r) PROVE Registry!Answer(c, r)
<1>1. pc \in [Caller -> PC] /\ OpOf("idle") = "none"
  BY DEF TypeInv, LimiterTypeOK, OpOf, AddPC, UpdatePC, RemovePC
<1>2. \A d \in Caller : OpOf(pc'[d]) = IF d = c THEN "none" ELSE OpOf(pc[d])
  BY <1>1 DEF Return
<1>3. Op' = [Op EXCEPT ![c] = "none"]
  BY <1>2 DEF Op
<1>4. QED
  BY <1>3 DEF Op, Return, Registry!Answer

Errors == {"EPERM", "EINVAL", "ESRCH", "E100", "ENOMEM", "EACCES"}

\* A call that ends with one of the other errors leaves the table alone.
LEMMA FailureFails ==
    ASSUME TypeInv, NEW c \in Caller, NEW r \in Errors, Return(c, r), InCall(c),
           UNCHANGED <<list, npid, nlimit>>
    PROVE  Registry!Failed(c, r)
<1>1. Op[c] \in {"add", "update", "remove"}
  BY DEF Op, OpOf, InCall, TypeInv, LimiterTypeOK, PC
<1>2. Table' = Table
  BY DEF Table
<1>3. QED
  BY <1>1, <1>2, ReturnAnswers DEF Op, Registry!Failed

\* A caller killed by an oops dies without an answer.
LEMMA OopsDies ==
    ASSUME TypeInv, NEW c \in Caller, Goto(c, "oops"), InCall(c),
           UNCHANGED <<list, npid, nlimit, arg>>
    PROVE  Registry!Dies(c)
<1>1. Op[c] \in {"add", "update", "remove"}
  BY DEF Op, OpOf, InCall, TypeInv, LimiterTypeOK, PC
<1>2. pc \in [Caller -> PC] /\ OpOf("oops") = "dead"
  BY DEF TypeInv, LimiterTypeOK, OpOf, AddPC, UpdatePC, RemovePC
<1>3. \A d \in Caller : OpOf(pc'[d]) = IF d = c THEN "dead" ELSE OpOf(pc[d])
  BY <1>2 DEF Goto
<1>4. Op' = [Op EXCEPT ![c] = "dead"]
  BY <1>3 DEF Op
<1>5. Table' = Table
  BY DEF Table
<1>6. QED
  BY <1>1, <1>4, <1>5 DEF Op, Goto, Registry!Dies

\* A pid is registered in the table exactly when the list has a node for it.
LEMMA RegisteredPids ==
    ASSUME NEW p
    PROVE  Registry!Registered(p) = {} <=> \A i \in DOMAIN list : npid[list[i]] # p
<1>1. \A i \in DOMAIN list : list[i] \in Range(list)
  BY DEF Range
<1>2. \A n \in Range(list) : \E i \in DOMAIN list : n = list[i]
  BY DEF Range
<1>3. ASSUME NEW i \in DOMAIN list, npid[list[i]] = p PROVE Registry!Registered(p) # {}
  <2>1. [pid |-> npid[list[i]], limit |-> nlimit[list[i]]] \in Table
    BY <1>1 DEF Table
  <2>2. [pid |-> npid[list[i]], limit |-> nlimit[list[i]]] \in Registry!Registered(p)
    BY <1>3, <2>1 DEF Registry!Registered
  <2>3. QED
    BY <2>2
<1>4. ASSUME NEW e \in Registry!Registered(p) PROVE \E i \in DOMAIN list : npid[list[i]] = p
  <2>1. e \in Table /\ e.pid = p
    BY DEF Registry!Registered
  <2>2. PICK n \in Range(list) : e = [pid |-> npid[n], limit |-> nlimit[n]]
    BY <2>1 DEF Table
  <2>3. QED
    BY <1>2, <2>1, <2>2
<1>5. QED
  BY <1>3, <1>4

\* Entering a call is a call of the table or a refusal.
LEMMA EnterRegistry ==
    ASSUME TypeInv, NEW c \in Caller, NEW a \in Arg, NEW admin,
           NEW valid, NEW label \in {"add_task", "upd_task", "rem_task"},
           Enter(c, a, admin, valid, label)
    PROVE  Registry!RegistryNext
<1>1. pc \in [Caller -> PC] /\ Op[c] = "none"
  BY DEF TypeInv, LimiterTypeOK, Enter, Op, OpOf, AddPC, UpdatePC, RemovePC
<1>2. Table' = Table
  BY DEF Enter, listVars, Table
<1>3. ASSUME NEW r \in Errors, Return(c, r) PROVE Registry!RegistryNext
  <2>1. Registry!Refuse(c, r)
    BY <1>1, <1>2, <1>3, ReturnAnswers DEF Op, Registry!Refuse
  <2>2. QED
    BY <2>1 DEF Registry!RegistryNext, Errors
<1>4. ASSUME arg' = [arg EXCEPT ![c] = a], pc' = [pc EXCEPT ![c] = label],
             ret' = [ret EXCEPT ![c] = "none"]
      PROVE  Registry!RegistryNext
  <2>1. PICK o \in {"add", "update", "remove"} : OpOf(label) = o
    BY DEF OpOf, AddPC, UpdatePC, RemovePC
  <2>2. \A d \in Caller : OpOf(pc'[d]) = IF d = c THEN o ELSE OpOf(pc[d])
    BY <1>1, <1>4, <2>1
  <2>3. Op' = [Op EXCEPT ![c] = o]
    BY <2>2 DEF Op
  <2>4. Registry!Call(c, o, a)
    BY <1>1, <1>2, <1>4, <2>3 DEF Op, Registry!Call
  <2>5. QED
    BY <2>4 DEF Registry!RegistryNext
<1>5. QED
  BY <1>3, <1>4 DEF Enter, Errors

\* Looking up the task is not seen, or fails the call.
LEMMA FindTaskRegistry ==
    ASSUME TypeInv, NEW c \in Caller, NEW label, FindTask(c, label), InCall(c),
           OpOf(label) = OpOf(pc[c])
    PROVE  Registry!RegistryNext \/ UNCHANGED Registry!registryVars
<1>1. UNCHANGED <<list, npid, nlimit>>
  BY DEF FindTask, listVars
<1>2. CASE Return(c, "ESRCH")
  BY <1>1, <1>2, FailureFails DEF Errors, Registry!RegistryNext
<1>3. CASE Goto(c, label) /\ UNCHANGED arg
  BY <1>1, <1>3, MoveHidden
<1>4. QED
  BY <1>2, <1>3 DEF FindTask, NoSuchTask

\* Checking the usage is not seen, or fails the call.
LEMMA CheckUsageRegistry ==
    ASSUME TypeInv, NEW c \in Caller, NEW label, CheckUsage(c, label), InCall(c),
           OpOf(label) = OpOf(pc[c])
    PROVE  Registry!RegistryNext \/ UNCHANGED Registry!registryVars
<1>1. UNCHANGED <<list, npid, nlimit>>
  BY DEF CheckUsage, listVars
<1>2. CASE Return(c, "E100")
  BY <1>1, <1>2, FailureFails DEF Errors, Registry!RegistryNext
<1>3. CASE Goto(c, label) /\ UNCHANGED arg
  BY <1>1, <1>3, MoveHidden
<1>4. QED
  BY <1>2, <1>3 DEF CheckUsage

\* Setting the limit is not seen in the table, or fails the call.
LEMMA SetLimitRegistry ==
    ASSUME TypeInv, NEW c \in Caller, NEW label, SetLimit(c, label), InCall(c),
           OpOf(label) = OpOf(pc[c])
    PROVE  Registry!RegistryNext \/ UNCHANGED Registry!registryVars
<1>1. UNCHANGED <<list, npid, nlimit>>
  BY DEF SetLimit, listVars
<1>2. ASSUME NEW r \in Errors, Return(c, r) PROVE Registry!RegistryNext
  BY <1>1, <1>2, FailureFails DEF Errors, Registry!RegistryNext
<1>3. CASE Goto(c, label) /\ UNCHANGED arg
  BY <1>1, <1>3, MoveHidden
<1>4. (Goto(c, label) /\ UNCHANGED arg) \/ \E r \in Errors : Return(c, r)
  BY DEF SetLimit, Errors
<1>5. QED
  BY <1>2, <1>3, <1>4

\* -101 is answered exactly when the pid is in the table.
LEMMA FindNoneRegistry ==
    ASSUME TypeInv, NEW c \in Caller, NEW label, FindNone(c, label), pc[c] \in AddPC,
           OpOf(label) = OpOf(pc[c])
    PROVE  Registry!RegistryNext \/ UNCHANGED Registry!registryVars
<1>1. UNCHANGED <<list, npid, nlimit>>
  BY DEF FindNone, listVars
<1>2. PICK n \in Node \cup {NoNode} :
          /\ FindNodeByPid(arg[c].pid, n)
          /\ IF n # NoNode THEN Return(c, "E101")
             ELSE Goto(c, label) /\ UNCHANGED <<arg, task, node>>
  BY DEF FindNone
<1>3. CASE n # NoNode
  <2>1. \E i \in DOMAIN list : npid[list[i]] = arg[c].pid
    BY <1>2, <1>3 DEF FindNodeByPid
  <2>2. Registry!Registered(arg[c].pid) # {}
    BY <2>1, RegisteredPids
  <2>3. Op[c] = "add"
    BY DEF Op, OpOf
  <2>4. Table' = Table
    BY <1>1 DEF Table
  <2>5. Registry!Taken(c)
    BY <1>2, <1>3, <2>2, <2>3, <2>4, ReturnAnswers DEF Op, Registry!Taken
  <2>6. QED
    BY <2>5 DEF Registry!RegistryNext
<1>4. CASE n = NoNode
  BY <1>1, <1>2, <1>4, MoveHidden
<1>5. QED
  BY <1>3, <1>4

\* -102 is answered exactly when the pid is not in the table.
LEMMA FindExistingRegistry ==
    ASSUME TypeInv, NEW c \in Caller, NEW label, FindExisting(c, label),
           pc[c] \in {"upd_node", "rem_node"}, OpOf(label) = OpOf(pc[c])
    PROVE  Registry!RegistryNext \/ UNCHANGED Registry!registryVars
<1>1. UNCHANGED <<list, npid, nlimit>>
  BY DEF FindExisting, listVars
<1>2. PICK n \in Node \cup {NoNode} :
          /\ FindNodeByPid(arg[c].pid, n)
          /\ IF n = NoNode THEN Return(c, "E102")
             ELSE Goto(c, label) /\ UNCHANGED <<arg, task>>
  BY DEF FindExisting
<1>3. CASE n = NoNode
  <2>0. list \in Seq(Node)
    BY DEF TypeInv, LimiterTypeOK
  <2>1. \A i \in DOMAIN list : npid[list[i]] # arg[c].pid
    BY <1>2, <1>3, <2>0, MemoryLimitAssumption, SMTT(40) DEF FindNodeByPid
  <2>2. Registry!Registered(arg[c].pid) = {}
    BY <2>1, RegisteredPids
  <2>3. Op[c] \in {"update", "remove"}
    BY DEF Op, OpOf, AddPC, UpdatePC, RemovePC
  <2>4. Table' = Table
    BY <1>1 DEF Table
  <2>5. Registry!Missing(c)
    BY <1>2, <1>3, <2>2, <2>3, <2>4, ReturnAnswers DEF Op, Registry!Missing
  <2>6. QED
    BY <2>5 DEF Registry!RegistryNext
<1>4. CASE n # NoNode
  BY <1>1, <1>2, <1>4, MoveHidden
<1>5. QED
  BY <1>3, <1>4

\* Allocating a node is not seen, or fails the call.
LEMMA AddAllocRegistry ==
    ASSUME TypeInv, NEW c \in Caller, AddAlloc(c)
    PROVE  Registry!RegistryNext \/ UNCHANGED Registry!registryVars
<1>1. UNCHANGED <<list, npid, nlimit>> /\ pc[c] = "add_alloc" /\ InCall(c)
  BY DEF AddAlloc, InCall
<1>2. CASE Return(c, "ENOMEM")
  BY <1>1, <1>2, FailureFails DEF Errors, Registry!RegistryNext
<1>3. CASE Goto(c, "add_link") /\ UNCHANGED arg
  <2>1. OpOf("add_link") = OpOf(pc[c])
    BY <1>1 DEF OpOf, AddPC
  <2>2. QED
    BY <1>1, <1>3, <2>1, MoveHidden
<1>4. QED
  BY <1>2, <1>3 DEF AddAlloc, NoMemory

\* The record a node stands for.
Rec(n) == [pid |-> npid[n], limit |-> nlimit[n]]

\* Linking the node adds the entry and answers 0.
LEMMA AddLinkRegistry ==
    ASSUME SerialInv, NEW c \in Caller, AddLink(c) PROVE Registry!Added(c)
<1> USE DEF SerialInv
<1>1. PICK n \in Node : n = node[c]
  BY DEF AddLink, TypeInv, LocalsSet, NodePC
<1>2. pc[c] = "add_link" /\ list \in Seq(Node) /\ list' = Cons(n, list)
  BY <1>1 DEF AddLink, TypeInv, LimiterTypeOK
<1>3. Range(list') = Range(list) \cup {n}
  BY <1>2, ConsRange
<1>4. \A m \in Range(list) : m \in Node \ {n}
  BY <1>1, <1>2 DEF Range, ListInv, NodesAccountedFor
<1>5. /\ npid'[n] = arg[c].pid /\ nlimit'[n] = arg[c].limit
      /\ \A m \in Node \ {n} : npid'[m] = npid[m] /\ nlimit'[m] = nlimit[m]
  BY <1>1 DEF AddLink, TypeInv, LimiterTypeOK
<1>6. Table' = {Rec(m)' : m \in Range(list')}
  BY DEF Table, Rec
<1>7. \A m \in Range(list) : Rec(m)' = Rec(m)
  BY <1>4, <1>5 DEF Rec
<1>8. Rec(n)' = Registry!Entry(c)
  BY <1>5 DEF Rec, Registry!Entry
<1>9. Table' = Table \cup {Registry!Entry(c)}
  BY <1>3, <1>6, <1>7, <1>8 DEF Table, Rec
<1>10. Registry!Registered(arg[c].pid) = {}
  BY <1>2, RegisteredPids DEF ListInv, AddStillAbsent, AbsentPC
<1>11. Op[c] = "add"
  BY <1>2 DEF Op, OpOf, AddPC
<1>12. Registry!Answer(c, "OK")
  BY ReturnAnswers DEF AddLink
<1>13. QED
  BY <1>9, <1>10, <1>11, <1>12 DEF Op, Registry!Added

\* The entries of a pid in the table are the record of its one node.
LEMMA OneRecord ==
    ASSUME SerialInv, NEW c \in Caller, pc[c] \in {"upd_store", "rem_del"}
    PROVE  /\ node[c] \in Range(list)
           /\ Registry!Registered(arg[c].pid) = {Rec(node[c])}
           /\ \A m \in Range(list) : m # node[c] => npid[m] # arg[c].pid
<1>1. PICK i \in DOMAIN list : list[i] = node[c] /\ npid[node[c]] = arg[c].pid
  BY DEF SerialInv, ListInv, FoundNodeStays
<1>2. \A m \in Range(list) : m # node[c] => npid[m] # arg[c].pid
  BY <1>1 DEF SerialInv, ListInv, NoDuplicates, Range
<1>3. node[c] \in Range(list)
  BY <1>1 DEF Range
<1>4. \A e \in Table : e.pid = arg[c].pid <=> e = Rec(node[c])
  <2> SUFFICES ASSUME NEW m \in Range(list)
               PROVE  Rec(m).pid = arg[c].pid <=> Rec(m) = Rec(node[c])
    BY DEF Table, Rec
  <2>1. CASE m = node[c]
    BY <1>1, <2>1 DEF Rec
  <2>2. CASE m # node[c]
    <3>1. Rec(m).pid # Rec(node[c]).pid /\ Rec(m).pid # arg[c].pid
      BY <1>1, <1>2, <2>2 DEF Rec
    <3>2. QED
      BY <3>1
  <2>3. QED
    BY <2>1, <2>2
<1>5. Rec(node[c]) \in Table
  BY <1>3 DEF Table, Rec
<1>6. QED
  BY <1>2, <1>3, <1>4, <1>5 DEF Registry!Registered

\* Storing the limit changes the entry and answers 0.
LEMMA UpdateStoreRegistry ==
    ASSUME SerialInv, NEW c \in Caller, UpdateStore(c) PROVE Registry!Updated(c)
<1> USE DEF SerialInv
<1>1. pc[c] = "upd_store" /\ UNCHANGED <<list, npid>>
  BY DEF UpdateStore
<1>2. PICK n \in Node : n = node[c]
  BY DEF UpdateStore, TypeInv, LocalsSet, NodePC
<1>3. nlimit'[n] = arg[c].limit /\ \A m \in Node \ {n} : nlimit'[m] = nlimit[m]
  BY <1>2 DEF UpdateStore, NewNlimit, TypeInv, LimiterTypeOK
<1>4. /\ n \in Range(list)
      /\ Registry!Registered(arg[c].pid) = {Rec(n)}
      /\ \A m \in Range(list) : m # n => npid[m] # arg[c].pid
  BY <1>1, <1>2, OneRecord
<1>5. Range(list) \subseteq Node
  BY DEF TypeInv, LimiterTypeOK, Range
<1>6. npid[n] = arg[c].pid
  BY <1>1, <1>2 DEF ListInv, FoundNodeStays
<1>7. Rec(n)' = Registry!Entry(c)
  BY <1>1, <1>3, <1>6 DEF Rec, Registry!Entry
<1>8. \A m \in Range(list) \ {n} : Rec(m)' = Rec(m) /\ Rec(m) # Rec(n)
  <2> TAKE m \in Range(list) \ {n}
  <2>1. Rec(m)' = Rec(m)
    BY <1>1, <1>3, <1>5 DEF Rec
  <2>2. Rec(m).pid # Rec(n).pid
    BY <1>4, <1>6 DEF Rec
  <2>3. QED
    BY <2>1, <2>2
<1>9. Table' = {Rec(m)' : m \in Range(list)} /\ Table = {Rec(m) : m \in Range(list)}
  BY <1>1 DEF Table, Rec
<1>10. Table' = (Table \ {Rec(n)}) \cup {Registry!Entry(c)}
  BY <1>4, <1>7, <1>8, <1>9
<1>11. Op[c] = "update"
  BY <1>1 DEF Op, OpOf, AddPC, UpdatePC
<1>12. Registry!Answer(c, "OK")
  BY ReturnAnswers DEF UpdateStore
<1>13. QED
  BY <1>4, <1>10, <1>11, <1>12 DEF Op, Registry!Updated

\* Unlinking the node removes the entry and answers 0.
LEMMA RemoveDelRegistry ==
    ASSUME SerialInv, NEW c \in Caller, RemoveDel(c) PROVE Registry!Removed(c)
<1> USE DEF SerialInv
<1>1. pc[c] = "rem_del" /\ UNCHANGED <<npid, nlimit>>
  BY DEF RemoveDel
<1>2. PICK i \in DOMAIN list : /\ list[i] = node[c] /\ list' = RemoveAt(list, i)
                               /\ Return(c, "OK")
  BY <1>1 DEF RemoveDel, ListInv, FoundNodeStays
<1>3. list \in Seq(Node) /\ DOMAIN list = 1..Len(list) /\ i \in 1..Len(list)
  BY DEF TypeInv, LimiterTypeOK
<1>4. Range(list') = Range(list) \ {node[c]}
  <2>1. \A j, k \in 1..Len(list) : list[j] = list[k] => j = k
    BY <1>3 DEF ListInv, NoDuplicates
  <2>2. DOMAIN list' = 1..(Len(list) - 1)
    BY <1>2, <1>3, RemoveAtFacts
  <2>3. {RemoveAt(list, i)[j] : j \in 1..(Len(list) - 1)}
            = {list[j] : j \in 1..Len(list)} \ {list[i]}
    BY <1>3, <2>1, RemoveAtRange
  <2>4. QED
    BY <1>2, <1>3, <2>2, <2>3 DEF Range
<1>5. /\ node[c] \in Range(list)
      /\ Registry!Registered(arg[c].pid) = {Rec(node[c])}
      /\ \A m \in Range(list) : m # node[c] => npid[m] # arg[c].pid
  BY <1>1, OneRecord
<1>6. npid[node[c]] = arg[c].pid
  BY <1>1 DEF ListInv, FoundNodeStays
<1>7. \A m \in Range(list) \ {node[c]} : Rec(m) # Rec(node[c])
  <2> TAKE m \in Range(list) \ {node[c]}
  <2>1. Rec(m).pid # Rec(node[c]).pid
    BY <1>5, <1>6 DEF Rec
  <2>2. QED
    BY <2>1
<1>8. Table' = {Rec(m) : m \in Range(list')} /\ Table = {Rec(m) : m \in Range(list)}
  BY <1>1 DEF Table, Rec
<1>9. Table' = Table \ {Rec(node[c])}
  BY <1>4, <1>7, <1>8
<1>10. Op[c] = "remove"
  BY <1>1 DEF Op, OpOf, AddPC, UpdatePC, RemovePC
<1>11. QED
  BY <1>2, <1>5, <1>9, <1>10, ReturnAnswers, SMTT(40) DEF Op, Registry!Removed

----------------------------------------------------------------------------
\* Every entry into a call is a step of the table.
LEMMA CallEnterRegistry ==
    ASSUME TypeInv, NEW c \in Caller, CallEnter(c) PROVE Registry!RegistryNext
<1>1. PICK p \in ArgPid, capResource \in BOOLEAN, admin \in BOOLEAN :
        \/ \E limit \in ArgLimit :
            \/ AddEnter(c, p, limit, capResource, admin)
            \/ UpdateEnter(c, p, limit, capResource, admin)
        \/ RemoveEnter(c, p, capResource, admin)
  BY DEF CallEnter
<1>2. \A limit \in ArgLimit \cup {RemoveLimit} :
          [pid |-> p, limit |-> limit, cap |-> capResource] \in Arg
  BY DEF Arg
<1>3. QED
  BY <1>1, <1>2, EnterRegistry DEF AddEnter, UpdateEnter, RemoveEnter

\* Every step of a call is a step of the table or not seen.
LEMMA CallStepRegistry ==
    ASSUME SerialInv, NEW c \in Caller, CallStep(c)
    PROVE  Registry!RegistryNext \/ UNCHANGED Registry!registryVars
<1> USE DEF SerialInv
<1> DEFINE Seen == Registry!RegistryNext \/ UNCHANGED Registry!registryVars
<1>1. /\ \A l \in AddPC : OpOf(l) = "add"
      /\ \A l \in UpdatePC : OpOf(l) = "update"
      /\ \A l \in RemovePC : OpOf(l) = "remove"
  BY DEF OpOf, AddPC, UpdatePC, RemovePC
<1>2. CASE AddTask(c) \/ UpdateTask(c) \/ RemoveTask(c)
  BY <1>1, <1>2, FindTaskRegistry
     DEF AddTask, UpdateTask, RemoveTask, InCall, AddPC, UpdatePC, RemovePC
<1>3. CASE AddNode(c) \/ AddAgain(c)
  BY <1>1, <1>3, FindNoneRegistry DEF AddNode, AddAgain, AddPC
<1>4. CASE UpdateNode(c) \/ RemoveNode(c)
  BY <1>1, <1>4, FindExistingRegistry DEF UpdateNode, RemoveNode, UpdatePC, RemovePC
<1>5. CASE AddUsage(c) \/ UpdateUsage(c)
  BY <1>1, <1>5, CheckUsageRegistry DEF AddUsage, UpdateUsage, InCall, AddPC, UpdatePC
<1>6. CASE AddSet(c) \/ UpdateSet(c) \/ RemoveSet(c)
  BY <1>1, <1>6, SetLimitRegistry
     DEF AddSet, UpdateSet, RemoveSet, InCall, AddPC, UpdatePC, RemovePC
<1>7. CASE AddAlloc(c)
  BY <1>7, AddAllocRegistry
<1>8. CASE AddLink(c) \/ UpdateStore(c) \/ RemoveDel(c)
  BY <1>8, AddLinkRegistry, UpdateStoreRegistry, RemoveDelRegistry DEF Registry!RegistryNext
<1>9. CASE Oops(c)
  <2>1. Goto(c, "oops") /\ InCall(c) /\ UNCHANGED <<list, npid, nlimit, arg>>
    BY <1>9 DEF Oops, InCall, listVars
  <2>2. QED
    BY <2>1, OopsDies DEF Registry!RegistryNext
<1>10. QED
  BY <1>2, <1>3, <1>4, <1>5, <1>6, <1>7, <1>8, <1>9 DEF CallStep

\* Used one caller at a time, the limiter implements the table of LimitRegistry, for
\* any number of callers, processes, pids and limits.
THEOREM SerialImplementsRegistry == SerialSpec => ImplementsRegistry
<1>1. Init => Registry!RegistryInit
  <2> SUFFICES ASSUME Init PROVE Registry!RegistryInit
    OBVIOUS
  <2>1. Table = {}
    BY DEF Init, Table, Range
  <2>2. \A c \in Caller : OpOf(pc[c]) = "none"
    BY DEF Init, OpOf, AddPC, UpdatePC, RemovePC
  <2>3. QED
    BY <2>1, <2>2 DEF Init, Registry!RegistryInit
<1>2. SerialInv /\ [Next /\ Serial']_vars
          => [Registry!RegistryNext]_(Registry!registryVars)
  <2> SUFFICES ASSUME SerialInv, [Next]_vars
               PROVE  Registry!RegistryNext \/ UNCHANGED Registry!registryVars
    OBVIOUS
  <2>1. CASE UNCHANGED limiterVars
    BY <2>1 DEF Registry!registryVars, limiterVars, listVars, callVars, Table
  <2>2. ASSUME NEW c \in Caller, CallEnter(c) \/ CallStep(c)
        PROVE  Registry!RegistryNext \/ UNCHANGED Registry!registryVars
    BY <2>2, CallEnterRegistry, CallStepRegistry DEF SerialInv
  <2>3. QED
    BY <2>1, <2>2 DEF Next, vars
<1>3. QED
  BY <1>1, <1>2, SerialInvariant, PTL DEF SerialSpec, ImplementsRegistry, Registry!RegistrySpec
============================================================================
