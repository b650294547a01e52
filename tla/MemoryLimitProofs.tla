------------------------- MODULE MemoryLimitProofs -------------------------
(***************************************************************************)
(* Proofs about MemoryLimit, for any number of tasks, nodes and callers.   *)
(***************************************************************************)
EXTENDS MemoryLimit, PrlimitProofs, SequenceTheorems

\* The steps at which a caller uses its task and its node.
TaskPC == {"add_node", "add_usage", "add_set", "upd_node", "upd_usage", "upd_set",
           "rem_node", "rem_set"}
NodePC == {"add_link", "upd_usage", "upd_set", "upd_store", "rem_set", "rem_del"}

\* The locals of a call are set by the time it uses them.
LocalsSet ==
    \A c \in Caller :
        /\ InCall(c) => arg[c] \in Arg
        /\ pc[c] \in TaskPC => task[c] \in Slot
        /\ pc[c] \in NodePC => node[c] \in Node

\* The inductive invariant behind type correctness.
TypeInv == LimitsInv /\ LimiterTypeOK /\ LocalsSet

----------------------------------------------------------------------------
(* The sequence of nodes. *)

\* What Cons does, element by element.
LEMMA ConsFacts ==
    ASSUME NEW S, NEW s \in Seq(S), NEW e \in S
    PROVE  /\ Cons(e, s) \in Seq(S)
           /\ Len(Cons(e, s)) = Len(s) + 1
           /\ Cons(e, s)[1] = e
           /\ \A i \in 1..Len(s) : Cons(e, s)[i + 1] = s[i]
<1>1. <<e>> \in Seq(S) /\ Len(<<e>>) = 1 /\ <<e>>[1] = e
  OBVIOUS
<1>2. QED
  BY <1>1, ConcatProperties DEF Cons

\* t is s with e in front of it.
IsCons(t, e, s) ==
    /\ Len(s) \in Nat /\ DOMAIN s = 1..Len(s)
    /\ Len(t) = Len(s) + 1 /\ DOMAIN t = 1..(Len(s) + 1)
    /\ t[1] = e
    /\ \A i \in 1..Len(s) : t[i + 1] = s[i]
    /\ \A i \in 2..(Len(s) + 1) : i - 1 \in DOMAIN s /\ t[i] = s[i - 1]

\* The same as ConsFacts, indexed both ways.
LEMMA ConsIsCons ==
    ASSUME NEW S, NEW s \in Seq(S), NEW e \in S
    PROVE  IsCons(Cons(e, s), e, s)
<1>1. PICK t : t = Cons(e, s)
  OBVIOUS
<1>2. /\ t \in Seq(S) /\ Len(t) = Len(s) + 1 /\ t[1] = e
      /\ \A i \in 1..Len(s) : t[i + 1] = s[i]
  BY <1>1, ConsFacts, ZenonT(40)
<1>3. Len(s) \in Nat /\ DOMAIN s = 1..Len(s) /\ DOMAIN t = 1..Len(t)
  BY <1>2
<1>4. ASSUME NEW i \in 2..(Len(s) + 1) PROVE i - 1 \in DOMAIN s /\ t[i] = s[i - 1]
  <2>1. PICK k \in 1..Len(s) : k = i - 1 /\ k + 1 = i
    BY <1>3
  <2>2. t[k + 1] = s[k]
    BY <1>2
  <2>3. QED
    BY <1>3, <2>1, <2>2
<1>5. IsCons(t, e, s)
  BY <1>2, <1>3, <1>4 DEF IsCons
<1>6. QED
  BY <1>1, <1>5

\* What RemoveAt does, element by element.
LEMMA RemoveAtFacts ==
    ASSUME NEW S, NEW s \in Seq(S), NEW i \in 1..Len(s)
    PROVE  /\ RemoveAt(s, i) \in Seq(S)
           /\ Len(RemoveAt(s, i)) = Len(s) - 1
           /\ \A j \in 1..(Len(s) - 1) :
                  RemoveAt(s, i)[j] = IF j < i THEN s[j] ELSE s[j + 1]
<1> DEFINE a == SubSeq(s, 1, i - 1)
           b == SubSeq(s, i + 1, Len(s))
<1>1. Len(s) \in Nat /\ i \in Nat
  OBVIOUS
<1>2. a \in Seq(S) /\ Len(a) = i - 1 /\ \A j \in 1..(i - 1) : a[j] = s[j]
  BY <1>1, SubSeqProperties
<1>3. b \in Seq(S) /\ Len(b) = Len(s) - i /\ \A j \in 1..(Len(s) - i) : b[j] = s[i + j]
  BY <1>1, SubSeqProperties
<1>4. RemoveAt(s, i) = a \o b
  BY DEF RemoveAt
<1> HIDE DEF a, b
<1>5. /\ a \o b \in Seq(S) /\ Len(a \o b) = Len(a) + Len(b)
      /\ \A j \in 1..(Len(a) + Len(b)) :
             (a \o b)[j] = IF j <= Len(a) THEN a[j] ELSE b[j - Len(a)]
  BY <1>2, <1>3, ConcatProperties
<1>6. ASSUME NEW j \in 1..(Len(s) - 1)
      PROVE  (a \o b)[j] = IF j < i THEN s[j] ELSE s[j + 1]
  <2>0. j \in Int /\ i \in Int
    BY <1>1
  <2>1. CASE j < i
    BY <1>1, <1>2, <1>3, <1>5, <2>1
  <2>2. CASE ~(j < i)
    <3>1. (a \o b)[j] = b[j - (i - 1)] /\ j - (i - 1) \in 1..(Len(s) - i)
      BY <1>1, <1>2, <1>3, <1>5, <2>0, <2>2
    <3>2. i + (j - (i - 1)) = j + 1
      BY <1>1, SMT
    <3>3. QED
      BY <1>1, <1>3, <2>2, <3>1, <3>2
  <2>3. QED
    BY <2>1, <2>2
<1>7. QED
  BY <1>1, <1>2, <1>3, <1>4, <1>5, <1>6

----------------------------------------------------------------------------
(* Type correctness. *)

\* The limiter touches tasks only through do_prlimit, which keeps LimitsInv.
LEMMA LimitsInvRlim ==
    ASSUME LimitsInv, rlim' \in [Slot -> Rlimit],
           UNCHANGED <<tstate, tpid, tsig, usage, vm, prVars>>
    PROVE  LimitsInv'
  BY DEF LimitsInv, LimitsTypeOK, TasksTypeOK, PrTypeOK, RefsBalanced, Holders, Holding,
         prVars

\* LimitsInv is about tasks and prlimit64 callers only.
LEMMA LimitsInvUnchanged ==
    ASSUME LimitsInv, UNCHANGED limitsVars
    PROVE  LimitsInv'
  BY DEF LimitsInv, LimitsTypeOK, TasksTypeOK, PrTypeOK, RefsBalanced, Holders, Holding,
         limitsVars, taskVars, prVars

\* The types hold at the start.
LEMMA TypeInvInit == Init => TypeInv
<1> SUFFICES ASSUME Init PROVE TypeInv
  OBVIOUS
<1>1. LimitsInv
  BY LimitsInvInit DEF Init
<1>2. LimiterTypeOK
  <2>1. (CHOOSE p \in ArgPid : TRUE) \in ArgPid
    BY MemoryLimitAssumption
  <2>2. npid \in [Node -> ArgPid]
    BY <2>1 DEF Init
  <2>3. QED
    BY <2>2, MemoryLimitAssumption DEF Init, LimiterTypeOK, PC, Ret
<1>3. LocalsSet
  BY DEF Init, LocalsSet, InCall, TaskPC, NodePC
<1>4. QED
  BY <1>1, <1>2, <1>3 DEF TypeInv

\* What a call's own variables look like after it returned or moved on.
LEMMA ReturnTypes ==
    ASSUME TypeInv, NEW c \in Caller, NEW r \in Ret, Return(c, r)
    PROVE  /\ pc' \in [Caller -> PC] /\ ret' \in [Caller -> Ret]
           /\ arg' \in [Caller -> Arg \cup {NoArg}]
           /\ task' \in [Caller -> Slot \cup {NoTask}]
           /\ node' \in [Caller -> Node \cup {NoNode}]
           /\ LocalsSet'
  BY DEF TypeInv, LimiterTypeOK, LocalsSet, Return, InCall, PC, TaskPC, NodePC

\* A call that moves on keeps its locals set.
LEMMA GotoTypes ==
    ASSUME TypeInv, NEW c \in Caller, NEW label \in PC, Goto(c, label),
           arg' \in [Caller -> Arg \cup {NoArg}],
           task' \in [Caller -> Slot \cup {NoTask}],
           node' \in [Caller -> Node \cup {NoNode}],
           \A d \in Caller \ {c} : arg'[d] = arg[d] /\ task'[d] = task[d] /\ node'[d] = node[d],
           InCall(c)' => arg'[c] \in Arg,
           label \in TaskPC => task'[c] \in Slot,
           label \in NodePC => node'[c] \in Node
    PROVE  pc' \in [Caller -> PC] /\ ret' \in [Caller -> Ret] /\ LocalsSet'
  BY DEF TypeInv, LimiterTypeOK, LocalsSet, Goto, InCall

\* A call that is refused or begins keeps the types.
LEMMA EnterTypes ==
    ASSUME TypeInv, NEW c \in Caller, NEW a \in Arg, NEW admin, NEW valid,
           NEW label \in {"add_task", "upd_task", "rem_task"},
           Enter(c, a, admin, valid, label)
    PROVE  TypeInv'
<1>1. LimitsInv' /\ UNCHANGED listVars
  BY LimitsInvUnchanged DEF Enter, TypeInv
<1>2. CASE Return(c, "EPERM") \/ Return(c, "EINVAL")
  BY <1>1, <1>2, ReturnTypes DEF TypeInv, LimiterTypeOK, listVars, Ret
<1>3. CASE /\ arg' = [arg EXCEPT ![c] = a]
           /\ pc' = [pc EXCEPT ![c] = label]
           /\ ret' = [ret EXCEPT ![c] = "none"]
           /\ UNCHANGED <<task, node>>
  BY <1>1, <1>3 DEF TypeInv, LimiterTypeOK, LocalsSet, listVars, InCall, PC, Ret, TaskPC,
         NodePC, AddPC, UpdatePC, RemovePC
<1>4. QED
  BY <1>2, <1>3 DEF Enter

\* find_task_by_vpid sets the local task.
LEMMA FindTaskTypes ==
    ASSUME TypeInv, NEW c \in Caller, pc[c] \in {"add_task", "upd_task", "rem_task"},
           NEW label \in {"add_node", "upd_node", "rem_node"}, FindTask(c, label)
    PROVE  TypeInv'
<1>1. LimitsInv' /\ UNCHANGED listVars
  BY LimitsInvUnchanged DEF FindTask, NoSuchTask, TypeInv
<1>2. CASE Return(c, "ESRCH")
  BY <1>1, <1>2, ReturnTypes DEF TypeInv, LimiterTypeOK, listVars, Ret
<1>3. ASSUME NEW s \in FindTaskByVpid(arg[c].pid), task' = [task EXCEPT ![c] = s],
             Goto(c, label), UNCHANGED <<arg, node>>
      PROVE  TypeInv'
  <2>1. s \in Slot /\ label \in PC /\ label \notin NodePC /\ arg[c] \in Arg
    BY DEF FindTaskByVpid, PC, AddPC, UpdatePC, RemovePC, NodePC, TypeInv, LocalsSet, InCall
  <2>2. pc' \in [Caller -> PC] /\ ret' \in [Caller -> Ret] /\ LocalsSet'
    BY <1>3, <2>1, GotoTypes DEF TypeInv, LimiterTypeOK
  <2>3. QED
    BY <1>1, <1>3, <2>1, <2>2 DEF TypeInv, LimiterTypeOK, listVars
<1>4. QED
  BY <1>2, <1>3 DEF FindTask, NoSuchTask

\* A step that only moves on: CheckUsage and the look-up that finds no node.
LEMMA MoveTypes ==
    ASSUME TypeInv, NEW c \in Caller, InCall(c), NEW label \in PC, Goto(c, label),
           label \in TaskPC => pc[c] \in TaskPC, label \in NodePC => pc[c] \in NodePC,
           LimitsInv', UNCHANGED <<listVars, arg, task, node>>
    PROVE  TypeInv'
<1>1. pc' \in [Caller -> PC] /\ ret' \in [Caller -> Ret] /\ LocalsSet'
  BY GotoTypes DEF TypeInv, LimiterTypeOK, LocalsSet
<1>2. QED
  BY <1>1 DEF TypeInv, LimiterTypeOK, listVars

\* A call that fails without touching anything keeps the types.
LEMMA FailTypes ==
    ASSUME TypeInv, NEW c \in Caller, NEW r \in Ret, Return(c, r), LimitsInv', UNCHANGED listVars
    PROVE  TypeInv'
  BY ReturnTypes DEF TypeInv, LimiterTypeOK, listVars

\* The usage check keeps the types.
LEMMA CheckUsageTypes ==
    ASSUME TypeInv, NEW c \in Caller,
           NEW label, <<pc[c], label>> \in {<<"add_usage", "add_set">>, <<"upd_usage", "upd_set">>},
           CheckUsage(c, label)
    PROVE  TypeInv'
<1>1. LimitsInv' /\ UNCHANGED listVars
  BY LimitsInvUnchanged DEF CheckUsage, TypeInv
<1>2. /\ InCall(c) /\ label \in PC
      /\ label \in TaskPC => pc[c] \in TaskPC
      /\ label \in NodePC => pc[c] \in NodePC
  BY DEF InCall, PC, AddPC, UpdatePC, TaskPC, NodePC
<1>3. CASE Return(c, "E100")
  BY <1>1, <1>3, FailTypes DEF Ret
<1>4. CASE Goto(c, label) /\ UNCHANGED <<arg, task, node>>
  BY <1>1, <1>2, <1>4, MoveTypes
<1>5. QED
  BY <1>3, <1>4 DEF CheckUsage

\* set_process_memory_limit changes limits only.
LEMMA SetLimitEffect ==
    ASSUME TypeInv, NEW c \in Caller, pc[c] \in {"add_set", "upd_set", "rem_set"},
           NEW r, SetProcessMemoryLimit(c, arg[c].limit, r)
    PROVE  LimitsInv'
<1>1. arg[c] \in Arg /\ task[c] \in Slot
  BY DEF TypeInv, LocalsSet, InCall, TaskPC
<1>2. tsig[task[c]] \in Slot
  BY <1>1 DEF TypeInv, LimitsInv, LimitsTypeOK, TasksTypeOK
<1>3. [cur |-> arg[c].limit, max |-> arg[c].limit] \in Rlimit /\ arg[c].cap \in BOOLEAN
  BY <1>1, MemoryLimitAssumption DEF Arg, Rlimit
<1>4. rlim' \in [Slot -> Rlimit]
  BY <1>2, <1>3, DoPrlimitEffect DEF SetProcessMemoryLimit, TypeInv, LimitsInv, LimitsTypeOK
<1>5. QED
  BY <1>4, LimitsInvRlim DEF SetProcessMemoryLimit, TypeInv

\* Setting the limit keeps the types.
LEMMA SetLimitTypes ==
    ASSUME TypeInv, NEW c \in Caller, NEW label,
           <<pc[c], label>> \in {<<"add_set", "add_again">>, <<"upd_set", "upd_store">>,
                                 <<"rem_set", "rem_del">>},
           SetLimit(c, label)
    PROVE  TypeInv'
<1>1. PICK r \in {"OK", "EINVAL", "EPERM", "EACCES"} :
        /\ SetProcessMemoryLimit(c, arg[c].limit, r)
        /\ IF r = "OK"
           THEN Goto(c, label) /\ UNCHANGED <<arg, task, node>>
           ELSE Return(c, r)
  BY DEF SetLimit
<1>2. LimitsInv' /\ UNCHANGED listVars
  BY <1>1, SetLimitEffect DEF SetLimit
<1>3. /\ InCall(c) /\ label \in PC
      /\ label \in TaskPC => pc[c] \in TaskPC
      /\ label \in NodePC => pc[c] \in NodePC
  BY DEF InCall, PC, AddPC, UpdatePC, RemovePC, TaskPC, NodePC
<1>4. QED
  BY <1>1, <1>2, <1>3, MoveTypes, FailTypes DEF Ret

\* find_node_by_pid sets the local node.
LEMMA FindExistingTypes ==
    ASSUME TypeInv, NEW c \in Caller, NEW label,
           <<pc[c], label>> \in {<<"upd_node", "upd_usage">>, <<"rem_node", "rem_set">>},
           FindExisting(c, label)
    PROVE  TypeInv'
<1>1. LimitsInv' /\ UNCHANGED listVars
  BY LimitsInvUnchanged DEF FindExisting, TypeInv
<1>2. CASE Return(c, "E102")
  BY <1>1, <1>2, FailTypes DEF Ret
<1>3. ASSUME NEW n \in Node, node' = [node EXCEPT ![c] = n], Goto(c, label),
             UNCHANGED <<arg, task>>
      PROVE  TypeInv'
  <2>1. label \in PC /\ arg[c] \in Arg /\ task[c] \in Slot
    BY DEF PC, UpdatePC, RemovePC, TypeInv, LocalsSet, InCall, TaskPC
  <2>2. pc' \in [Caller -> PC] /\ ret' \in [Caller -> Ret] /\ LocalsSet'
    BY <1>3, <2>1, GotoTypes DEF TypeInv, LimiterTypeOK
  <2>3. QED
    BY <1>1, <1>3, <2>2 DEF TypeInv, LimiterTypeOK, listVars
<1>4. QED
  BY <1>2, <1>3 DEF FindExisting

\* The look-up for a duplicate keeps the types.
LEMMA FindNoneTypes ==
    ASSUME TypeInv, NEW c \in Caller, NEW label,
           <<pc[c], label>> \in {<<"add_node", "add_usage">>, <<"add_again", "add_alloc">>},
           FindNone(c, label)
    PROVE  TypeInv'
<1>1. LimitsInv' /\ UNCHANGED listVars
  BY LimitsInvUnchanged DEF FindNone, TypeInv
<1>2. /\ InCall(c) /\ label \in PC
      /\ label \in TaskPC => pc[c] \in TaskPC
      /\ label \in NodePC => pc[c] \in NodePC
  BY DEF InCall, PC, AddPC, TaskPC, NodePC
<1>3. Return(c, "E101") \/ (Goto(c, label) /\ UNCHANGED <<arg, task, node>>)
  BY DEF FindNone
<1>4. QED
  BY <1>1, <1>2, <1>3, MoveTypes, FailTypes, SMTT(40) DEF Ret

\* kmalloc sets the local node or fails.
LEMMA AddAllocTypes ==
    ASSUME TypeInv, NEW c \in Caller, AddAlloc(c) PROVE TypeInv'
<1>1. LimitsInv' /\ UNCHANGED <<list, npid, nlimit>> /\ pc[c] = "add_alloc"
  BY LimitsInvUnchanged DEF AddAlloc, NoMemory, TypeInv
<1>2. CASE Return(c, "ENOMEM") /\ UNCHANGED heap
  BY <1>1, <1>2, FailTypes DEF Ret, listVars
<1>3. ASSUME NEW n \in Node \ heap, heap' = heap \cup {n}, node' = [node EXCEPT ![c] = n],
             Goto(c, "add_link"), UNCHANGED <<arg, task>>
      PROVE  TypeInv'
  <2>1. "add_link" \in PC /\ "add_link" \notin TaskPC /\ arg[c] \in Arg
    BY <1>1 DEF PC, AddPC, TaskPC, TypeInv, LocalsSet, InCall
  <2>2. pc' \in [Caller -> PC] /\ ret' \in [Caller -> Ret] /\ LocalsSet'
    BY <1>3, <2>1, GotoTypes DEF TypeInv, LimiterTypeOK
  <2>3. QED
    BY <1>1, <1>3, <2>2 DEF TypeInv, LimiterTypeOK
<1>4. QED
  BY <1>2, <1>3 DEF AddAlloc, NoMemory

\* Linking a node keeps the types.
LEMMA AddLinkTypes ==
    ASSUME TypeInv, NEW c \in Caller, AddLink(c) PROVE TypeInv'
<1>1. LimitsInv' /\ heap' = heap
  BY LimitsInvUnchanged DEF AddLink, TypeInv
<1>2. node[c] \in Node /\ arg[c] \in Arg
  BY DEF AddLink, TypeInv, LocalsSet, InCall, NodePC
<1>3. arg[c].pid \in ArgPid /\ arg[c].limit \in Nat
  BY <1>2, MemoryLimitAssumption DEF Arg
<1>4. list' \in Seq(Node)
  BY <1>2, ConsFacts DEF AddLink, TypeInv, LimiterTypeOK
<1>5. npid' \in [Node -> ArgPid] /\ nlimit' \in [Node -> Nat]
  BY <1>2, <1>3 DEF AddLink, TypeInv, LimiterTypeOK
<1>6. QED
  BY <1>1, <1>4, <1>5, ReturnTypes DEF AddLink, TypeInv, LimiterTypeOK, Ret

\* Storing a limit keeps the types.
LEMMA UpdateStoreTypes ==
    ASSUME TypeInv, NEW c \in Caller, UpdateStore(c) PROVE TypeInv'
<1>1. LimitsInv' /\ UNCHANGED <<list, heap, npid>>
  BY LimitsInvUnchanged DEF UpdateStore, NewNlimit, TypeInv
<1>2. node[c] \in Node /\ arg[c] \in Arg
  BY DEF UpdateStore, NewNlimit, TypeInv, LocalsSet, InCall, NodePC
<1>3. arg[c].limit \in Nat
  BY <1>2, MemoryLimitAssumption DEF Arg
<1>4. nlimit' \in [Node -> Nat]
  BY <1>2, <1>3 DEF UpdateStore, NewNlimit, TypeInv, LimiterTypeOK
<1>5. QED
  BY <1>1, <1>4, ReturnTypes DEF UpdateStore, NewNlimit, TypeInv, LimiterTypeOK, Ret

\* A caller that dies keeps no obligations.
LEMMA OopsTypes ==
    ASSUME TypeInv, NEW c \in Caller, Goto(c, "oops"), LimitsInv',
           UNCHANGED <<listVars, arg, task, node>>
    PROVE  TypeInv'
  BY DEF TypeInv, LimiterTypeOK, LocalsSet, Goto, InCall, PC, TaskPC, NodePC, listVars

\* Unlinking a node keeps the types.
LEMMA RemoveDelTypes ==
    ASSUME TypeInv, NEW c \in Caller, RemoveDel(c) PROVE TypeInv'
<1>1. LimitsInv' /\ UNCHANGED <<npid, nlimit>>
  BY LimitsInvUnchanged DEF RemoveDel, Kfree, TypeInv
<1>2. ASSUME NEW i \in DOMAIN list, list' = RemoveAt(list, i), heap' = heap \ {node[c]},
             Return(c, "OK")
      PROVE  TypeInv'
  <2>1. list' \in Seq(Node)
    <3>1. list \in Seq(Node) /\ i \in 1..Len(list)
      BY DEF TypeInv, LimiterTypeOK
    <3>2. QED
      BY <1>2, <3>1, RemoveAtFacts
  <2>2. QED
    BY <1>1, <1>2, <2>1, ReturnTypes DEF TypeInv, LimiterTypeOK, Ret
<1>3. CASE Goto(c, "oops") /\ UNCHANGED <<list, heap, arg, task, node>>
  BY <1>1, <1>3, OopsTypes DEF listVars
<1>4. QED
  BY <1>2, <1>3 DEF RemoveDel, Kfree

\* Every entry into a call keeps the types.
LEMMA CallEnterTypes ==
    ASSUME TypeInv, NEW c \in Caller, CallEnter(c) PROVE TypeInv'
<1>1. PICK p \in ArgPid, capResource \in BOOLEAN, admin \in BOOLEAN :
        \/ \E limit \in ArgLimit :
            \/ AddEnter(c, p, limit, capResource, admin)
            \/ UpdateEnter(c, p, limit, capResource, admin)
        \/ RemoveEnter(c, p, capResource, admin)
  BY DEF CallEnter
<1>2. \A limit \in ArgLimit \cup {RemoveLimit} :
          [pid |-> p, limit |-> limit, cap |-> capResource] \in Arg
  BY DEF Arg
<1>3. QED
  BY <1>1, <1>2, EnterTypes DEF AddEnter, UpdateEnter, RemoveEnter

\* Every step of a call keeps the types.
LEMMA CallStepTypes ==
    ASSUME TypeInv, NEW c \in Caller, CallStep(c) PROVE TypeInv'
<1>1. CASE AddTask(c) \/ UpdateTask(c) \/ RemoveTask(c)
  BY <1>1, FindTaskTypes DEF AddTask, UpdateTask, RemoveTask
<1>2. CASE AddNode(c) \/ AddAgain(c)
  BY <1>2, FindNoneTypes DEF AddNode, AddAgain
<1>3. CASE UpdateNode(c) \/ RemoveNode(c)
  BY <1>3, FindExistingTypes DEF UpdateNode, RemoveNode
<1>4. CASE AddUsage(c) \/ UpdateUsage(c)
  BY <1>4, CheckUsageTypes DEF AddUsage, UpdateUsage
<1>5. CASE AddSet(c) \/ UpdateSet(c) \/ RemoveSet(c)
  BY <1>5, SetLimitTypes DEF AddSet, UpdateSet, RemoveSet
<1>6. CASE Oops(c)
  BY <1>6, OopsTypes, LimitsInvUnchanged DEF Oops, TypeInv
<1>7. QED
  BY <1>1, <1>2, <1>3, <1>4, <1>5, <1>6, AddAllocTypes, AddLinkTypes, UpdateStoreTypes,
     RemoveDelTypes DEF CallStep

\* Every step keeps the types.
LEMMA TypeInvStep == TypeInv /\ [Next]_vars => TypeInv'
<1> SUFFICES ASSUME TypeInv, [Next]_vars PROVE TypeInv'
  OBVIOUS
<1>1. CASE \E c \in Caller : CallEnter(c) \/ CallStep(c)
  BY <1>1, CallEnterTypes, CallStepTypes
<1>2. CASE LimitsNext /\ UNCHANGED limiterVars
  BY <1>2, LimitsInvStep DEF TypeInv, LimiterTypeOK, LocalsSet, InCall, limiterVars, listVars,
                            callVars
<1>3. CASE UNCHANGED vars
  BY <1>3, LimitsInvUnchanged DEF TypeInv, LimiterTypeOK, LocalsSet, InCall, vars, limiterVars,
                                 listVars, callVars
<1>4. QED
  BY <1>1, <1>2, <1>3 DEF Next

\* Types, set locals and the invariant of prlimit64 hold in every reachable state.
THEOREM TypeInvariant == Spec => []TypeInv
  BY TypeInvInit, TypeInvStep, PTL DEF Spec

\* The types hold in every reachable state, with any number of concurrent callers.
THEOREM TypeCorrect == Spec => []TypeOK
<1>1. TypeInv => TypeOK
  BY DEF TypeInv, TypeOK, LimitsInv
<1>2. QED
  BY <1>1, TypeInvariant, PTL

\* Callers of the limiter, which hold no reference, free nothing that a prlimit64
\* caller works on.
THEOREM PrlimitSafeBesideLimiter == Spec => []PinnedTaskStays
<1>1. TypeInv => PinnedTaskStays
  BY DEF TypeInv, LimitsInv, PinnedTaskStays, SignalFree
<1>2. QED
  BY <1>1, TypeInvariant, PTL

\* Nor do they break the order of soft and hard limit, not even through a stale task.
THEOREM LimiterKeepsLimitOrder == Spec => []SoftBelowHard
<1>1. Init => SoftBelowHard
  BY LimitsInitOrder DEF Init
<1>2. TypeInv /\ SoftBelowHard /\ [Next]_vars => SoftBelowHard'
  <2> SUFFICES ASSUME TypeInv, SoftBelowHard, [Next]_vars PROVE SoftBelowHard'
    OBVIOUS
  <2>1. CASE LimitsNext \/ UNCHANGED limitsVars
    BY <2>1, LimitsStepOrder DEF TypeInv
  <2>2. ASSUME NEW c \in Caller, CallEnter(c) \/ CallStep(c) PROVE SoftBelowHard'
    <3>1. CASE AddSet(c) \/ UpdateSet(c) \/ RemoveSet(c)
      <4>1. PICK r : SetProcessMemoryLimit(c, arg[c].limit, r)
        BY <3>1 DEF AddSet, UpdateSet, RemoveSet, SetLimit
      <4>2. arg[c] \in Arg /\ task[c] \in Slot
        BY <3>1 DEF AddSet, UpdateSet, RemoveSet, TypeInv, LocalsSet, InCall, TaskPC
      <4>3. tsig[task[c]] \in Slot /\ TasksTypeOK
        BY <4>2 DEF TypeInv, LimitsInv, LimitsTypeOK, TasksTypeOK
      <4>4. [cur |-> arg[c].limit, max |-> arg[c].limit] \in Rlimit
            /\ arg[c].cap \in BOOLEAN
        BY <4>2, MemoryLimitAssumption DEF Arg, Rlimit
      <4>5. QED
        BY <4>1, <4>3, <4>4, DoPrlimitEffect DEF SetProcessMemoryLimit, SoftBelowHard
    <3>2. CASE ~(AddSet(c) \/ UpdateSet(c) \/ RemoveSet(c))
      <4>1. UNCHANGED rlim
        BY <2>2, <3>2, ZenonT(40) DEF CallEnter, AddEnter, UpdateEnter, RemoveEnter, Enter, CallStep,
           AddTask, UpdateTask, RemoveTask, FindTask, AddNode, AddAgain, FindNone,
           UpdateNode, RemoveNode, FindExisting, AddUsage, UpdateUsage, CheckUsage,
           AddAlloc, AddLink, UpdateStore, RemoveDel, Oops, limitsVars, taskVars
      <4>2. QED
        BY <4>1 DEF SoftBelowHard
    <3>3. QED
      BY <3>1, <3>2
  <2>3. QED
    BY <2>1, <2>2 DEF Next, vars
<1>3. QED
  BY <1>1, <1>2, TypeInvariant, PTL DEF Spec

----------------------------------------------------------------------------
(* The list, when one caller at a time is inside the limiter. *)

AbsentPC == {"add_usage", "add_set", "add_again", "add_alloc", "add_link"}
FoundPC == {"upd_usage", "upd_set", "upd_store", "rem_set", "rem_del"}

\* What an add learnt from its first look-up stays true until it links its node.
AddStillAbsent ==
    \A c \in Caller : pc[c] \in AbsentPC => \A i \in DOMAIN list : npid[list[i]] # arg[c].pid

\* The inductive invariant of the serial specification.
ListInv == NoDuplicates /\ NodesAccountedFor /\ FoundNodeStays /\ AddStillAbsent

SerialInv == TypeInv /\ Serial /\ ListInv

\* A step of caller c that leaves the list alone keeps ListInv when c's own claims
\* about the list hold at its new label.
LEMMA QuietStep ==
    ASSUME TypeInv, ListInv, NEW c \in Caller, NEW label, label # "add_link",
           pc[c] # "add_link", pc' = [pc EXCEPT ![c] = label], UNCHANGED listVars,
           \A d \in Caller \ {c} : arg'[d] = arg[d] /\ node'[d] = node[d],
           label \in AbsentPC => \A i \in DOMAIN list : npid[list[i]] # arg'[c].pid,
           label \in FoundPC =>
               \E i \in DOMAIN list : list[i] = node'[c] /\ npid[node'[c]] = arg'[c].pid
    PROVE  ListInv'
<1>1. /\ pc'[c] = label
      /\ \A d \in Caller \ {c} : pc'[d] = pc[d]
  BY DEF TypeInv, LimiterTypeOK
<1>2. NoDuplicates'
  BY DEF ListInv, NoDuplicates, listVars
<1>3. {node'[d] : d \in {e \in Caller : pc'[e] = "add_link"}}
        = {node[d] : d \in {e \in Caller : pc[e] = "add_link"}}
  BY <1>1
<1>4. NodesAccountedFor'
  <2>1. list' = list /\ heap' = heap
    BY DEF listVars
  <2>2. heap = {list[i] : i \in DOMAIN list}
                 \cup {node[d] : d \in {e \in Caller : pc[e] = "add_link"}}
    BY DEF ListInv, NodesAccountedFor
  <2>3. heap' = {list'[i] : i \in DOMAIN list'}
                  \cup {node'[d] : d \in {e \in Caller : pc'[e] = "add_link"}}
    BY <1>3, <2>1, <2>2
  <2>4. \A d \in Caller : pc'[d] = "add_link" => \A i \in DOMAIN list' : list'[i] # node'[d]
    BY <1>1, <2>1 DEF ListInv, NodesAccountedFor
  <2>5. QED
    BY <2>3, <2>4 DEF NodesAccountedFor
<1>5. FoundNodeStays'
  BY <1>1 DEF ListInv, FoundNodeStays, FoundPC, listVars
<1>6. AddStillAbsent'
  BY <1>1 DEF ListInv, AddStillAbsent, listVars
<1>7. QED
  BY <1>2, <1>4, <1>5, <1>6 DEF ListInv

\* Returning leaves the list alone.
LEMMA ReturnQuiet ==
    ASSUME TypeInv, ListInv, NEW c \in Caller, NEW r, Return(c, r), pc[c] # "add_link",
           UNCHANGED listVars
    PROVE  ListInv'
<1>1. pc' = [pc EXCEPT ![c] = "idle"] /\ "idle" \notin AbsentPC /\ "idle" \notin FoundPC
  BY DEF Return, AbsentPC, FoundPC
<1>2. \A d \in Caller \ {c} : arg'[d] = arg[d] /\ node'[d] = node[d]
  BY DEF Return, TypeInv, LimiterTypeOK
<1>3. QED
  BY <1>1, <1>2, QuietStep

\* A caller that dies leaves the list alone.
LEMMA OopsQuiet ==
    ASSUME TypeInv, ListInv, NEW c \in Caller, Goto(c, "oops"), pc[c] # "add_link",
           UNCHANGED <<listVars, arg, node>>
    PROVE  ListInv'
<1>1. pc' = [pc EXCEPT ![c] = "oops"] /\ "oops" \notin AbsentPC /\ "oops" \notin FoundPC
  BY DEF Goto, AbsentPC, FoundPC
<1>2. QED
  BY <1>1, QuietStep

\* Moving on without touching list, arguments or node.
LEMMA MoveQuiet ==
    ASSUME TypeInv, ListInv, NEW c \in Caller, NEW label, Goto(c, label),
           label # "add_link", pc[c] # "add_link",
           label \in AbsentPC => pc[c] \in AbsentPC,
           label \in FoundPC => pc[c] \in FoundPC,
           UNCHANGED <<listVars, arg, node>>
    PROVE  ListInv'
<1>1. pc' = [pc EXCEPT ![c] = label]
  BY DEF Goto
<1>2. label \in AbsentPC => \A i \in DOMAIN list : npid[list[i]] # arg'[c].pid
  BY DEF ListInv, AddStillAbsent
<1>3. label \in FoundPC =>
          \E i \in DOMAIN list : list[i] = node'[c] /\ npid[node'[c]] = arg'[c].pid
  BY DEF ListInv, FoundNodeStays, FoundPC
<1>4. QED
  BY <1>1, <1>2, <1>3, QuietStep

\* Entering a call leaves the list alone.
LEMMA EnterList ==
    ASSUME TypeInv, ListInv, NEW c \in Caller, NEW a, NEW admin, NEW valid,
           NEW label \in {"add_task", "upd_task", "rem_task"},
           Enter(c, a, admin, valid, label)
    PROVE  ListInv'
<1>1. UNCHANGED listVars /\ pc[c] # "add_link"
  BY DEF Enter
<1>2. CASE Return(c, "EPERM") \/ Return(c, "EINVAL")
  BY <1>1, <1>2, ReturnQuiet
<1>3. CASE /\ arg' = [arg EXCEPT ![c] = a]
           /\ pc' = [pc EXCEPT ![c] = label]
           /\ UNCHANGED <<task, node>>
  <2>1. label \notin AbsentPC /\ label \notin FoundPC /\ label # "add_link"
    BY DEF AbsentPC, FoundPC
  <2>2. \A d \in Caller \ {c} : arg'[d] = arg[d] /\ node'[d] = node[d]
    BY <1>3 DEF TypeInv, LimiterTypeOK
  <2>3. QED
    BY <1>1, <1>3, <2>1, <2>2, QuietStep
<1>4. QED
  BY <1>2, <1>3 DEF Enter

\* Looking up the task leaves the list alone.
LEMMA FindTaskList ==
    ASSUME TypeInv, ListInv, NEW c \in Caller,
           pc[c] \in {"add_task", "upd_task", "rem_task"},
           NEW label \in {"add_node", "upd_node", "rem_node"}, FindTask(c, label)
    PROVE  ListInv'
<1>1. UNCHANGED listVars /\ label \notin AbsentPC /\ label \notin FoundPC
  BY DEF FindTask, NoSuchTask, AbsentPC, FoundPC
<1>2. Return(c, "ESRCH") \/ (Goto(c, label) /\ UNCHANGED <<arg, node>>)
  BY DEF FindTask, NoSuchTask
<1>3. QED
  BY <1>1, <1>2, ReturnQuiet, MoveQuiet

\* The node an update or a remove finds is in the list.
LEMMA FindExistingList ==
    ASSUME TypeInv, ListInv, NEW c \in Caller, NEW label \in {"upd_usage", "rem_set"},
           pc[c] \in {"upd_node", "rem_node"}, FindExisting(c, label)
    PROVE  ListInv'
<1>1. UNCHANGED listVars /\ label \notin AbsentPC
  BY DEF FindExisting, AbsentPC
<1>2. PICK n \in Node \cup {NoNode} :
        /\ FindNodeByPid(arg[c].pid, n)
        /\ IF n = NoNode
           THEN Return(c, "E102")
           ELSE /\ node' = [node EXCEPT ![c] = n]
                /\ Goto(c, label)
                /\ UNCHANGED <<arg, task>>
  BY DEF FindExisting
<1>3. CASE n = NoNode
  BY <1>1, <1>2, <1>3, ReturnQuiet, SMTT(40)
<1>4. CASE n # NoNode
  <2>1. \E i \in DOMAIN list : list[i] = n /\ npid[n] = arg[c].pid
    BY <1>2, <1>4 DEF FindNodeByPid
  <2>2. node'[c] = n /\ \A d \in Caller \ {c} : arg'[d] = arg[d] /\ node'[d] = node[d]
    BY <1>2, <1>4, SMTT(40) DEF TypeInv, LimiterTypeOK
  <2>3. pc' = [pc EXCEPT ![c] = label] /\ arg' = arg
    BY <1>2, <1>4 DEF Goto
  <2>4. QED
    BY <1>1, <2>1, <2>2, <2>3, QuietStep
<1>5. QED
  BY <1>3, <1>4, SMTT(40)

\* The look-up of an add establishes that the pid is absent.
LEMMA FindNoneList ==
    ASSUME TypeInv, ListInv, NEW c \in Caller, NEW label \in {"add_usage", "add_alloc"},
           pc[c] \in {"add_node", "add_again"}, FindNone(c, label)
    PROVE  ListInv'
<1>1. UNCHANGED listVars /\ label \notin FoundPC
  BY SMTT(40) DEF FindNone, FoundPC
<1>2. PICK n \in Node \cup {NoNode} :
        /\ FindNodeByPid(arg[c].pid, n)
        /\ IF n # NoNode
           THEN Return(c, "E101")
           ELSE Goto(c, label) /\ UNCHANGED <<arg, task, node>>
  BY ZenonT(40) DEF FindNone
<1>3. CASE n # NoNode
  BY <1>1, <1>2, <1>3, ReturnQuiet
<1>4. CASE n = NoNode
  <2>1. \A i \in DOMAIN list : npid[list[i]] # arg[c].pid
    <3>1. \A i \in DOMAIN list : list[i] \in Node
      BY DEF TypeInv, LimiterTypeOK
    <3>2. QED
      BY <1>2, <1>4, <3>1, MemoryLimitAssumption DEF FindNodeByPid
  <2>2. pc' = [pc EXCEPT ![c] = label] /\ UNCHANGED <<arg, node>>
    BY <1>2, <1>4 DEF Goto
  <2>3. QED
    BY <1>1, <2>1, <2>2, QuietStep
<1>5. QED
  BY <1>3, <1>4

\* Checking the usage and setting the limit leave the list alone.
LEMMA CheckAndSetList ==
    ASSUME TypeInv, ListInv, NEW c \in Caller, NEW label,
           \/ /\ <<pc[c], label>> \in {<<"add_usage", "add_set">>, <<"upd_usage", "upd_set">>}
              /\ CheckUsage(c, label)
           \/ /\ <<pc[c], label>> \in {<<"add_set", "add_again">>, <<"upd_set", "upd_store">>,
                                       <<"rem_set", "rem_del">>}
              /\ SetLimit(c, label)
    PROVE  ListInv'
<1>1. UNCHANGED listVars /\ pc[c] # "add_link" /\ label # "add_link"
  BY DEF CheckUsage, SetLimit
<1>2. (label \in AbsentPC => pc[c] \in AbsentPC) /\ (label \in FoundPC => pc[c] \in FoundPC)
  BY DEF AbsentPC, FoundPC
<1>3. \/ \E r : Return(c, r)
      \/ Goto(c, label) /\ UNCHANGED <<arg, node>>
  BY DEF CheckUsage, SetLimit
<1>4. QED
  BY <1>1, <1>2, <1>3, ReturnQuiet, MoveQuiet, SMTT(40)

\* In the serial specification a caller inside a call is alone there.
LEMMA Alone ==
    ASSUME Serial, NEW c \in Caller, InCall(c)
    PROVE  \A d \in Caller \ {c} : pc[d] \in {"idle", "oops"}
  BY DEF Serial, InCall

\* The new node is not in the list.
LEMMA AddAllocList ==
    ASSUME SerialInv, NEW c \in Caller, AddAlloc(c) PROVE ListInv'
<1> USE DEF SerialInv
<1>1. UNCHANGED <<list, npid, nlimit>> /\ pc[c] = "add_alloc" /\ InCall(c)
  BY DEF AddAlloc, NoMemory, InCall
<1>2. CASE Return(c, "ENOMEM") /\ UNCHANGED heap
  BY <1>1, <1>2, ReturnQuiet DEF listVars
<1>3. ASSUME NEW n \in Node \ heap, heap' = heap \cup {n}, node' = [node EXCEPT ![c] = n],
             Goto(c, "add_link"), UNCHANGED <<arg, task>>
      PROVE  ListInv'
  <2>1. /\ pc'[c] = "add_link" /\ node'[c] = n
        /\ \A d \in Caller \ {c} : pc'[d] \in {"idle", "oops"} /\ pc[d] \in {"idle", "oops"}
    BY <1>1, <1>3, Alone, SMTT(40) DEF Goto, TypeInv, LimiterTypeOK
  <2>2. heap = {list[i] : i \in DOMAIN list}
    BY <1>1, <2>1, SMTT(40) DEF ListInv, NodesAccountedFor
  <2>3. {node'[d] : d \in {e \in Caller : pc'[e] = "add_link"}} = {n}
    BY <2>1, SMTT(40)
  <2>4. NodesAccountedFor'
    BY <1>1, <1>3, <2>1, <2>2, <2>3 DEF NodesAccountedFor
  <2>5. NoDuplicates'
    BY <1>1, SMTT(40) DEF ListInv, NoDuplicates
  <2>6. FoundNodeStays'
    BY <2>1, SMTT(40) DEF FoundNodeStays
  <2>7. AddStillAbsent'
    BY <1>1, <1>3, <2>1 DEF ListInv, AddStillAbsent, AbsentPC
  <2>8. QED
    BY <2>4, <2>5, <2>6, <2>7 DEF ListInv
<1>4. QED
  BY <1>2, <1>3 DEF AddAlloc, NoMemory

\* Linking a node for an absent pid keeps the list consistent.
LEMMA AddLinkList ==
    ASSUME SerialInv, NEW c \in Caller, AddLink(c) PROVE ListInv'
<1> USE DEF SerialInv
<1>1. PICK n \in Node : n = node[c]
  BY DEF AddLink, TypeInv, LocalsSet, NodePC
<1>2. /\ pc'[c] = "idle"
      /\ \A d \in Caller \ {c} : pc'[d] \in {"idle", "oops"} /\ pc[d] \in {"idle", "oops"}
  BY Alone, SMTT(40) DEF AddLink, Return, InCall, TypeInv, LimiterTypeOK
<1>3. /\ list \in Seq(Node) /\ Len(list) \in Nat
      /\ Len(list') = Len(list) + 1 /\ list'[1] = n
      /\ \A i \in 1..Len(list) : list'[i + 1] = list[i]
      /\ DOMAIN list = 1..Len(list) /\ DOMAIN list' = 1..(Len(list) + 1)
      /\ \A i \in 2..(Len(list) + 1) : i - 1 \in DOMAIN list /\ list'[i] = list[i - 1]
  <2>1. list \in Seq(Node) /\ list' = Cons(n, list)
    BY <1>1 DEF AddLink, TypeInv, LimiterTypeOK
  <2>2. IsCons(list', n, list)
    BY <2>1, ConsIsCons, ZenonT(40)
  <2>3. QED
    BY <2>1, <2>2, Zenon DEF IsCons
<1>5. \A i \in DOMAIN list : list[i] \in Node /\ list[i] # n /\ npid[list[i]] # arg[c].pid
  BY <1>1, <1>3 DEF AddLink, ListInv, NodesAccountedFor, AddStillAbsent, AbsentPC
<1>6. npid'[n] = arg[c].pid /\ \A m \in Node \ {n} : npid'[m] = npid[m]
  BY <1>1 DEF AddLink, TypeInv, LimiterTypeOK
<1>7. \A i \in DOMAIN list' : i = 1 \/ i \in 2..(Len(list) + 1)
  BY <1>3
<1>8. NoDuplicates'
  <2> SUFFICES ASSUME NEW i \in DOMAIN list', NEW j \in DOMAIN list',
                      npid'[list'[i]] = npid'[list'[j]]
               PROVE  i = j
    BY DEF NoDuplicates
  <2>1. CASE i = 1 \/ j = 1
    <3>1. npid'[list'[1]] = arg[c].pid
      BY <1>3, <1>6
    <3>2. \A k \in DOMAIN list' : k # 1 => npid'[list'[k]] # arg[c].pid
      BY <1>3, <1>5, <1>6, <1>7, SMTT(40)
    <3>3. QED
      BY <2>1, <3>1, <3>2
  <2>2. CASE i # 1 /\ j # 1
    <3>1. /\ i - 1 \in DOMAIN list /\ j - 1 \in DOMAIN list
          /\ npid[list[i - 1]] = npid[list[j - 1]]
      BY <1>3, <1>5, <1>6, <1>7, <2>2
    <3>2. i - 1 = j - 1
      BY <3>1 DEF ListInv, NoDuplicates
    <3>3. QED
      BY <1>3, <3>2
  <2>3. QED
    BY <2>1, <2>2
<1>9. {list'[i] : i \in DOMAIN list'} = {list[i] : i \in DOMAIN list} \cup {n}
  <2>1. ASSUME NEW i \in DOMAIN list PROVE \E k \in DOMAIN list' : list'[k] = list[i]
    <3>1. i + 1 \in DOMAIN list' /\ list'[i + 1] = list[i]
      BY <1>3
    <3>2. QED
      BY <3>1
  <2>2. \E k \in DOMAIN list' : list'[k] = n
    BY <1>3
  <2>3. \A k \in DOMAIN list' : list'[k] = n \/ \E i \in DOMAIN list : list'[k] = list[i]
    BY <1>3, <1>7
  <2>4. QED
    BY <2>1, <2>2, <2>3, SMTT(40)
<1>10. NodesAccountedFor'
  <2>1. heap = {list[i] : i \in DOMAIN list} \cup {n}
    BY <1>1, <1>2 DEF AddLink, ListInv, NodesAccountedFor
  <2>2. {node'[d] : d \in {e \in Caller : pc'[e] = "add_link"}} = {}
    BY <1>2
  <2>3. \A d \in Caller : pc'[d] # "add_link"
    BY <1>2
  <2>4. heap' = heap
    BY DEF AddLink
  <2>5. QED
    BY <1>9, <2>1, <2>2, <2>3, <2>4, SMTT(40) DEF NodesAccountedFor
<1>11. FoundNodeStays' /\ AddStillAbsent'
  BY <1>2 DEF FoundNodeStays, AddStillAbsent, AbsentPC
<1>12. QED
  BY <1>8, <1>10, <1>11, SMTT(40) DEF ListInv

\* Storing a limit keeps the list consistent.
LEMMA UpdateStoreList ==
    ASSUME SerialInv, NEW c \in Caller, UpdateStore(c) PROVE ListInv'
<1> USE DEF SerialInv
<1>1. UNCHANGED <<list, heap, npid>>
  BY DEF UpdateStore, NewNlimit
<1>2. /\ pc'[c] = "idle"
      /\ \A d \in Caller \ {c} : pc'[d] \in {"idle", "oops"} /\ pc[d] \in {"idle", "oops"}
  BY Alone, ZenonT(40) DEF UpdateStore, NewNlimit, Return, InCall, TypeInv, LimiterTypeOK
<1>3. pc[c] = "upd_store"
  BY DEF UpdateStore, NewNlimit
<1>4. NodesAccountedFor'
  BY <1>1, <1>2, <1>3 DEF ListInv, NodesAccountedFor
<1>5. QED
  BY <1>1, <1>2, <1>4 DEF ListInv, NoDuplicates, FoundNodeStays, AddStillAbsent, AbsentPC

\* Unlinking position i of a sequence without repetitions takes out that element only.
LEMMA RemoveAtRange ==
    ASSUME NEW S, NEW s \in Seq(S), NEW i \in 1..Len(s),
           \A j, k \in 1..Len(s) : s[j] = s[k] => j = k
    PROVE  {RemoveAt(s, i)[j] : j \in 1..(Len(s) - 1)} = {s[j] : j \in 1..Len(s)} \ {s[i]}
<1>1. Len(s) \in Nat /\ i \in Int /\ i >= 1 /\ i <= Len(s)
  OBVIOUS
<1>2. ASSUME NEW j \in 1..(Len(s) - 1)
      PROVE  \E k \in 1..Len(s) : k # i /\ RemoveAt(s, i)[j] = s[k]
  <2>1. CASE j < i
    BY <1>1, <2>1, RemoveAtFacts
  <2>2. CASE ~(j < i)
    <3>1. j + 1 \in 1..Len(s) /\ j + 1 # i
      BY <1>1, <2>2
    <3>2. QED
      BY <2>2, <3>1, RemoveAtFacts
  <2>3. QED
    BY <2>1, <2>2
<1>3. ASSUME NEW k \in 1..Len(s), k # i
      PROVE  \E j \in 1..(Len(s) - 1) : RemoveAt(s, i)[j] = s[k]
  <2>1. CASE k < i
    <3>1. k \in 1..(Len(s) - 1)
      BY <1>1, <2>1
    <3>2. QED
      BY <2>1, <3>1, RemoveAtFacts
  <2>2. CASE ~(k < i)
    <3>1. k - 1 \in 1..(Len(s) - 1) /\ ~(k - 1 < i) /\ (k - 1) + 1 = k
      BY <1>1, <1>3, <2>2
    <3>2. RemoveAt(s, i)[k - 1] = s[(k - 1) + 1]
      BY <3>1, RemoveAtFacts
    <3>3. QED
      BY <3>1, <3>2
  <2>3. QED
    BY <2>1, <2>2
<1>4. ASSUME NEW j \in 1..(Len(s) - 1)
      PROVE  RemoveAt(s, i)[j] \in {s[k] : k \in 1..Len(s)} \ {s[i]}
  <2>1. PICK k \in 1..Len(s) : k # i /\ RemoveAt(s, i)[j] = s[k]
    BY <1>2
  <2>2. s[k] # s[i]
    BY <2>1
  <2>3. QED
    BY <2>1, <2>2
<1>5. ASSUME NEW x \in {s[k] : k \in 1..Len(s)} \ {s[i]}
      PROVE  x \in {RemoveAt(s, i)[j] : j \in 1..(Len(s) - 1)}
  <2>1. PICK k \in 1..Len(s) : x = s[k]
    OBVIOUS
  <2>2. k # i
    BY <2>1
  <2>3. PICK j \in 1..(Len(s) - 1) : RemoveAt(s, i)[j] = s[k]
    BY <1>3, <2>2
  <2>4. QED
    BY <2>1, <2>3
<1>6. {RemoveAt(s, i)[j] : j \in 1..(Len(s) - 1)} \subseteq {s[k] : k \in 1..Len(s)} \ {s[i]}
  BY <1>4
<1>7. {s[k] : k \in 1..Len(s)} \ {s[i]} \subseteq {RemoveAt(s, i)[j] : j \in 1..(Len(s) - 1)}
  BY <1>5
<1>8. QED
  BY <1>6, <1>7

\* Unlinking and freeing a node keeps the list consistent.
LEMMA RemoveDelList ==
    ASSUME SerialInv, NEW c \in Caller, RemoveDel(c) PROVE ListInv'
<1> USE DEF SerialInv
<1>1. UNCHANGED npid /\ pc[c] = "rem_del"
  BY DEF RemoveDel, Kfree
<1>2. \A d \in Caller \ {c} : pc[d] \in {"idle", "oops"}
  BY <1>1, Alone DEF InCall
<1>3. PICK i \in DOMAIN list : /\ list[i] = node[c]
                               /\ list' = RemoveAt(list, i)
                               /\ heap' = heap \ {node[c]}
                               /\ Return(c, "OK")
  BY <1>1 DEF RemoveDel, Kfree, ListInv, FoundNodeStays
<1>4. list \in Seq(Node) /\ DOMAIN list = 1..Len(list) /\ i \in 1..Len(list) /\ Len(list) \in Nat
  BY SMTT(40) DEF TypeInv, LimiterTypeOK
<1>5. /\ list' \in Seq(Node) /\ Len(list') = Len(list) - 1
      /\ \A j \in 1..(Len(list) - 1) : list'[j] = IF j < i THEN list[j] ELSE list[j + 1]
  BY <1>3, <1>4, RemoveAtFacts
<1>6. DOMAIN list' = 1..(Len(list) - 1)
  BY <1>5
<1>7. \A d \in Caller : pc'[d] \in {"idle", "oops"}
  BY <1>2, <1>3, SMTT(40) DEF Return, TypeInv, LimiterTypeOK
<1>8. NoDuplicates'
  <2> SUFFICES ASSUME NEW j \in DOMAIN list', NEW k \in DOMAIN list',
                      npid'[list'[j]] = npid'[list'[k]]
               PROVE  j = k
    BY DEF NoDuplicates
  <2> DEFINE old(m) == IF m < i THEN m ELSE m + 1
  <2>1. /\ old(j) \in DOMAIN list /\ list'[j] = list[old(j)]
        /\ old(k) \in DOMAIN list /\ list'[k] = list[old(k)]
    BY <1>4, <1>5, <1>6, SMTT(40)
  <2>2. old(j) = old(k)
    BY <1>1, <2>1, SMTT(40) DEF ListInv, NoDuplicates
  <2>3. QED
    BY <1>4, <1>6, <2>2, SMTT(40)
<1>9. {list'[j] : j \in DOMAIN list'} = {list[j] : j \in DOMAIN list} \ {node[c]}
  <2>1. \A j, k \in 1..Len(list) : list[j] = list[k] => j = k
    BY <1>4 DEF ListInv, NoDuplicates
  <2>2. {RemoveAt(list, i)[j] : j \in 1..(Len(list) - 1)}
            = {list[j] : j \in 1..Len(list)} \ {list[i]}
    BY <1>4, <2>1, RemoveAtRange, ZenonT(40)
  <2>3. QED
    BY <1>3, <1>4, <1>6, <2>2
<1>10. heap = {list[j] : j \in DOMAIN list}
  BY <1>1, <1>2 DEF ListInv, NodesAccountedFor
<1>11. NodesAccountedFor'
  BY <1>3, <1>7, <1>9, <1>10, SMTT(40) DEF NodesAccountedFor
<1>12. FoundNodeStays' /\ AddStillAbsent'
  BY <1>7, SMTT(40) DEF FoundNodeStays, AddStillAbsent, AbsentPC
<1>13. QED
  BY <1>8, <1>11, <1>12 DEF ListInv

\* Every entry into a call keeps the list consistent.
LEMMA CallEnterList ==
    ASSUME SerialInv, NEW c \in Caller, CallEnter(c) PROVE ListInv'
  BY EnterList DEF SerialInv, CallEnter, AddEnter, UpdateEnter, RemoveEnter

\* Every step of the one running call keeps the list consistent.
LEMMA CallStepList ==
    ASSUME SerialInv, NEW c \in Caller, CallStep(c) PROVE ListInv'
<1> USE DEF SerialInv
<1>1. CASE AddTask(c) \/ UpdateTask(c) \/ RemoveTask(c)
  BY <1>1, FindTaskList DEF AddTask, UpdateTask, RemoveTask
<1>2. CASE AddNode(c) \/ AddAgain(c)
  BY <1>2, FindNoneList DEF AddNode, AddAgain
<1>3. CASE UpdateNode(c) \/ RemoveNode(c)
  BY <1>3, FindExistingList DEF UpdateNode, RemoveNode
<1>4. CASE AddUsage(c) \/ UpdateUsage(c)
  BY <1>4, CheckAndSetList DEF AddUsage, UpdateUsage
<1>5. CASE AddSet(c) \/ UpdateSet(c) \/ RemoveSet(c)
  BY <1>5, CheckAndSetList DEF AddSet, UpdateSet, RemoveSet
<1>6. CASE Oops(c)
  BY <1>6, OopsQuiet DEF Oops
<1>7. QED
  BY <1>1, <1>2, <1>3, <1>4, <1>5, <1>6, AddAllocList, AddLinkList, UpdateStoreList,
     RemoveDelList DEF CallStep

\* The invariant of the serial specification holds at the start.
LEMMA SerialInvInit == Init => SerialInv
<1>1. Init => TypeInv
  BY TypeInvInit
<1>2. Init => Serial
  BY DEF Init, Serial, InCall
<1>3. Init => ListInv
  BY DEF Init, ListInv, NoDuplicates, NodesAccountedFor, FoundNodeStays, AddStillAbsent, AbsentPC
<1>4. QED
  BY <1>1, <1>2, <1>3 DEF SerialInv

\* Every step with one caller at a time keeps it.
LEMMA SerialInvStep == SerialInv /\ [Next /\ Serial']_vars => SerialInv'
<1> SUFFICES ASSUME SerialInv, [Next /\ Serial']_vars PROVE SerialInv'
  OBVIOUS
<1>1. TypeInv'
  BY TypeInvStep DEF SerialInv
<1>2. Serial'
  BY DEF SerialInv, Serial, InCall, vars, limiterVars, callVars
<1>3. ListInv'
  <2>1. CASE \E c \in Caller : CallEnter(c) \/ CallStep(c)
    BY <2>1, CallEnterList, CallStepList
  <2>2. CASE UNCHANGED limiterVars
    <3>1. UNCHANGED <<list, heap, npid, pc, arg, node>>
      BY <2>2 DEF limiterVars, listVars, callVars
    <3>2. NoDuplicates'
      BY <3>1, SMTT(40) DEF SerialInv, ListInv, NoDuplicates
    <3>3. NodesAccountedFor'
      BY <3>1 DEF SerialInv, ListInv, NodesAccountedFor
    <3>4. FoundNodeStays'
      BY <3>1 DEF SerialInv, ListInv, FoundNodeStays
    <3>5. AddStillAbsent'
      BY <3>1 DEF SerialInv, ListInv, AddStillAbsent
    <3>6. QED
      BY <3>2, <3>3, <3>4, <3>5 DEF ListInv
  <2>3. QED
    BY <2>1, <2>2 DEF Next, vars
<1>4. QED
  BY <1>1, <1>2, <1>3 DEF SerialInv

\* The inductive invariant of the serial specification holds in every state.
THEOREM SerialInvariant == SerialSpec => []SerialInv
  BY SerialInvInit, SerialInvStep, PTL DEF SerialSpec

\* One caller at a time, the list never holds a pid twice, whatever tasks and
\* prlimit64 callers do in between.
THEOREM SerialNoDuplicates == SerialSpec => []NoDuplicates
<1>1. SerialInv => NoDuplicates
  BY DEF SerialInv, ListInv
<1>2. QED
  BY <1>1, SerialInvariant, PTL

\* One caller at a time, no node leaks and no freed node stays in the list.
THEOREM SerialNodesAccountedFor == SerialSpec => []NodesAccountedFor
<1>1. SerialInv => NodesAccountedFor
  BY DEF SerialInv, ListInv
<1>2. QED
  BY <1>1, SerialInvariant, PTL

\* One caller at a time, update and remove never act on a node that is gone.
THEOREM SerialFoundNodeStays == SerialSpec => []FoundNodeStays
<1>1. SerialInv => FoundNodeStays
  BY DEF SerialInv, ListInv
<1>2. QED
  BY <1>1, SerialInvariant, PTL

\* The head of a call moves no caller but its own.
LEMMA EnterMovesOne ==
    ASSUME pc \in [Caller -> PC], NEW d \in Caller, NEW e \in Caller \ {d},
           NEW a, NEW admin, NEW valid, NEW label, Enter(d, a, admin, valid, label)
    PROVE  pc'[e] = pc[e]
  BY DEF Enter, Return

\* One caller at a time, a call that has changed the limit of a process never
\* fails with -101: the second look-up of add cannot find a node.
THEOREM SerialChangedMeansDone == SerialSpec => ChangedMeansDone
<1> DEFINE AfterSet == {"add_again", "add_alloc", "add_link", "upd_store", "rem_del"}
           Done == \A c \in Caller : pc[c] \in AfterSet /\ pc'[c] = "idle"
                                         => ret'[c] \in {"OK", "ENOMEM"}
<1>1. SerialInv /\ [Next /\ Serial']_vars => [Done]_vars
  <2> SUFFICES ASSUME SerialInv, Next, NEW c \in Caller, pc[c] \in AfterSet, pc'[c] = "idle"
               PROVE  ret'[c] \in {"OK", "ENOMEM"}
    BY Zenon
  <2>1. pc \in [Caller -> PC] /\ ret \in [Caller -> Ret]
    BY DEF SerialInv, TypeInv, LimiterTypeOK
  <2>2. CallStep(c)
    <3>1. PICK d \in Caller : CallEnter(d) \/ CallStep(d)
      BY SMTT(40) DEF Next, limiterVars, callVars
    <3>2. ASSUME NEW e \in Caller \ {d} PROVE pc'[e] = pc[e]
      <4>1. CASE CallEnter(d)
        BY <2>1, <4>1, EnterMovesOne DEF CallEnter, AddEnter, UpdateEnter, RemoveEnter
      <4>2. CASE AddTask(d) \/ UpdateTask(d) \/ RemoveTask(d)
        BY <2>1, <4>2 DEF AddTask, UpdateTask, RemoveTask, FindTask, NoSuchTask, Return, Goto
      <4>3. CASE AddNode(d) \/ AddAgain(d)
        BY <2>1, <4>3, SMTT(40) DEF AddNode, AddAgain, FindNone, Return, Goto
      <4>4. CASE UpdateNode(d) \/ RemoveNode(d)
        BY <2>1, <4>4, SMTT(40) DEF UpdateNode, RemoveNode, FindExisting, Return, Goto
      <4>5. CASE AddUsage(d) \/ UpdateUsage(d)
        BY <2>1, <4>5 DEF AddUsage, UpdateUsage, CheckUsage, Return, Goto
      <4>6. CASE AddSet(d) \/ UpdateSet(d) \/ RemoveSet(d)
        BY <2>1, <4>6, SMTT(40) DEF AddSet, UpdateSet, RemoveSet, SetLimit, Return, Goto
      <4>7. CASE AddAlloc(d) \/ AddLink(d) \/ UpdateStore(d) \/ RemoveDel(d) \/ Oops(d)
        BY <2>1, <4>7 DEF AddAlloc, NoMemory, AddLink, UpdateStore, NewNlimit, RemoveDel, Kfree, Oops, Return, Goto
      <4>8. QED
        BY <3>1, <4>1, <4>2, <4>3, <4>4, <4>5, <4>6, <4>7 DEF CallStep
    <3>3. d = c
      BY <3>2, SMTT(40)
    <3>4. ~CallEnter(c)
      BY ZenonT(40) DEF CallEnter, AddEnter, UpdateEnter, RemoveEnter, Enter
    <3>5. QED
      BY <3>1, <3>3, <3>4
  <2>3. CASE AddAgain(c)
    <3>1. \A i \in DOMAIN list : npid[list[i]] # arg[c].pid
      BY <2>3 DEF AddAgain, SerialInv, ListInv, AddStillAbsent, AbsentPC
    <3>2. \A n \in Node \cup {NoNode} : FindNodeByPid(arg[c].pid, n) => n = NoNode
      BY <3>1, SMTT(40) DEF FindNodeByPid
    <3>3. Goto(c, "add_alloc")
      BY <2>3, <3>2 DEF AddAgain, FindNone
    <3>4. QED
      BY <2>1, <3>3 DEF Goto
  <2>4. CASE AddAlloc(c) \/ AddLink(c) \/ UpdateStore(c) \/ RemoveDel(c)
    <3>1. Return(c, "OK") \/ Return(c, "ENOMEM") \/ Goto(c, "add_link") \/ Goto(c, "oops")
      BY <2>4 DEF AddAlloc, NoMemory, AddLink, UpdateStore, NewNlimit, RemoveDel, Kfree
    <3>2. QED
      BY <2>1, <3>1, SMTT(40) DEF Return, Goto
  <2>5. QED
    BY <2>2, <2>3, <2>4 DEF CallStep, AddTask, UpdateTask, RemoveTask, AddNode, UpdateNode,
       RemoveNode, AddUsage, UpdateUsage, AddSet, UpdateSet, RemoveSet, Oops
<1>2. QED
  BY <1>1, SerialInvariant, PTL DEF SerialSpec, ChangedMeansDone
============================================================================
