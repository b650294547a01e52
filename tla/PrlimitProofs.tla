--------------------------- MODULE PrlimitProofs ---------------------------
(***************************************************************************)
(* Proofs about Tasks and Prlimit, for any number of tasks and callers.    *)
(***************************************************************************)
EXTENDS Prlimit, FiniteSetTheorems, TLAPS

\* What do_prlimit does to the limits: they keep their type, and it fails when
\* the soft limit exceeds the hard one.
LEMMA DoPrlimitEffect ==
    ASSUME TasksTypeOK, NEW g \in Slot, NEW new \in Rlimit, NEW capResource \in BOOLEAN,
           NEW ret, DoPrlimit(g, new, capResource, ret)
    PROVE  /\ rlim' \in [Slot -> Rlimit]
           /\ ret \in {"OK", "EINVAL", "EPERM", "EACCES"}
           /\ rlim' # rlim => new.cur <= new.max
           /\ \A h \in Slot \ {g} : rlim'[h] = rlim[h]
           /\ rlim'[g] \in {rlim[g], new}
<1>1. PICK verdict \in LsmVerdict :
        /\ ret = PrlimitError(g, new, capResource, verdict)
        /\ rlim' = IF ret = "OK" THEN [rlim EXCEPT ![g] = new] ELSE rlim
  BY DEF DoPrlimit
<1>2. verdict \in {"OK", "EACCES"}
  BY TasksAssumption
<1>3. new.cur \in Nat /\ new.max \in Nat /\ rlim[g].max \in Nat
  BY DEF TasksTypeOK, Rlimit
<1>4. /\ ret \in {"OK", "EINVAL", "EPERM", "EACCES"}
      /\ ret = "OK" => new.cur <= new.max
  BY <1>1, <1>2, <1>3 DEF PrlimitError
<1>5. rlim \in [Slot -> Rlimit]
  BY DEF TasksTypeOK
<1>6. QED
  BY <1>1, <1>4, <1>5

\* A step of a task keeps the types of the task variables.
LEMMA TasksTypeStep ==
    ASSUME TasksTypeOK, TasksNext
    PROVE  TasksTypeOK'
<1> USE TasksAssumption DEF TasksTypeOK
<1>1. PICK s \in Slot :
        \/ \E n \in Slot, p \in Pid : Fork(s, n, p) \/ CloneThread(s, n, p)
        \/ Exit(s) \/ Release(s) \/ PutTaskStruct(s)
        \/ Mmap(s, 1) \/ Munmap(s, 1)
        \/ \E new \in [cur : UserLimit, max : UserLimit], capResource \in BOOLEAN :
               Setrlimit(s, new, capResource)
  BY DEF TasksNext
<1>2. ASSUME NEW n \in Slot, NEW p \in Pid, Fork(s, n, p) PROVE TasksTypeOK'
  <2>1. rlim[tsig[s]] \in Rlimit /\ vm[tsig[s]] \in 0..MaxPages
    OBVIOUS
  <2>2. QED
    BY <1>2, <2>1 DEF Fork, AllocTaskStruct
<1>3. ASSUME NEW n \in Slot, NEW p \in Pid, CloneThread(s, n, p) PROVE TasksTypeOK'
  BY <1>3 DEF CloneThread, ThreadPid
<1>4. CASE Exit(s) \/ Release(s) \/ PutTaskStruct(s)
  BY <1>4 DEF Exit, Release, PutTaskStruct, LastReference
<1>5. CASE Mmap(s, 1) \/ Munmap(s, 1)
  <2>1. vm[tsig[s]] \in 0..MaxPages
    OBVIOUS
  <2>2. \E k \in 0..MaxPages : vm' = [vm EXCEPT ![tsig[s]] = k]
    BY <1>5, <2>1 DEF Mmap, Munmap
  <2>3. QED
    BY <1>5, <2>2 DEF Mmap, Munmap
<1>6. ASSUME NEW new \in [cur : UserLimit, max : UserLimit], NEW capResource \in BOOLEAN,
             Setrlimit(s, new, capResource)
      PROVE  TasksTypeOK'
  <2>1. new \in Rlimit
    BY DEF Rlimit
  <2>2. PICK ret : DoPrlimit(tsig[s], new, capResource, ret)
    BY <1>6 DEF Setrlimit
  <2>3. rlim' \in [Slot -> Rlimit]
    BY <2>1, <2>2, DoPrlimitEffect
  <2>4. QED
    BY <1>6, <2>3 DEF Setrlimit
<1>7. QED
  BY <1>1, <1>2, <1>3, <1>4, <1>5, <1>6

\* No step of a task takes or drops a reference, and only PutTaskStruct frees.
LEMMA TasksStepRefs ==
    ASSUME TasksTypeOK, TasksNext
    PROVE  /\ usage' = usage
           /\ \A s \in Slot : tstate[s] # "free" /\ tstate'[s] = "free" => usage[s] = 0
           /\ \A s \in Slot : tstate[s] # "free" => tpid'[s] = tpid[s] /\ tsig'[s] = tsig[s]
  BY DEF TasksTypeOK, TasksNext, Fork, AllocTaskStruct, CloneThread, ThreadPid, Exit, Release, PutTaskStruct, LastReference,
         Mmap, Munmap, Setrlimit

----------------------------------------------------------------------------
(* The references prlimit64 takes. *)

\* The inductive invariant: types, the balance of references, and a task for
\* every caller that holds one.  PrPut needs the balance even for the type of
\* usage, which it decrements.
LimitsInv ==
    /\ LimitsTypeOK
    /\ RefsBalanced
    /\ \A c \in PrCaller : Holding(c) => ptask[c] \in Slot /\ tstate[ptask[c]] # "free"

\* The callers that hold a task are finitely many.
LEMMA HoldersFinite ==
    ASSUME NEW s PROVE IsFiniteSet(Holders(s)) /\ Cardinality(Holders(s)) \in Nat
<1>1. Holders(s) \subseteq PrCaller
  BY DEF Holders
<1>2. QED
  BY <1>1, PrlimitAssumption, FS_Subset, FS_CardinalityType

\* The inductive invariant holds at the start: nobody holds anything.
LEMMA LimitsInvInit == LimitsInit => LimitsInv
<1> SUFFICES ASSUME LimitsInit PROVE LimitsInv
  OBVIOUS
<1> USE TasksAssumption, PrlimitAssumption DEF LimitsInit, TasksInit, PrInit
<1>1. TasksTypeOK
  <2>1. (CHOOSE p \in Pid : TRUE) \in Pid
    OBVIOUS
  <2>2. tpid \in [Slot -> Pid]
    BY <2>1
  <2>3. rlim \in [Slot -> Rlimit]
    BY DEF Rlimit
  <2>4. QED
    BY <2>2, <2>3 DEF TasksTypeOK
<1>2. PrTypeOK
  BY DEF PrTypeOK, PrRet
<1>3. \A c \in PrCaller : ~Holding(c)
  BY DEF Holding
<1>4. RefsBalanced
  <2>1. \A s \in Slot : Holders(s) = {}
    BY <1>3 DEF Holders
  <2>2. QED
    BY <2>1, FS_EmptySet DEF RefsBalanced
<1>5. QED
  BY <1>1, <1>2, <1>3, <1>4 DEF LimitsInv, LimitsTypeOK

\* A step of a task keeps the inductive invariant: it frees only unreferenced tasks.
LEMMA TasksStepInv ==
    ASSUME LimitsInv, TasksNext, UNCHANGED prVars
    PROVE  LimitsInv'
<1>1. TasksTypeOK'
  BY TasksTypeStep DEF LimitsInv, LimitsTypeOK
<1>2. PrTypeOK'
  BY DEF LimitsInv, LimitsTypeOK, PrTypeOK, prVars
<1>3. usage' = usage /\ \A s : Holders(s)' = Holders(s)
  BY TasksStepRefs DEF LimitsInv, LimitsTypeOK, Holders, Holding, prVars
<1>4. RefsBalanced'
  BY <1>3 DEF LimitsInv, RefsBalanced
<1>5. ASSUME NEW c \in PrCaller, Holding(c)' PROVE ptask'[c] \in Slot /\ tstate'[ptask'[c]] # "free"
  <2>1. Holding(c) /\ ptask'[c] = ptask[c] /\ ptask[c] \in Slot /\ tstate[ptask[c]] # "free"
    BY <1>5 DEF Holding, LimitsInv, prVars
  <2>2. c \in Holders(ptask[c])
    BY <2>1 DEF Holders
  <2>3. usage[ptask[c]] # 0
    BY <2>1, <2>2, HoldersFinite, FS_EmptySet DEF LimitsInv, RefsBalanced
  <2>4. QED
    BY <2>1, <2>3, TasksStepRefs DEF LimitsInv, LimitsTypeOK
<1>6. QED
  BY <1>1, <1>2, <1>4, <1>5 DEF LimitsInv, LimitsTypeOK

\* get_task_struct adds the caller to the holders and one to the count.
LEMMA PrGetInv ==
    ASSUME LimitsInv, NEW c \in PrCaller, NEW s \in Slot,
           NEW new \in [cur : UserLimit, max : UserLimit] \cup {NoRlimit},
           NEW idMatch \in BOOLEAN, NEW capResource \in BOOLEAN,
           PrGet(c, s, new, idMatch, capResource)
    PROVE  LimitsInv'
<1> USE DEF LimitsInv, LimitsTypeOK, PrGet
<1>1. TasksTypeOK'
  BY DEF TasksTypeOK
<1>2. PrTypeOK'
  BY DEF PrTypeOK, PrRet
<1>3. c \notin Holders(s) /\ Holders(s)' = Holders(s) \cup {c}
  BY DEF Holders, Holding, PrTypeOK
<1>4. \A t \in Slot \ {s} : Holders(t)' = Holders(t)
  BY DEF Holders, Holding, PrTypeOK
<1>5. Cardinality(Holders(s)') = Cardinality(Holders(s)) + 1
  BY <1>3, HoldersFinite, FS_AddElement
<1>6. RefsBalanced'
  BY <1>4, <1>5 DEF RefsBalanced, TasksTypeOK
<1>7. \A d \in PrCaller : Holding(d)' => ptask'[d] \in Slot /\ tstate'[ptask'[d]] # "free"
  BY DEF Holding, PrTypeOK, Hashed
<1>8. QED
  BY <1>1, <1>2, <1>6, <1>7

\* do_prlimit changes limits only.
LEMMA PrSetInv ==
    ASSUME LimitsInv, NEW c \in PrCaller, PrSet(c)
    PROVE  LimitsInv'
<1> USE DEF LimitsInv, LimitsTypeOK, PrSet
<1>1. Holding(c) /\ ptask[c] \in Slot /\ tsig[ptask[c]] \in Slot
  BY DEF Holding, TasksTypeOK
<1>2. PICK ret \in {"OK", "EINVAL", "EPERM", "EACCES"} :
        /\ IF pnew[c] = NoRlimit
           THEN ret = "OK" /\ UNCHANGED rlim
           ELSE DoPrlimit(tsig[ptask[c]], pnew[c], pcap[c], ret)
        /\ pret' = [pret EXCEPT ![c] = ret]
  OBVIOUS
<1>3. rlim' \in [Slot -> Rlimit]
  <2>1. CASE pnew[c] = NoRlimit
    BY <1>2, <2>1 DEF TasksTypeOK
  <2>2. CASE pnew[c] # NoRlimit
    <3>1. pnew[c] \in Rlimit /\ pcap[c] \in BOOLEAN
      BY <2>2, TasksAssumption DEF PrTypeOK, Rlimit
    <3>2. QED
      BY <1>1, <1>2, <2>2, <3>1, DoPrlimitEffect
  <2>3. QED
    BY <2>1, <2>2
<1>4. TasksTypeOK'
  BY <1>3 DEF TasksTypeOK
<1>5. PrTypeOK'
  BY <1>2 DEF PrTypeOK, PrRet
<1>6. \A s \in Slot : Holders(s)' = Holders(s)
  BY DEF Holders, Holding, PrTypeOK
<1>7. RefsBalanced'
  BY <1>6 DEF RefsBalanced
<1>8. \A d \in PrCaller : Holding(d)' => ptask'[d] \in Slot /\ tstate'[ptask'[d]] # "free"
  BY DEF Holding, PrTypeOK
<1>9. QED
  BY <1>4, <1>5, <1>7, <1>8

\* put_task_struct takes the caller out and one off the count, which cannot be 0.
LEMMA PrPutInv ==
    ASSUME LimitsInv, NEW c \in PrCaller, PrPut(c)
    PROVE  LimitsInv'
<1> USE DEF LimitsInv, LimitsTypeOK, PrPut, Put
<1>0. PICK s \in Slot : s = ptask[c]
  BY DEF Holding
<1>1. Holding(c) /\ ptask[c] = s /\ c \in Holders(s)
  BY <1>0 DEF Holding, Holders
<1>2. Holders(s)' = Holders(s) \ {c}
  BY <1>1, PrlimitAssumption DEF Holders, Holding, PrTypeOK
<1>3. \A t \in Slot \ {s} : Holders(t)' = Holders(t)
  BY <1>1, PrlimitAssumption DEF Holders, Holding, PrTypeOK
<1>4. Cardinality(Holders(s)') = Cardinality(Holders(s)) - 1
  BY <1>1, <1>2, HoldersFinite, FS_RemoveElement
<1>5. RefsBalanced'
  BY <1>1, <1>3, <1>4 DEF RefsBalanced, TasksTypeOK
<1>6. usage' \in [Slot -> Nat]
  <2>1. Cardinality(Holders(s)) # 0
    BY <1>1, HoldersFinite, FS_EmptySet
  <2>2. usage[s] \in Nat \ {0}
    BY <1>1, <2>1, HoldersFinite DEF RefsBalanced
  <2>3. usage[s] - 1 \in Nat
    BY <2>2
  <2>4. usage \in [Slot -> Nat] /\ usage' = [usage EXCEPT ![s] = usage[s] - 1]
    BY <1>1 DEF TasksTypeOK
  <2>5. QED
    BY <2>3, <2>4
<1>7. TasksTypeOK'
  BY <1>6 DEF TasksTypeOK
<1>8. PrTypeOK'
  BY DEF PrTypeOK, PrRet
<1>9. \A d \in PrCaller : Holding(d)' => ptask'[d] \in Slot /\ tstate'[ptask'[d]] # "free"
  BY DEF Holding, PrTypeOK
<1>10. QED
  BY <1>5, <1>7, <1>8, <1>9

\* Every step of tasks and prlimit64 callers keeps the inductive invariant.
LEMMA LimitsInvStep == LimitsInv /\ [LimitsNext]_limitsVars => LimitsInv'
<1> SUFFICES ASSUME LimitsInv, [LimitsNext]_limitsVars PROVE LimitsInv'
  OBVIOUS
<1>1. CASE TasksNext /\ UNCHANGED prVars
  BY <1>1, TasksStepInv
<1>2. CASE PrNext
  <2>1. PICK c \in PrCaller :
          \/ \E idMatch, capResource \in BOOLEAN :
              \/ \E pid \in Pid, ret \in PrRet : PrFail(c, pid, ret, idMatch, capResource)
              \/ \E s \in Slot,
                    new \in [cur : UserLimit, max : UserLimit] \cup {NoRlimit} :
                     PrGet(c, s, new, idMatch, capResource)
          \/ PrSet(c)
          \/ PrPut(c)
    BY <1>2 DEF PrNext
  <2>2. ASSUME NEW pid \in Pid, NEW ret \in PrRet, NEW idMatch \in BOOLEAN,
               NEW capResource \in BOOLEAN, PrFail(c, pid, ret, idMatch, capResource)
        PROVE  LimitsInv'
    BY <2>2 DEF PrFail, LimitsInv, LimitsTypeOK, TasksTypeOK, PrTypeOK, RefsBalanced,
                Holders, Holding, taskVars
  <2>3. QED
    BY <2>1, <2>2, PrGetInv, PrSetInv, PrPutInv
<1>3. CASE UNCHANGED limitsVars
  BY <1>3 DEF LimitsInv, LimitsTypeOK, TasksTypeOK, PrTypeOK, RefsBalanced,
              Holders, Holding, taskVars, prVars, limitsVars
<1>4. QED
  BY <1>1, <1>2, <1>3 DEF LimitsNext

\* References balance and held tasks exist, in every reachable state.
THEOREM LimitsInvariant == LimitsSpec => []LimitsInv
<1>1. LimitsInit => LimitsInv
  BY LimitsInvInit
<1>2. LimitsInv /\ [LimitsNext]_limitsVars => LimitsInv'
  BY LimitsInvStep
<1>3. QED
  BY <1>1, <1>2, PTL DEF LimitsSpec

\* The types hold in every reachable state.
THEOREM LimitsTypeCorrect == LimitsSpec => []LimitsTypeOK
<1>1. LimitsInv => LimitsTypeOK
  BY DEF LimitsInv
<1>2. QED
  BY <1>1, LimitsInvariant, PTL

\* The references prlimit64 takes and drops always balance.
THEOREM RefsAlwaysBalanced == LimitsSpec => []RefsBalanced
<1>1. LimitsInv => RefsBalanced
  BY DEF LimitsInv
<1>2. QED
  BY <1>1, LimitsInvariant, PTL

\* prlimit64 never uses a task_struct or signal_struct that was freed, however
\* many callers and exiting tasks there are: the claim of the comment in do_prlimit.
THEOREM PinnedTaskAlwaysStays == LimitsSpec => []PinnedTaskStays
<1>1. LimitsInv => PinnedTaskStays
  BY DEF LimitsInv, PinnedTaskStays, SignalFree
<1>2. QED
  BY <1>1, LimitsInvariant, PTL

\* A held task is never recycled: PinnedTaskKeepsIdentity is an action property
\* that follows from the invariant.
THEOREM PinnedTaskAlwaysKeepsIdentity == LimitsSpec => PinnedTaskKeepsIdentity
<1> DEFINE Keeps == \A c \in PrCaller : Holding(c) /\ Holding(c)' =>
                        /\ tpid'[ptask[c]] = tpid[ptask[c]]
                        /\ tsig'[ptask[c]] = tsig[ptask[c]]
<1>1. LimitsInv /\ [LimitsNext]_limitsVars => [Keeps]_limitsVars
  <2> SUFFICES ASSUME LimitsInv, LimitsNext PROVE Keeps
    OBVIOUS
  <2>1. CASE TasksNext /\ UNCHANGED prVars
    BY <2>1, TasksStepRefs DEF LimitsInv, LimitsTypeOK
  <2>2. CASE PrNext
    BY <2>2 DEF PrNext, PrFail, PrGet, PrSet, PrPut, Put, taskVars
  <2>3. QED
    BY <2>1, <2>2 DEF LimitsNext
<1>2. QED
  BY <1>1, LimitsInvariant, LimitsInvStep, PTL DEF LimitsSpec, PinnedTaskKeepsIdentity

----------------------------------------------------------------------------
(* The pid table and the order of the limits. *)

\* A step of a task keeps pids unique: clone only takes an unused one.
LEMMA TasksStepPids ==
    ASSUME TasksTypeOK, PidsUnique, TasksNext
    PROVE  PidsUnique'
<1> USE DEF TasksTypeOK, PidsUnique, Hashed
<1>1. PICK s \in Slot :
        \/ \E n \in Slot, p \in Pid : Fork(s, n, p) \/ CloneThread(s, n, p)
        \/ Exit(s) \/ Release(s) \/ PutTaskStruct(s)
        \/ UNCHANGED <<tstate, tpid>>
  BY DEF TasksNext, Mmap, Munmap, Setrlimit
<1>2. ASSUME NEW n \in Slot, NEW p \in Pid, Fork(s, n, p) \/ CloneThread(s, n, p)
      PROVE  PidsUnique'
  BY <1>2 DEF Fork, CloneThread, ThreadPid, PidUnused, FindTaskByVpid
<1>3. CASE Exit(s) \/ Release(s) \/ PutTaskStruct(s)
  BY <1>3 DEF Exit, Release, PutTaskStruct, LastReference
<1>4. QED
  BY <1>1, <1>2, <1>3

\* fork copies ordered limits and setrlimit stores only ordered ones.
LEMMA TasksStepOrder ==
    ASSUME TasksTypeOK, SoftBelowHard, TasksNext
    PROVE  SoftBelowHard'
<1> USE DEF TasksTypeOK, SoftBelowHard
<1>1. PICK s \in Slot :
        \/ \E n \in Slot, p \in Pid : Fork(s, n, p)
        \/ \E new \in [cur : UserLimit, max : UserLimit], capResource \in BOOLEAN :
               Setrlimit(s, new, capResource)
        \/ UNCHANGED rlim
  BY DEF TasksNext, CloneThread, ThreadPid, Exit, Release, PutTaskStruct, LastReference, Mmap, Munmap
<1>2. ASSUME NEW n \in Slot, NEW p \in Pid, Fork(s, n, p) PROVE SoftBelowHard'
  BY <1>2 DEF Fork, AllocTaskStruct
<1>3. ASSUME NEW new \in [cur : UserLimit, max : UserLimit], NEW capResource \in BOOLEAN,
             Setrlimit(s, new, capResource)
      PROVE  SoftBelowHard'
  <2>1. PICK ret : DoPrlimit(tsig[s], new, capResource, ret)
    BY <1>3 DEF Setrlimit
  <2>2. new \in Rlimit
    BY TasksAssumption DEF Rlimit
  <2>3. tsig[s] \in Slot
    OBVIOUS
  <2>4. /\ rlim' # rlim => new.cur <= new.max
        /\ \A h \in Slot \ {tsig[s]} : rlim'[h] = rlim[h]
        /\ rlim'[tsig[s]] \in {rlim[tsig[s]], new}
    <3> HIDE DEF TasksTypeOK
    <3> QED BY <2>1, <2>2, <2>3, DoPrlimitEffect
  <2>5. CASE rlim' = rlim
    BY <2>5
  <2>6. CASE rlim' # rlim
    BY <2>3, <2>4, <2>6
  <2>7. QED
    BY <2>5, <2>6
<1>4. QED
  BY <1>1, <1>2, <1>3

\* prlimit64 stores only ordered limits.
LEMMA PrStepOrder ==
    ASSUME LimitsInv, SoftBelowHard, PrNext
    PROVE  SoftBelowHard'
<1>1. PICK c \in PrCaller : PrSet(c) \/ UNCHANGED rlim
  BY DEF PrNext, PrFail, PrGet, PrPut, Put, taskVars
<1>2. CASE PrSet(c) /\ rlim' # rlim
  <2>1. ptask[c] \in Slot /\ tsig[ptask[c]] \in Slot
    BY <1>2 DEF PrSet, Holding, LimitsInv, LimitsTypeOK, TasksTypeOK
  <2>2. PICK ret : DoPrlimit(tsig[ptask[c]], pnew[c], pcap[c], ret) /\ pnew[c] # NoRlimit
    BY <1>2 DEF PrSet
  <2>3. pnew[c] \in Rlimit /\ pcap[c] \in BOOLEAN
    BY <2>2, TasksAssumption DEF LimitsInv, LimitsTypeOK, PrTypeOK, Rlimit
  <2>4. QED
    BY <1>2, <2>1, <2>2, <2>3, DoPrlimitEffect DEF SoftBelowHard, LimitsInv, LimitsTypeOK
<1>3. CASE rlim' = rlim
  BY <1>3 DEF SoftBelowHard
<1>4. QED
  BY <1>1, <1>2, <1>3

\* No interleaving of clone, exit and reuse gives one pid to two hashed tasks.
THEOREM PidsAlwaysUnique == LimitsSpec => []PidsUnique
<1>1. LimitsInit => PidsUnique
  BY TasksAssumption DEF LimitsInit, TasksInit, PidsUnique, Hashed
<1>2. LimitsInv /\ PidsUnique /\ [LimitsNext]_limitsVars => PidsUnique'
  <2> SUFFICES ASSUME LimitsInv, PidsUnique, [LimitsNext]_limitsVars PROVE PidsUnique'
    OBVIOUS
  <2>1. CASE TasksNext
    BY <2>1, TasksStepPids DEF LimitsInv, LimitsTypeOK
  <2>2. CASE PrNext \/ UNCHANGED limitsVars
    <3>1. UNCHANGED <<tstate, tpid>>
      BY <2>2 DEF PrNext, PrFail, PrGet, PrSet, PrPut, Put, taskVars, limitsVars
    <3>2. QED
      BY <3>1 DEF PidsUnique, Hashed
  <2>3. QED
    BY <2>1, <2>2 DEF LimitsNext
<1>3. QED
  BY <1>1, <1>2, LimitsInvariant, PTL DEF LimitsSpec

\* No step of tasks and prlimit64 callers disturbs the order of the limits.
LEMMA LimitsStepOrder ==
    ASSUME LimitsInv, SoftBelowHard, [LimitsNext]_limitsVars PROVE SoftBelowHard'
<1>1. CASE TasksNext
  BY <1>1, TasksStepOrder DEF LimitsInv, LimitsTypeOK
<1>2. CASE PrNext
  BY <1>2, PrStepOrder
<1>3. CASE UNCHANGED limitsVars
  BY <1>3 DEF limitsVars, taskVars, SoftBelowHard
<1>4. QED
  BY <1>1, <1>2, <1>3 DEF LimitsNext

\* The order holds at the start: every limit is RLIM_INFINITY.
LEMMA LimitsInitOrder == LimitsInit => SoftBelowHard
  BY TasksAssumption DEF LimitsInit, TasksInit, SoftBelowHard

\* Whoever sets or inherits a limit, the soft one stays within the hard one.
THEOREM SoftAlwaysBelowHard == LimitsSpec => []SoftBelowHard
<1>1. LimitsInv /\ SoftBelowHard /\ [LimitsNext]_limitsVars => SoftBelowHard'
  BY LimitsStepOrder
<1>2. QED
  BY <1>1, LimitsInitOrder, LimitsInvariant, PTL DEF LimitsSpec
============================================================================
