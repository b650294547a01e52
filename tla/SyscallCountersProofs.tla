----------------------- MODULE SyscallCountersProofs -----------------------
(***************************************************************************)
(* No counter and no report gets ahead of the calls made, for every number *)
(* of threads.  CountNeverAhead is not inductive: a store writes the value *)
(* of an older load.  Budget says what that value leaves room for: every   *)
(* call that is still to load its counter has been made and not counted.   *)
(***************************************************************************)
EXTENDS SyscallCounters, FiniteSetTheorems, TLAPS

Loading(k) == {t \in Thread : spc[t] = "load" /\ KindOf(call[t]) = k}

\* The uncounted calls of kind k.
Waiting(k) == Cardinality(Loading(k))

Budget ==
    \A k \in Counter :
        /\ counter[k] + Waiting(k) <= made[k]
        /\ \A t \in Thread : spc[t] = "store" /\ KindOf(call[t]) = k =>
               tmp[t] + 1 + Waiting(k) <= made[k]

CountersInv == CountersTypeOK /\ Budget /\ ReportNeverAhead

\* Each call belongs to one of the four counters.
LEMMA KindType == \A c \in Calls : KindOf(c) \in Counter
BY DEF KindOf, Calls, Counter

\* The waiting calls of a kind are finite in number.
LEMMA WaitingType == \A k \in Counter : IsFiniteSet(Loading(k)) /\ Waiting(k) \in Nat
<1> TAKE k \in Counter
<1>1. Loading(k) \subseteq Thread BY DEF Loading
<1>2. IsFiniteSet(Loading(k)) BY <1>1, FS_Subset, CountersAssumption
<1> QED BY <1>2, FS_CardinalityType DEF Waiting

\* A thread that starts to wait adds one to the waiting calls of its kind.
LEMMA WaitingGrows ==
    ASSUME NEW k \in Counter, NEW t \in Thread, t \notin Loading(k),
           Loading(k)' = Loading(k) \cup {t}
    PROVE  Waiting(k)' = Waiting(k) + 1
<1>1. Cardinality(Loading(k) \cup {t}) = Cardinality(Loading(k)) + 1
  BY WaitingType, FS_AddElement
<1> QED BY <1>1 DEF Waiting

\* A thread that loads its counter waits no more.
LEMMA WaitingShrinks ==
    ASSUME NEW k \in Counter, NEW t \in Loading(k), Loading(k)' = Loading(k) \ {t}
    PROVE  Waiting(k)' = Waiting(k) - 1
<1>1. Cardinality(Loading(k) \ {t}) = Cardinality(Loading(k)) - 1
  BY WaitingType, FS_RemoveElement
<1> QED BY <1>1 DEF Waiting

\* The rest of the step leaves the waiting calls alone.
LEMMA WaitingStays ==
    ASSUME NEW k \in Counter, Loading(k)' = Loading(k)
    PROVE  Waiting(k)' = Waiting(k)
BY DEF Waiting

\* Nothing is counted or waiting at the start.
LEMMA InitBudget == CountersInit => CountersInv
<1> SUFFICES ASSUME CountersInit PROVE CountersInv OBVIOUS
<1>1. CountersTypeOK BY DEF CountersInit, CountersTypeOK, Counter, Calls
<1>2. \A k \in Counter : Loading(k) = {} BY DEF CountersInit, Loading
<1>3. \A k \in Counter : Waiting(k) = 0 BY <1>2, FS_EmptySet DEF Waiting
<1>4. Budget BY <1>3 DEF Budget, CountersInit
<1>5. ReportNeverAhead BY DEF ReportNeverAhead, CountersInit
<1> QED BY <1>1, <1>4, <1>5 DEF CountersInv

\* Every step keeps the invariant.
LEMMA StepBudget == CountersInv /\ [CountersNext]_counterVars => CountersInv'
<1> SUFFICES ASSUME CountersInv, [CountersNext]_counterVars PROVE CountersInv'
  OBVIOUS
<1> USE DEF CountersInv
<1>t. /\ \A k \in Counter : counter[k] \in Nat /\ made[k] \in Nat /\ Waiting(k) \in Nat
      /\ \A u \in Thread : tmp[u] \in Nat /\ call[u] \in Calls /\ KindOf(call[u]) \in Counter
  BY WaitingType, KindType DEF CountersTypeOK
<1>1. ASSUME NEW t \in Thread, NEW c \in Syscall, Enter(t, c) PROVE CountersInv'
  <2> DEFINE k == KindOf(c)
  <2>0. c \in Calls /\ k \in Counter BY CountersAssumption, KindType
  <2>1. CountersTypeOK' BY <1>1, <2>0, <1>t DEF Enter, CountersTypeOK
  <2>2. ReportNeverAhead'
    BY <1>1, <2>0, <1>t DEF Enter, ReportNeverAhead, CountersTypeOK
  <2>3. CASE Counted(c)
    <3>1. Loading(k)' = Loading(k) \cup {t} /\ t \notin Loading(k)
      BY <1>1, <2>3, <2>0 DEF Enter, Loading, CountersTypeOK
    <3>2. \A j \in Counter \ {k} : Loading(j)' = Loading(j)
      BY <1>1, <2>3, <2>0 DEF Enter, Loading, CountersTypeOK
    <3>3. Waiting(k)' = Waiting(k) + 1 BY <3>1, <2>0, WaitingGrows
    <3>4. \A j \in Counter \ {k} : Waiting(j)' = Waiting(j) BY <3>2 DEF Waiting
    <3>5. made'[k] = made[k] + 1 /\ \A j \in Counter \ {k} : made'[j] = made[j]
      BY <1>1, <2>0 DEF Enter, CountersTypeOK
    <3>6. \A j \in Counter : counter'[j] + Waiting(j)' <= made'[j]
      <4> TAKE j \in Counter
      <4>1. CASE j = k BY <4>1, <3>3, <3>5, <1>1, <1>t, <2>0 DEF Budget, Enter
      <4>2. CASE j # k BY <4>2, <3>4, <3>5, <1>1, <1>t DEF Budget, Enter
      <4> QED BY <4>1, <4>2
    <3>7. ASSUME NEW j \in Counter, NEW u \in Thread, spc'[u] = "store", KindOf(call'[u]) = j
          PROVE  tmp'[u] + 1 + Waiting(j)' <= made'[j]
      <4>1. u # t /\ spc[u] = "store" /\ call'[u] = call[u] /\ tmp'[u] = tmp[u]
        BY <1>1, <3>7, <2>3 DEF Enter, CountersTypeOK
      <4>2. j = KindOf(call[u]) BY <4>1, <3>7
      <4>3. tmp[u] + 1 + Waiting(j) <= made[j] BY <4>1, <4>2 DEF Budget
      <4>4. Waiting(j)' - Waiting(j) = made'[j] - made[j] /\ Waiting(j)' \in Nat /\ made'[j] \in Nat
        <5>1. CASE j = k BY <5>1, <3>3, <3>5, <1>t, <2>0
        <5>2. CASE j # k BY <5>2, <3>4, <3>5, <1>t
        <5> QED BY <5>1, <5>2
      <4>5. tmp[u] + 1 + Waiting(j)' <= made'[j] BY <4>3, <4>4, <1>t
      <4> QED BY <4>1, <4>2, <4>5
    <3> QED BY <2>1, <2>2, <3>6, <3>7 DEF Budget
  <2>4. CASE ~Counted(c)
    <3>1. \A j \in Counter : Loading(j)' = Loading(j)
      BY <1>1, <2>4, <2>0 DEF Enter, Loading, CountersTypeOK
    <3>2. \A j \in Counter : Waiting(j)' = Waiting(j) BY <3>1 DEF Waiting
    <3>3. \A j \in Counter : made'[j] \in Nat /\ made[j] <= made'[j]
      BY <1>1, <1>t, <2>0 DEF Enter, CountersTypeOK
    <3>4. \A j \in Counter : counter'[j] + Waiting(j)' <= made'[j]
      BY <3>2, <3>3, <1>1, <1>t DEF Budget, Enter
    <3>5. ASSUME NEW j \in Counter, NEW u \in Thread, spc'[u] = "store", KindOf(call'[u]) = j
          PROVE  tmp'[u] + 1 + Waiting(j)' <= made'[j]
      <4>1. u # t /\ spc[u] = "store" /\ call'[u] = call[u] /\ tmp'[u] = tmp[u]
        BY <1>1, <3>5, <2>4 DEF Enter, CountersTypeOK
      <4>2. j = KindOf(call[u]) BY <4>1, <3>5
      <4>3. tmp[u] + 1 + Waiting(j) <= made[j] BY <4>1, <4>2 DEF Budget
      <4>4. tmp[u] + 1 + Waiting(j)' <= made'[j] BY <4>3, <3>2, <3>3, <1>t
      <4> QED BY <4>1, <4>2, <4>4
    <3> QED BY <2>1, <2>2, <3>4, <3>5 DEF Budget
  <2> QED BY <2>3, <2>4
<1>2. ASSUME NEW t \in Thread, Load(t) PROVE CountersInv'
  <2>k. PICK k \in Counter : k = KindOf(call[t]) BY <1>t
  <2>0. k \in Counter /\ t \in Loading(k) BY <1>2, <2>k DEF Load, Loading
  <2>1. CountersTypeOK' /\ ReportNeverAhead'
    BY <1>2, <2>k, <2>0, <1>t DEF Load, CountersTypeOK, ReportNeverAhead
  <2>2. Loading(k)' = Loading(k) \ {t}
    BY <1>2, <2>k, <2>0 DEF Load, Loading, CountersTypeOK
  <2>3. \A j \in Counter \ {k} : Loading(j)' = Loading(j)
    BY <1>2, <2>k, <2>0 DEF Load, Loading, CountersTypeOK
  <2>4. Waiting(k)' = Waiting(k) - 1 BY <2>0, <2>2, WaitingShrinks
  <2>5. \A j \in Counter \ {k} : Waiting(j)' = Waiting(j) BY <2>3 DEF Waiting
  <2>6. \A j \in Counter : Waiting(j)' \in Int /\ Waiting(j)' <= Waiting(j)
    BY <2>4, <2>5, <1>t
  <2>7. \A j \in Counter : counter'[j] + Waiting(j)' <= made'[j]
    BY <2>6, <1>2, <1>t DEF Budget, Load
  <2>8. ASSUME NEW j \in Counter, NEW u \in Thread, spc'[u] = "store", KindOf(call'[u]) = j
        PROVE  tmp'[u] + 1 + Waiting(j)' <= made'[j]
    <3>1. call' = call /\ made' = made BY <1>2 DEF Load
    <3>2. j = KindOf(call[u]) BY <3>1, <2>8
    <3>3. CASE u = t
      <4>1. j = k /\ tmp'[u] = counter[k] BY <2>k, <3>2, <3>3, <1>2 DEF Load, CountersTypeOK
      <4>2. counter[k] + Waiting(k) <= made[k] BY <2>0 DEF Budget
      <4>3. tmp'[u] + 1 + Waiting(j)' <= made[j] BY <4>1, <4>2, <2>0, <2>4, <1>t
      <4> QED BY <4>3, <3>1, <3>2
    <3>4. CASE u # t
      <4>1. spc[u] = "store" /\ tmp'[u] = tmp[u] BY <1>2, <2>8, <3>4 DEF Load, CountersTypeOK
      <4>2. tmp[u] + 1 + Waiting(j) <= made[j] BY <4>1, <3>2 DEF Budget
      <4>3. tmp'[u] + 1 + Waiting(j)' <= made[j] BY <4>1, <4>2, <2>6, <1>t
      <4> QED BY <4>3, <3>1, <3>2
    <3> QED BY <3>3, <3>4
  <2> QED BY <2>1, <2>7, <2>8 DEF Budget
<1>3. ASSUME NEW t \in Thread, Store(t) PROVE CountersInv'
  <2>1. CountersTypeOK' /\ ReportNeverAhead'
    BY <1>3, <1>t DEF Store, Stored, CountersTypeOK, ReportNeverAhead
  <2>2. \A j \in Counter : Loading(j)' = Loading(j)
    BY <1>3 DEF Store, Loading, CountersTypeOK
  <2>3. \A j \in Counter : Waiting(j)' = Waiting(j) BY <2>2 DEF Waiting
  <2>4. ASSUME NEW j \in Counter PROVE counter'[j] + Waiting(j)' <= made'[j]
    <3>1. CASE j = KindOf(call[t])
      BY <3>1, <2>3, <1>3, <1>t DEF Store, Stored, Budget, CountersTypeOK
    <3>2. CASE j # KindOf(call[t])
      BY <3>2, <2>3, <1>3, <1>t DEF Store, Budget, CountersTypeOK
    <3> QED BY <3>1, <3>2
  <2>5. ASSUME NEW j \in Counter, NEW u \in Thread, spc'[u] = "store", KindOf(call'[u]) = j
        PROVE  tmp'[u] + 1 + Waiting(j)' <= made'[j]
    <3>1. spc[u] = "store" /\ tmp' = tmp /\ call' = call /\ made' = made
      BY <1>3, <2>5 DEF Store, CountersTypeOK
    <3>2. j = KindOf(call[u]) BY <3>1, <2>5
    <3>3. tmp[u] + 1 + Waiting(j)' <= made[j] BY <3>1, <3>2, <2>3 DEF Budget
    <3> QED BY <3>1, <3>2, <3>3
  <2> QED BY <2>1, <2>4, <2>5 DEF Budget
<1>4. ASSUME UNCHANGED <<counter, call, tmp, made>>, CountersTypeOK', ReportNeverAhead',
             \A u \in Thread : spc'[u] = "store" => spc[u] = "store",
             \A u \in Thread : spc'[u] = "load" <=> spc[u] = "load"
      PROVE  CountersInv'
  <2>1. \A j \in Counter : Loading(j)' = Loading(j) BY <1>4 DEF Loading
  <2>2. \A j \in Counter : Waiting(j)' = Waiting(j) BY <2>1 DEF Waiting
  <2>3. \A j \in Counter : counter'[j] + Waiting(j)' <= made'[j] BY <2>2, <1>4 DEF Budget
  <2>4. ASSUME NEW j \in Counter, NEW u \in Thread, spc'[u] = "store", KindOf(call'[u]) = j
        PROVE  tmp'[u] + 1 + Waiting(j)' <= made'[j]
    <3>1. j = KindOf(call[u]) BY <1>4, <2>4
    <3>2. tmp[u] + 1 + Waiting(j)' <= made[j] BY <3>1, <2>2, <2>4, <1>4 DEF Budget
    <3> QED BY <3>1, <3>2, <1>4
  <2> QED BY <1>4, <2>3, <2>4 DEF Budget
<1>5. ASSUME NEW t \in Thread, Leave(t) PROVE CountersInv'
  <2>1. CountersTypeOK' /\ ReportNeverAhead' BY <1>5 DEF Leave, CountersTypeOK, ReportNeverAhead
  <2> QED BY <1>4, <1>5, <2>1 DEF Leave, CountersTypeOK
<1>6. ASSUME NEW r \in Tracker, TrackEnter(r) \/ TrackCopy(r) PROVE CountersInv'
  <2>1. CountersTypeOK' /\ ReportNeverAhead'
    BY <1>6 DEF TrackEnter, TrackCopy, callerVars, CountersTypeOK, ReportNeverAhead, Counter
  <2> QED BY <1>4, <1>6, <2>1 DEF TrackEnter, TrackCopy, callerVars
<1>7. ASSUME NEW r \in Tracker, TrackRead(r) PROVE CountersInv'
  <2> DEFINE k == tpc[r]
  <2>1. k \in Counter /\ counter[k] <= made[k] BY <1>7, <1>t DEF TrackRead, Budget
  <2>2. After(k) \in {"copy"} \cup Counter BY DEF After, Counter
  <2>3. CountersTypeOK' BY <1>7, <2>1, <2>2 DEF TrackRead, Field, callerVars, CountersTypeOK
  <2>4. ReportNeverAhead'
    BY <1>7, <2>1 DEF TrackRead, Field, callerVars, CountersTypeOK, ReportNeverAhead
  <2> QED BY <1>4, <1>7, <2>3, <2>4 DEF TrackRead, callerVars
<1>8. CASE UNCHANGED counterVars
  BY <1>4, <1>8 DEF counterVars, CountersTypeOK, ReportNeverAhead
<1> QED BY <1>1, <1>2, <1>3, <1>5, <1>6, <1>7, <1>8 DEF CountersNext

\* The inductive invariant holds throughout.
THEOREM CountersInvariant == CountersSpec => []CountersInv
BY InitBudget, StepBudget, PTL DEF CountersSpec

\* No counter gets ahead of the calls made, for any number of threads: a lost
\* increment only ever loses.
THEOREM CountNeverGetsAhead == CountersSpec => []CountNeverAhead
<1>1. CountersInv => CountNeverAhead
  BY WaitingType DEF CountersInv, CountersTypeOK, Budget, CountNeverAhead
<1> QED BY <1>1, CountersInvariant, PTL

\* Nor does any field luis_track_syscall_usage has read.
THEOREM ReportNeverGetsAhead == CountersSpec => []ReportNeverAhead
<1>1. CountersInv => ReportNeverAhead BY DEF CountersInv
<1> QED BY <1>1, CountersInvariant, PTL
============================================================================
