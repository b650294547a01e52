-------------------------- MODULE LimitQueryProofs --------------------------
(***************************************************************************)
(* The buffer of luis_get_memory_limits: for every list, every max_entries *)
(* and every number of readers it is never overrun and always freed.  The  *)
(* argument needs no lock: the walk counts its own entries.                *)
(***************************************************************************)
EXTENDS LimitQuery, MemoryLimitProofs

\* The buffer lives between kmalloc_array and kfree and has room for max_entries.
BufferSized ==
    \A q \in Reader :
        /\ qpc[q] \in {"idle", "alloc", "put"} => bytes[q] = NoBuffer
        /\ qpc[q] = "alloc" => buffer[q] = <<>>
        /\ bytes[q] # NoBuffer =>
               bytes[q] = qmax[q] * EntrySize /\ Len(buffer[q]) <= qmax[q]

QueryInv == TypeInv /\ QueryTypeOK /\ BufferSized

\* max_entries is a natural number.
LEMMA MaxIsNat == ASSUME NEW x, x \in MaxEntries \cup {0} PROVE x \in Nat
BY LimitQueryAssumption

\* The number of entries written is a natural number.
LEMMA CountIsNat ==
    ASSUME NEW s, s \in Seq(EntryType)
    PROVE  Len(s) \in Nat /\ \A e \in EntryType : Append(s, e) \in Seq(EntryType)
                                              /\ Len(Append(s, e)) = Len(s) + 1
OBVIOUS

\* The types of the list and of a query hold at the start.
LEMMA QueryInvInit == QueryInit => QueryInv
<1> SUFFICES ASSUME QueryInit PROVE QueryInv
  OBVIOUS
<1>1. TypeInv BY TypeInvInit DEF QueryInit
<1>2. QueryTypeOK BY LimitQueryAssumption DEF QueryInit, QueryTypeOK
<1>3. BufferSized BY DEF QueryInit, BufferSized
<1> QED BY <1>1, <1>2, <1>3 DEF QueryInv

\* Every step keeps the invariant; a step of the limiter leaves the queries alone.
LEMMA QueryInvNext == QueryInv /\ [QueryNext]_allVars => QueryInv'
<1> SUFFICES ASSUME QueryInv, [QueryNext]_allVars PROVE QueryInv'
  OBVIOUS
<1> USE DEF QueryInv
<1>t. \A q \in Reader : qmax[q] \in Nat /\ buffer[q] \in Seq(EntryType) /\ Len(buffer[q]) \in Nat
  <2> TAKE q \in Reader
  <2>1. qmax[q] \in MaxEntries \cup {0} /\ buffer[q] \in Seq(EntryType) BY DEF QueryTypeOK
  <2> QED BY <2>1, MaxIsNat, CountIsNat
<1>1. TypeInv'
  BY TypeInvStep
     DEF QueryNext, QueryEnter, QueryStep, QueryAlloc, QueryStart, QueryVisit, QueryAdvance,
         QueryCopy, QueryPut, allVars
<1>2. ASSUME NEW q \in Reader, NEW max \in MaxEntries, NEW room \in Room, NEW countOK \in BOOLEAN,
             QueryEnter(q, max, room, countOK)
      PROVE  QueryTypeOK' /\ BufferSized'
  <2>e. buffer' \in [Reader -> Seq(EntryType)]
    <3>1. <<>> \in Seq(EntryType) OBVIOUS
    <3> QED BY <1>2, <3>1 DEF QueryEnter, QueryTypeOK
  <2>1. QueryTypeOK' BY <1>2, <2>e DEF QueryEnter, QueryReturn, QueryTypeOK
  <2>2. BufferSized' BY <1>2 DEF QueryEnter, QueryReturn, QueryTypeOK, BufferSized
  <2> QED BY <2>1, <2>2
<1>3. ASSUME NEW q \in Reader, QueryAlloc(q) PROVE QueryTypeOK' /\ BufferSized'
  <2>1. PICK r : /\ ArraySize(q, r)
                 /\ bytes' = [bytes EXCEPT ![q] = r]
                 /\ IF r = NoBuffer THEN QueryReturn(q, "ENOMEM") ELSE QueryGoto(q, "start")
    BY <1>3 DEF QueryAlloc
  <2>2. qmax[q] \in Nat /\ r \in Nat \cup {NoBuffer} /\ (r # NoBuffer => r = qmax[q] * EntrySize)
    BY <2>1, <1>t, LimitQueryAssumption DEF ArraySize
  <2>3. QueryTypeOK'
    BY <1>3, <2>1, <2>2 DEF QueryAlloc, QueryReturn, QueryGoto, QueryTypeOK
  <2>4. buffer[q] = <<>> /\ Len(<<>>) <= qmax[q] BY <1>3, <2>2 DEF QueryAlloc, BufferSized
  <2> QED
    BY <1>3, <2>1, <2>2, <2>3, <2>4
       DEF QueryAlloc, QueryReturn, QueryGoto, QueryTypeOK, BufferSized
<1>4. ASSUME NEW q \in Reader, QueryStart(q) PROVE QueryTypeOK' /\ BufferSized'
  <2>1. First \in Node \cup {ListHead}
    BY DEF First, TypeInv, LimiterTypeOK
  <2> QED BY <1>4, <2>1 DEF QueryStart, QueryGoto, QueryTypeOK, BufferSized
<1>5. ASSUME NEW q \in Reader, QueryVisit(q) PROVE QueryTypeOK' /\ BufferSized'
  <2>1. CASE cursor[q] = ListHead \/ Full(q)
    BY <1>5, <2>1 DEF QueryVisit, QueryGoto, QueryTypeOK, BufferSized
  <2>2. CASE ~(cursor[q] = ListHead \/ Full(q))
    <3>1. cursor[q] \in Node BY <2>2 DEF QueryTypeOK
    <3>2. Entry(cursor[q]) \in EntryType
      BY <3>1 DEF Entry, EntryType, TypeInv, LimiterTypeOK
    <3>3. buffer' = [buffer EXCEPT ![q] = Append(@, Entry(cursor[q]))] /\ QueryGoto(q, "advance")
      BY <1>5, <2>2 DEF QueryVisit
    <3>4. Append(buffer[q], Entry(cursor[q])) \in Seq(EntryType)
      BY <3>2 DEF QueryTypeOK
    <3>5. Len(buffer[q]) \in Nat /\ qmax[q] \in Nat
          /\ Len(Append(buffer[q], Entry(cursor[q]))) = Len(buffer[q]) + 1
      BY <3>2, <1>t, CountIsNat
    <3>6. Len(Append(buffer[q], Entry(cursor[q]))) <= qmax[q]
      BY <2>2, <3>5 DEF Full
    <3>7. QueryTypeOK'
      BY <1>5, <3>3, <3>4 DEF QueryVisit, QueryGoto, QueryTypeOK
    <3> QED BY <1>5, <3>3, <3>6, <3>7 DEF QueryVisit, QueryGoto, QueryTypeOK, BufferSized
  <2> QED BY <2>1, <2>2
<1>6. ASSUME NEW q \in Reader, QueryAdvance(q) PROVE QueryTypeOK' /\ BufferSized'
  <2>1. cursor' \in [Reader -> Node \cup {ListHead}] BY <1>6 DEF QueryAdvance, QueryTypeOK
  <2> QED BY <1>6, <2>1 DEF QueryAdvance, QueryGoto, QueryTypeOK, BufferSized
<1>7. ASSUME NEW q \in Reader, QueryCopy(q) PROVE QueryTypeOK' /\ BufferSized'
  BY <1>7 DEF QueryCopy, FreeBuffer, QueryReturn, QueryGoto, QueryTypeOK, BufferSized
<1>8. ASSUME NEW q \in Reader, QueryPut(q) PROVE QueryTypeOK' /\ BufferSized'
  BY <1>8 DEF QueryPut, QueryReturn, QueryTypeOK, BufferSized
<1>9. ASSUME UNCHANGED queryVars, calm' \in [Reader -> BOOLEAN] PROVE QueryInv'
  BY <1>1, <1>9 DEF queryVars, QueryTypeOK, BufferSized
<1>10. CASE /\ UNCHANGED queryVars
            /\ calm' = [q \in Reader |-> calm[q] /\ UNCHANGED <<list, npid, nlimit>>]
  <2>1. calm' \in [Reader -> BOOLEAN] BY <1>10
  <2> QED BY <1>9, <1>10, <2>1
<1>11. CASE UNCHANGED allVars
  BY <1>9, <1>11 DEF allVars, QueryTypeOK
<1> QED
  BY <1>1, <1>2, <1>3, <1>4, <1>5, <1>6, <1>7, <1>8, <1>10, <1>11
     DEF QueryNext, QueryStep

\* The inductive invariant holds throughout.
THEOREM QueryInvariant == QuerySpec => []QueryInv
BY QueryInvInit, QueryInvNext, PTL DEF QuerySpec

\* A query's variables keep their types beside any limiter call.
THEOREM QueryTypeCorrect == QuerySpec => []QueryTypeOK
<1>1. QueryInv => QueryTypeOK BY DEF QueryInv
<1> QED BY <1>1, QueryInvariant, PTL

\* However large max_entries is and however the list changes during the walk, the
\* entries written fit into what kmalloc_array gave.
THEOREM BufferIsNeverOverrun == QuerySpec => []BufferNeverOverrun
<1>1. QueryInv => BufferNeverOverrun
  <2> SUFFICES ASSUME QueryInv, NEW q \in Reader, bytes[q] # NoBuffer
               PROVE  Len(buffer[q]) * EntrySize <= bytes[q]
    BY DEF BufferNeverOverrun
  <2>1. bytes[q] = qmax[q] * EntrySize /\ Len(buffer[q]) <= qmax[q]
    BY DEF QueryInv, BufferSized
  <2>2. qmax[q] \in Nat /\ Len(buffer[q]) \in Nat /\ EntrySize \in Nat
    <3>1. qmax[q] \in MaxEntries \cup {0} /\ buffer[q] \in Seq(EntryType) BY DEF QueryInv, QueryTypeOK
    <3> QED BY <3>1, MaxIsNat, CountIsNat, LimitQueryAssumption
  <2>3. \A a, b, n \in Nat : a <= b => a * n <= b * n
    OBVIOUS
  <2> QED BY <2>1, <2>2, <2>3
<1> QED BY <1>1, QueryInvariant, PTL

\* No way out of luis_get_memory_limits keeps the buffer.
THEOREM BufferIsAlwaysReleased == QuerySpec => []BufferReleased
<1>1. QueryInv => BufferReleased BY DEF QueryInv, BufferSized, BufferReleased
<1> QED BY <1>1, QueryInvariant, PTL
=============================================================================
