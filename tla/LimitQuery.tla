----------------------------- MODULE LimitQuery -----------------------------
(***************************************************************************)
(* luis_get_memory_limits: walks memory_limitation_head, which the calls   *)
(* of MemoryLimit change without a lock, into a buffer in the kernel, and  *)
(* copies that to the caller.  The walk visits a node and follows its link *)
(* in separate steps.                                                      *)
(***************************************************************************)
EXTENDS MemoryLimit

CONSTANTS
    Reader,      \* threads that call luis_get_memory_limits
    MaxEntries,  \* max_entries arguments
    Room,        \* bytes between the user pointer and the end of user space
    EntrySize,   \* sizeof(struct memory_limitation)
    SizeMod,     \* 2^64, where size_t wraps
    ListHead,    \* &memory_limitation_head as the end of the walk
    NoBuffer     \* k_processes_buffer outside its life time

ASSUME LimitQueryAssumption ==
    /\ MaxEntries \subseteq Nat /\ Room \subseteq Nat
    /\ EntrySize \in Nat \ {0} /\ SizeMod \in Nat \ {0}
    /\ ListHead \notin Node /\ NoBuffer \notin Nat

VARIABLES
    qpc,     \* qpc[q]: the next step of reader q
    qmax,    \* qmax[q]: max_entries
    bytes,   \* bytes[q]: size of the buffer kmalloc_array gave, or NoBuffer
    cursor,  \* cursor[q]: entry
    buffer,  \* buffer[q]: the entries written so far; count is its length
    qret,    \* qret[q]: what its last call returned, "none" inside a call
    calm     \* calm[q]: the list has not changed since q began to walk it

queryVars == <<qpc, qmax, bytes, cursor, buffer, qret>>
allVars == <<vars, queryVars, calm>>

EntryType == [pid : ArgPid, limit : Nat]
Entry(n) == [pid |-> npid[n], limit |-> nlimit[n]]

QueryTypeOK ==
    /\ qpc \in [Reader -> {"idle", "oops", "alloc", "start", "visit", "advance", "copy", "put"}]
    /\ qmax \in [Reader -> MaxEntries \cup {0}]
    /\ bytes \in [Reader -> Nat \cup {NoBuffer}]
    /\ cursor \in [Reader -> Node \cup {ListHead}]
    /\ buffer \in [Reader -> Seq(EntryType)]
    /\ qret \in [Reader -> {"none", "OK", "EINVAL", "ENOMEM", "EFAULT"}]
    /\ calm \in [Reader -> BOOLEAN]

QueryInit ==
    /\ Init
    /\ qpc = [q \in Reader |-> "idle"] /\ qret = [q \in Reader |-> "none"]
    /\ qmax = [q \in Reader |-> 0] /\ bytes = [q \in Reader |-> NoBuffer]
    /\ cursor = [q \in Reader |-> ListHead] /\ buffer = [q \in Reader |-> <<>>]
    /\ calm = [q \in Reader |-> TRUE]

----------------------------------------------------------------------------
QueryGoto(q, label) == qpc' = [qpc EXCEPT ![q] = label] /\ UNCHANGED qret

QueryReturn(q, r) ==
    qpc' = [qpc EXCEPT ![q] = "idle"] /\ qret' = [qret EXCEPT ![q] = r]

\* max_entries = 0 and pointers that access_ok refuses; the product it is asked
\* about wraps.  countOK: access_ok(processes_buffer_size, sizeof(int)).
QueryEnter(q, max, room, countOK) ==
    /\ qpc[q] = "idle"
    /\ qmax' = [qmax EXCEPT ![q] = max]
    /\ buffer' = [buffer EXCEPT ![q] = <<>>]
    /\ IF max = 0 \/ (max * EntrySize) % SizeMod > room \/ ~countOK
       THEN QueryReturn(q, "EINVAL")
       ELSE qpc' = [qpc EXCEPT ![q] = "alloc"] /\ qret' = [qret EXCEPT ![q] = "none"]
    /\ UNCHANGED <<vars, bytes, cursor, calm>>

\* Slips: the product is not checked for overflow; or an overflow is tried again.
ArraySizeWraps(q, r) == r = (qmax[q] * EntrySize) % SizeMod
ArraySizeRetry(q, r) == r = qmax[q] * EntrySize /\ r < SizeMod

\* The size kmalloc_array settles on: it refuses a product that overflows, and
\* may fail on any other.
ArraySize(q, r) ==
    \/ r = NoBuffer
    \/ r = qmax[q] * EntrySize /\ r < SizeMod

QueryAlloc(q) ==
    /\ qpc[q] = "alloc"
    /\ \E r \in {NoBuffer, qmax[q] * EntrySize, (qmax[q] * EntrySize) % SizeMod} :
        /\ ArraySize(q, r)
        /\ bytes' = [bytes EXCEPT ![q] = r]
        /\ IF r = NoBuffer THEN QueryReturn(q, "ENOMEM") ELSE QueryGoto(q, "start")
    /\ UNCHANGED <<vars, qmax, cursor, buffer, calm>>

\* A slip: the walk starts behind the first node.
FirstSkipped == IF Len(list) < 2 THEN ListHead ELSE list[2]

First == IF list = <<>> THEN ListHead ELSE list[1]

QueryStart(q) ==
    /\ qpc[q] = "start"
    /\ cursor' = [cursor EXCEPT ![q] = First]
    /\ calm' = [calm EXCEPT ![q] = TRUE]
    /\ QueryGoto(q, "visit")
    /\ UNCHANGED <<vars, qmax, bytes, buffer>>

Full(q) == Len(buffer[q]) >= qmax[q]

\* One round of the loop.  A node freed meanwhile is read all the same.
QueryVisit(q) ==
    /\ qpc[q] = "visit"
    /\ IF cursor[q] = ListHead \/ Full(q)
       THEN QueryGoto(q, "copy") /\ UNCHANGED buffer
       ELSE /\ buffer' = [buffer EXCEPT ![q] = Append(@, Entry(cursor[q]))]
            /\ QueryGoto(q, "advance")
    /\ UNCHANGED <<vars, qmax, bytes, cursor, calm>>

\* entry->list.next of node n may lead to m.
NextOf(n, m) ==
    \E i \in DOMAIN list :
        list[i] = n /\ m = (IF i = Len(list) THEN ListHead ELSE list[i + 1])

\* A removed node's link is the list poison, and following it faults; a removed
\* node that an add has taken again is, until it is linked, its own successor.
QueryAdvance(q) ==
    /\ qpc[q] = "advance"
    /\ \/ \E m \in Node \cup {ListHead} :
            /\ NextOf(cursor[q], m)
            /\ cursor' = [cursor EXCEPT ![q] = m]
            /\ QueryGoto(q, "visit")
       \/ /\ cursor[q] \notin Range(list)
          /\ \/ QueryGoto(q, "oops")
             \/ cursor[q] \in heap /\ QueryGoto(q, "visit")
          /\ UNCHANGED cursor
    /\ UNCHANGED <<vars, qmax, bytes, buffer, calm>>

\* A slip: the failing path keeps the buffer.
FreeBufferOnSuccess(q) == IF qpc'[q] = "idle" THEN bytes ELSE [bytes EXCEPT ![q] = NoBuffer]

FreeBuffer(q) == [bytes EXCEPT ![q] = NoBuffer]

\* copy_to_user, which may fault, and kfree of the buffer.
QueryCopy(q) ==
    /\ qpc[q] = "copy"
    /\ QueryReturn(q, "EFAULT") \/ QueryGoto(q, "put")
    /\ bytes' = FreeBuffer(q)
    /\ UNCHANGED <<vars, qmax, cursor, buffer, calm>>

\* put_user of the count.
QueryPut(q) ==
    /\ qpc[q] = "put"
    /\ QueryReturn(q, "EFAULT") \/ QueryReturn(q, "OK")
    /\ UNCHANGED <<vars, qmax, bytes, cursor, buffer, calm>>

QueryStep(q) ==
    \/ QueryAlloc(q) \/ QueryStart(q) \/ QueryVisit(q) \/ QueryAdvance(q)
    \/ QueryCopy(q) \/ QueryPut(q)

QueryNext ==
    \/ \E q \in Reader :
        \/ \E max \in MaxEntries, room \in Room, countOK \in BOOLEAN :
               QueryEnter(q, max, room, countOK)
        \/ QueryStep(q)
    \/ /\ Next /\ Serial' /\ UNCHANGED queryVars
       /\ calm' = [q \in Reader |-> calm[q] /\ UNCHANGED <<list, npid, nlimit>>]

\* Queries run beside one caller at a time that changes the list.
QuerySpec == QueryInit /\ [][QueryNext]_allVars

QueryFair == QuerySpec /\ \A q \in Reader : WF_allVars(QueryStep(q))

InQuery(q) == qpc[q] \notin {"idle", "oops"}

----------------------------------------------------------------------------
\* The entries written fit into the buffer kmalloc_array gave, whatever happens
\* to the list during the walk and however large max_entries is.
BufferNeverOverrun ==
    \A q \in Reader : bytes[q] # NoBuffer => Len(buffer[q]) * EntrySize <= bytes[q]

\* The buffer is freed on every way out of the call that the caller survives.
BufferReleased == \A q \in Reader : qpc[q] = "idle" => bytes[q] = NoBuffer

\* A query ends, even while nodes are added and removed before and behind it: the
\* walk is bounded by max_entries, not by the list.
QueriesReturn == \A q \in Reader : InQuery(q) ~> ~InQuery(q)

\* A query during whose walk no node was linked, written or unlinked answers with
\* the first max_entries entries of the list, in its order.
SnapshotExact ==
    [][\A q \in Reader : qpc[q] = "visit" /\ qpc'[q] = "copy" /\ calm[q] =>
           buffer[q] = [i \in 1..(IF qmax[q] < Len(list) THEN qmax[q] ELSE Len(list))
                            |-> Entry(list[i])]]_allVars
=============================================================================
