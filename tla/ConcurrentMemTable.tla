------------------------- MODULE ConcurrentMemTable -------------------------
(***************************************************************************)
(* Writers inserting into a MemTable while another thread drains it to     *)
(* flush its rows.  MemTable::insert counts the entry in the atomic first  *)
(* and takes the lock of the map afterwards, so a drain may come between.  *)
(***************************************************************************)
EXTENDS MemTable, FiniteSets

CONSTANTS Writer,
          Idle,      \* no insert under way
          MaxInserts \* bound: inserts in a behaviour

ASSUME ConcurrentAssumption == MaxInserts \in Nat /\ IsFiniteSet(Writer)

VARIABLES pending, \* per writer, the insert that is counted and not yet in the map
          flushed, \* history: the last entry drained for each key
          newest,  \* history: the last entry inserted for each key
          inserts

vars == <<data, size, pending, flushed, newest, inserts>>

Request == [key : Key, entry : Entry]

TypeOK ==
  /\ TableTypeOK
  /\ pending \in [Writer -> Request \cup {Idle}]
  /\ {flushed, newest} \subseteq [Key -> Entry \cup {Absent}]
  /\ inserts \in 0..MaxInserts

Init ==
  /\ TableInit
  /\ pending = [w \in Writer |-> Idle]
  /\ flushed = EmptyTable
  /\ newest = EmptyTable
  /\ inserts = 0

\* Bug: an insert over the limit is not counted.
StartInsert_Capped(w, k, e) ==
  /\ pending[w] = Idle
  /\ inserts < MaxInserts
  /\ size' = IF size + EntrySize > MaxSize THEN size ELSE size + EntrySize
  /\ pending' = [pending EXCEPT ![w] = [key |-> k, entry |-> e]]
  /\ inserts' = inserts + 1
  /\ UNCHANGED <<data, flushed, newest>>

StartInsert(w, k, e) ==
  /\ pending[w] = Idle
  /\ inserts < MaxInserts
  /\ Reserve
  /\ pending' = [pending EXCEPT ![w] = [key |-> k, entry |-> e]]
  /\ inserts' = inserts + 1
  /\ UNCHANGED <<data, flushed, newest>>

\* Bug: an insert over the limit is refused, as its answer false suggests.
FinishInsert_Refused(w) ==
  /\ pending[w] # Idle
  /\ data' = IF size > MaxSize THEN data
             ELSE [data EXCEPT ![pending[w].key] = pending[w].entry]
  /\ newest' = [newest EXCEPT ![pending[w].key] = pending[w].entry]
  /\ pending' = [pending EXCEPT ![w] = Idle]
  /\ UNCHANGED <<size, flushed, inserts>>

FinishInsert(w) ==
  /\ pending[w] # Idle
  /\ Put(pending[w].key, pending[w].entry)
  /\ newest' = [newest EXCEPT ![pending[w].key] = pending[w].entry]
  /\ pending' = [pending EXCEPT ![w] = Idle]
  /\ UNCHANGED <<size, flushed, inserts>>

\* Bug: the drained bytes are subtracted a second time.
DrainRows_Negative ==
  /\ data' = EmptyTable
  /\ size' = size - EntrySize * (Cardinality(Rows) + 1)
  /\ flushed' = [k \in Key |-> IF k \in Rows THEN data[k] ELSE flushed[k]]
  /\ UNCHANGED <<pending, newest, inserts>>

DrainRows ==
  /\ Drain
  /\ flushed' = [k \in Key |-> IF k \in Rows THEN data[k] ELSE flushed[k]]
  /\ UNCHANGED <<pending, newest, inserts>>

Next ==
  \/ \E w \in Writer : \/ \E k \in Key, e \in Entry : StartInsert(w, k, e)
                       \/ FinishInsert(w)
  \/ DrainRows

Spec == Init /\ [][Next]_vars

-----------------------------------------------------------------------------
(* Properties *)

\* However inserts and drains interleave, the newest entry of every key is in the
\* map, or the last drain that saw the key handed it to the flush.
NewestIsKept ==
  \A k \in Key : newest[k] = (IF k \in Rows THEN data[k] ELSE flushed[k])

\* A drain forgets the inserts that were counted before it and reached the map after
\* it. The size at_capacity reads lags the rows by at most one entry per writer.
CapacityLag == Cardinality(Rows) * EntrySize <= size + Cardinality(Writer) * EntrySize
=============================================================================
