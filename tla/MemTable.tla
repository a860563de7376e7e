------------------------------ MODULE MemTable ------------------------------
(***************************************************************************)
(* The in-memory table of a storage node: crates/cdf-storage/src/          *)
(* memtable.rs.  A map from encoded row keys to values or tombstones, and  *)
(* an approximate size kept beside it in an atomic.  This module is the    *)
(* operations; ConcurrentMemTable interleaves them, StorageEngine uses     *)
(* them.                                                                   *)
(***************************************************************************)
EXTENDS Integers

CONSTANTS Key,       \* encoded row keys
          Entry,     \* what a row maps to: values and tombstones (InternalValue)
          Absent,    \* no entry
          EntrySize, \* the size charged for each insert, whatever it holds
          MaxSize    \* max_size

ASSUME MemTableAssumption == /\ Absent \notin Entry
                             /\ EntrySize \in Nat \ {0}
                             /\ MaxSize \in Nat

VARIABLES data, \* the map, under its lock
          size  \* approximate_size

tableVars == <<data, size>>

TableTypeOK ==
  /\ data \in [Key -> Entry \cup {Absent}]
  /\ size \in Nat

EmptyTable == [k \in Key |-> Absent]

TableInit == data = EmptyTable /\ size = 0

\* insert's fetch_add, outside the lock of the map.
Reserve == size' = size + EntrySize

\* insert's write to the map, made whether or not the size went over the limit.
Put(k, v) == data' = [data EXCEPT ![k] = v]

Insert(k, v) == Reserve /\ Put(k, v)

AtCapacity == size >= MaxSize

\* drain: copy, clear and reset the size under the lock of the map.
Drain == data' = EmptyTable /\ size' = 0

Rows == {k \in Key : data[k] # Absent}
=============================================================================
