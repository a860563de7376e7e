------------------------------ MODULE TableScan ------------------------------
(***************************************************************************)
(* scan_table of crates/cdf-storage/src/engine.rs over a memtable that     *)
(* writers fill and a flush drains.  The keys of the memtable are encoded  *)
(* row keys, strings of bytes in the order of the map.  A scan copies the  *)
(* map under its lock, so every state shows what a scan at that moment     *)
(* would return.  Frozen memtables and segments are never filled.          *)
(***************************************************************************)
EXTENDS ConcurrentMemTable, Sequences, SequencesExt

CONSTANTS TableName, \* names, strings of bytes: none holds a 0 (see encode)
          RowId,     \* ids, strings of bytes
          Tombstone  \* the entry of a deleted row

\* The engine takes any string for a name, one with a zero byte included. The keys of a
\* table with such a name lie among those of another (<<1, 0, 2>> has <<1, 0, 2, 0, 9>>,
\* which comes before <<1, 0, 9>> of <<1>>), and a scan of that one may return a row of
\* the first in the place of its own with the same id. Such names are left out here.
encode(table, id) == table \o <<0>> \o id

ASSUME ScanAssumption ==
  /\ \A t \in TableName : t \in Seq(1..255)
  /\ \A i \in RowId : i \in Seq(0..255)
  /\ Key = {encode(t, i) : t \in TableName, i \in RowId}
  /\ Tombstone \in Entry

\* The order of Vec<u8>.
Before(k, l) ==
  \/ IsStrictPrefix(k, l)
  \/ \E n \in 1..Len(k) : /\ n <= Len(l) /\ k[n] < l[n]
                          /\ \A m \in 1..(n - 1) : k[m] = l[m]

\* Keys in the order of the map.
InOrder(keys) ==
  CHOOSE s \in [1..Cardinality(keys) -> keys] :
    \A i, j \in 1..Cardinality(keys) : i < j => Before(s[i], s[j])

\* scan(Some(start), None): the keys of the map from start on.
scan(start) == InOrder({k \in Rows : ~Before(k, start)})

\* The id of the row in a value, which is inserted under its key.
IdOf(k) == CHOOSE i \in RowId : \E t \in TableName : k = encode(t, i)

Seen(rows) == {IdOf(k) : k \in ToSet(rows)}

\* Bug: a row replaces one with its id that was seen before it.
Push_Replaces(rows, k) ==
  IF data[k] = Tombstone THEN rows
  ELSE Append(SelectSeq(rows, LAMBDA r : IdOf(r) # IdOf(k)), k)

\* A row is returned unless it is deleted or one with its id was seen.
Push(rows, k) ==
  IF data[k] = Tombstone \/ IdOf(k) \in Seen(rows) THEN rows ELSE Append(rows, k)

\* The keys of the rows that scan_table returns. The range is open above: it goes on
\* into the tables whose names come later.
scan_table(table) == FoldLeft(Push, <<>>, scan(table \o <<0>>))

-----------------------------------------------------------------------------

Live(table) == {k \in Rows : /\ data[k] # Tombstone
                             /\ \E i \in RowId : k = encode(table, i)}

\* A scan returns all rows of its table, each once and before any other, whatever
\* tables share their ids or begin with its name, and no row that is deleted.
OwnRowsComeFirst ==
  \A t \in TableName :
    LET found == scan_table(t)
        n == Cardinality(Live(t))
    IN  /\ Len(found) >= n
        /\ {found[i] : i \in 1..n} = Live(t)
        /\ \A i, j \in 1..Len(found) : IdOf(found[i]) = IdOf(found[j]) => i = j
        /\ \A i \in 1..Len(found) : data[found[i]] \notin {Tombstone, Absent}
=============================================================================
