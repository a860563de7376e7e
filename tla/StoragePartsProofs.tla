------------------------- MODULE StoragePartsProofs -------------------------
(***************************************************************************)
(* Proofs about the parts of a storage node: the rotation of its log, its  *)
(* memtable under concurrent inserts, the temporal index, and all of them, *)
(* with the log, side by side.                                             *)
(***************************************************************************)
EXTENDS MCStorageParts, WriteAheadLogProofs, SequenceLemmas

-----------------------------------------------------------------------------
(* The rotation of the log *)

\* The file being written ends before the next number, or is empty.
EndsBefore(file, n) == file = <<>> \/ file[Len(file)].seq = n - 1

\* A handle that has left wal.active leaves no file there, so that the next one that
\* rotate makes is empty.
HandleFollows ==
  /\ handle # Closed => EndsBefore(fs[handle], next_seq)
  /\ handle \notin {Active, Closed} => Active \notin DOMAIN fs

\* No record is ahead of the appends, or since the last open of the numbers.
RanksArePast ==
  \A r \in OnDisk : r.rank <= written /\ (openedAt < r.rank => r.seq < next_seq)

FileInv == RotationTypeOK /\ FilesAreContiguous /\ HandleFollows

RotationInv == FileInv /\ NumbersFollowAppends /\ RanksArePast

Contiguous(file) == \A i \in 1..(Len(file) - 1) : file[i + 1].seq = file[i].seq + 1

LEMMA OnDiskRecords ==
  \A r : r \in OnDisk <=> \E p \in DOMAIN fs : \E i \in DOMAIN fs[p] : r = fs[p][i]
BY DEF OnDisk, Range

LEMMA OnDiskTyped ==
  ASSUME RotationTypeOK
  PROVE  OnDisk \subseteq NumberedRecord
<1> SUFFICES ASSUME NEW p \in DOMAIN fs, NEW i \in DOMAIN fs[p]
             PROVE  fs[p][i] \in NumberedRecord
  BY OnDiskRecords
<1>1. fs[p] \in Seq(NumberedRecord)
  BY DEF RotationTypeOK
<1> QED BY <1>1

LEMMA Numbers ==
  ASSUME RotationTypeOK
  PROVE  /\ next_seq \in Nat \ {0} /\ written \in Nat /\ openedAt \in Nat
         /\ MaxAppends \in Nat /\ Active \notin Nat /\ Closed \notin Nat /\ Active # Closed
BY RotationAssumption DEF RotationAssumption, RotationTypeOK

LEMMA RotationBegins == RotationInit => RotationInv
<1> SUFFICES ASSUME RotationInit PROVE RotationInv
  OBVIOUS
<1>1. DOMAIN fs = {}
  BY DEF RotationInit
<1>2. OnDisk = {}
  BY <1>1, OnDiskRecords
<1> QED BY <1>1, <1>2, RotationAssumption
        DEF RotationAssumption, RotationInit, RotationInv, FileInv, RotationTypeOK,
            FilesAreContiguous, HandleFollows, NumbersFollowAppends, RanksArePast, Path

\* Opening wal.active changes none of the files.
LEMMA WithActiveFacts ==
  ASSUME FileInv
  PROVE  /\ DOMAIN WithActive = DOMAIN fs \cup {Active}
         /\ \A p \in DOMAIN fs : WithActive[p] = fs[p]
         /\ Active \notin DOMAIN fs => WithActive[Active] = <<>>
         /\ \A p \in DOMAIN WithActive : /\ WithActive[p] \in Seq(NumberedRecord)
                                         /\ Contiguous(WithActive[p])
<1>1. /\ DOMAIN WithActive = DOMAIN fs \cup {Active}
      /\ \A p \in DOMAIN WithActive :
           WithActive[p] = IF p \in DOMAIN fs THEN fs[p] ELSE <<>>
  BY DEF WithActive
<1>2. ASSUME NEW p \in DOMAIN fs PROVE fs[p] \in Seq(NumberedRecord) /\ Contiguous(fs[p])
  BY DEF FileInv, RotationTypeOK, FilesAreContiguous, Contiguous
<1>3. <<>> \in Seq(NumberedRecord) /\ Contiguous(<<>>)
  BY DEF Contiguous
<1> QED BY <1>1, <1>2, <1>3

\* A step that moves files about, but changes none, keeps what is said of all the files
\* and records.
LEMMA FilesMoved ==
  ASSUME FileInv,
         DOMAIN fs' \subseteq Path,
         \A p \in DOMAIN fs' : \E q \in DOMAIN WithActive : fs'[p] = WithActive[q]
  PROVE  /\ \A p \in DOMAIN fs' : fs'[p] \in Seq(NumberedRecord) /\ Contiguous(fs'[p])
         /\ OnDisk' \subseteq OnDisk
<1>1. ASSUME NEW r \in OnDisk' PROVE r \in OnDisk
  <2> PICK p \in DOMAIN fs' : \E i \in DOMAIN fs'[p] : r = fs'[p][i]
    BY <1>1 DEF OnDisk, Range
  <2>1. PICK i \in DOMAIN fs'[p] : r = fs'[p][i]
    OBVIOUS
  <2>2. PICK q \in DOMAIN WithActive : fs'[p] = WithActive[q]
    OBVIOUS
  <2>3. CASE q \in DOMAIN fs
    BY <2>1, <2>2, <2>3, OnDiskRecords, WithActiveFacts
  <2>4. CASE q \notin DOMAIN fs
    <3>1. fs'[p] = <<>>
      BY <2>2, <2>4, WithActiveFacts
    <3> QED BY <2>1, <3>1
  <2> QED BY <2>3, <2>4
<1> QED BY <1>1, WithActiveFacts

\* Then the numbers keep their order, too.
LEMMA RanksMoved ==
  ASSUME RotationInv, RotationTypeOK', OnDisk' \subseteq OnDisk, written' = written,
         openedAt' = written \/ (openedAt' = openedAt /\ next_seq' = next_seq)
  PROVE  NumbersFollowAppends' /\ RanksArePast'
<1>1. \A r \in OnDisk : r.rank \in Nat /\ r.seq \in Nat /\ r.rank <= written
  BY OnDiskTyped DEF RotationInv, FileInv, RanksArePast, NumberedRecord
<1>2. written \in Nat /\ openedAt \in Nat
  BY Numbers DEF RotationInv, FileInv
<1>3. CASE openedAt' = written
  BY <1>1, <1>2, <1>3 DEF NumbersFollowAppends, RanksArePast
<1>4. CASE openedAt' = openedAt /\ next_seq' = next_seq
  BY <1>4 DEF NumbersFollowAppends, RanksArePast, RotationInv
<1> QED BY <1>3, <1>4

LEMMA OpenKeeps ==
  ASSUME RotationInv, OpenActive
  PROVE  RotationInv'
<1>1. FileInv
  BY DEF RotationInv
<1>2. fs' = WithActive /\ handle' = Active /\ written' = written /\ openedAt' = written
      /\ next_seq' = RecoveredSeq(fs'[Active])
  BY DEF OpenActive
<1>3. DOMAIN fs' \subseteq Path /\ Active \in DOMAIN fs'
  BY <1>1, <1>2, WithActiveFacts DEF FileInv, RotationTypeOK, Path
<1>4. /\ \A p \in DOMAIN fs' : fs'[p] \in Seq(NumberedRecord) /\ Contiguous(fs'[p])
      /\ OnDisk' \subseteq OnDisk
  BY <1>1, <1>2, <1>3, FilesMoved
<1>5. next_seq' \in Nat \ {0} /\ EndsBefore(fs'[Active], next_seq')
  <2>1. PICK f \in Seq(NumberedRecord) : f = fs'[Active]
    BY <1>3, <1>4
  <2>2. CASE f = <<>>
    BY <1>2, <2>1, <2>2 DEF RecoveredSeq, EndsBefore
  <2>3. CASE f # <<>>
    <3>1. f[Len(f)] \in NumberedRecord
      BY <2>1, <2>3
    <3>2. f[Len(f)].seq \in Nat
      BY <3>1 DEF NumberedRecord
    <3>3. next_seq' = f[Len(f)].seq + 1
      BY <1>2, <2>1, <2>3 DEF RecoveredSeq, Last
    <3> QED BY <2>1, <3>2, <3>3 DEF EndsBefore
  <2> QED BY <2>2, <2>3
<1>6. RotationTypeOK'
  BY <1>1, <1>2, <1>3, <1>4, <1>5, Numbers DEF FileInv, RotationTypeOK
<1>7. FileInv'
  BY <1>2, <1>4, <1>5, <1>6 DEF FileInv, FilesAreContiguous, HandleFollows, Contiguous
<1> QED BY <1>2, <1>4, <1>6, <1>7, RanksMoved DEF RotationInv

LEMMA AppendKeeps ==
  ASSUME RotationInv, AppendRecord
  PROVE  RotationInv'
<1>1. FileInv
  BY DEF RotationInv
<1>2. PICK n : n = [seq |-> next_seq, rank |-> written + 1]
  OBVIOUS
<1>3. PICK f : f = fs[handle]
  OBVIOUS
<1>4. /\ next_seq \in Nat \ {0} /\ written \in Nat /\ openedAt \in Nat /\ MaxAppends \in Nat
      /\ n \in NumberedRecord /\ n.seq = next_seq /\ n.rank = written + 1
  BY <1>1, <1>2, Numbers DEF FileInv, AppendRecord, NumberedRecord
<1>5. /\ handle \in DOMAIN fs /\ f \in Seq(NumberedRecord) /\ Contiguous(f)
      /\ EndsBefore(f, next_seq)
  BY <1>1, <1>3 DEF FileInv, RotationTypeOK, FilesAreContiguous, HandleFollows, Contiguous,
     AppendRecord
<1>6. /\ DOMAIN fs' = DOMAIN fs /\ fs'[handle] = Append(f, n)
      /\ \A p \in DOMAIN fs : p # handle => fs'[p] = fs[p]
      /\ handle' = handle /\ openedAt' = openedAt
      /\ next_seq' = next_seq + 1 /\ written' = written + 1
  BY <1>2, <1>3, <1>5 DEF AppendRecord
<1>7. /\ Append(f, n) \in Seq(NumberedRecord) /\ Len(Append(f, n)) = Len(f) + 1
      /\ Append(f, n)[Len(f) + 1] = n /\ \A i \in 1..Len(f) : Append(f, n)[i] = f[i]
      /\ Len(f) \in Nat /\ DOMAIN f = 1..Len(f) /\ DOMAIN Append(f, n) = 1..(Len(f) + 1)
  BY <1>4, <1>5
<1>8. Contiguous(Append(f, n))
  <2> SUFFICES ASSUME NEW i \in 1..Len(f)
               PROVE  Append(f, n)[i + 1].seq = Append(f, n)[i].seq + 1
    BY <1>7 DEF Contiguous
  <2>1. CASE i < Len(f)
    <3>1. i \in 1..(Len(f) - 1) /\ i + 1 \in 1..Len(f)
      BY <1>7, <2>1
    <3>2. f[i + 1].seq = f[i].seq + 1
      BY <1>5, <3>1 DEF Contiguous
    <3> QED BY <1>7, <3>1, <3>2
  <2>2. CASE i = Len(f)
    <3>1. f[i].seq = next_seq - 1
      BY <1>5, <1>7, <2>2 DEF EndsBefore
    <3> QED BY <1>4, <1>7, <2>2, <3>1
  <2>3. Len(f) \in Nat
    BY <1>7
  <2>4. i < Len(f) \/ i = Len(f)
    BY <2>3
  <2> QED BY <2>1, <2>2, <2>4
<1>9. EndsBefore(fs'[handle], next_seq')
  BY <1>4, <1>6, <1>7 DEF EndsBefore
<1>10. RotationTypeOK'
  BY <1>1, <1>4, <1>6, <1>7 DEF FileInv, RotationTypeOK, AppendRecord
<1>11. FileInv'
  <2>1. FilesAreContiguous'
    <3>1. \A p \in DOMAIN fs : Contiguous(fs'[p])
      BY <1>1, <1>6, <1>8 DEF FileInv, FilesAreContiguous, Contiguous
    <3> QED BY <1>6, <3>1 DEF FilesAreContiguous, Contiguous
  <2>2. HandleFollows'
    BY <1>1, <1>6, <1>9 DEF FileInv, HandleFollows
  <2> QED BY <1>10, <2>1, <2>2 DEF FileInv
<1>12. OnDisk' \subseteq OnDisk \cup {n}
  <2> SUFFICES ASSUME NEW r \in OnDisk' PROVE r \in OnDisk \cup {n}
    OBVIOUS
  <2> PICK p \in DOMAIN fs' : \E i \in DOMAIN fs'[p] : r = fs'[p][i]
    BY DEF OnDisk, Range
  <2>1. PICK i \in DOMAIN fs'[p] : r = fs'[p][i]
    OBVIOUS
  <2>2. CASE p # handle
    BY <1>6, <2>1, <2>2, OnDiskRecords
  <2>3. CASE p = handle
    <3>1. i \in 1..(Len(f) + 1) /\ r = Append(f, n)[i]
      BY <1>6, <1>7, <2>1, <2>3
    <3>2. CASE i = Len(f) + 1
      BY <1>7, <3>1, <3>2
    <3>3. CASE i \in 1..Len(f)
      BY <1>3, <1>5, <1>7, <3>1, <3>3, OnDiskRecords
    <3> QED BY <1>7, <3>1, <3>2, <3>3
  <2> QED BY <2>2, <2>3
<1>13. \A r \in OnDisk : /\ r.rank \in Nat /\ r.seq \in Nat /\ r.rank <= written
                         /\ openedAt < r.rank => r.seq < next_seq
  BY <1>1, OnDiskTyped DEF RotationInv, FileInv, RanksArePast, NumberedRecord
<1>14. NumbersFollowAppends'
  BY <1>4, <1>6, <1>12, <1>13 DEF RotationInv, NumbersFollowAppends
<1>15. RanksArePast'
  BY <1>4, <1>6, <1>12, <1>13 DEF RanksArePast
<1> QED BY <1>11, <1>14, <1>15 DEF RotationInv

LEMMA RotateKeeps ==
  ASSUME RotationInv, Rotate
  PROVE  RotationInv'
<1>1. FileInv
  BY DEF RotationInv
<1>2. next_seq \in Nat \ {0} /\ Active \notin Nat /\ Closed \notin Nat /\ Active # Closed
  BY <1>1, Numbers DEF FileInv
<1>3. PICK archive : archive = next_seq - 1 /\ archive \in Nat
  BY <1>2
<1>4. /\ DOMAIN fs' = (DOMAIN fs \ {Active}) \cup {archive}
      /\ fs'[archive] = WithActive[Active]
      /\ \A p \in DOMAIN fs \ {Active, archive} : fs'[p] = fs[p]
      /\ handle' = archive /\ handle # Closed
      /\ UNCHANGED <<next_seq, written, openedAt>>
  BY <1>3 DEF Rotate
<1>5. DOMAIN fs' \subseteq Path /\ Active \notin DOMAIN fs'
  BY <1>1, <1>2, <1>3, <1>4 DEF FileInv, RotationTypeOK, Path
<1>6. \A p \in DOMAIN fs' : \E q \in DOMAIN WithActive : fs'[p] = WithActive[q]
  BY <1>1, <1>4, WithActiveFacts
<1>7. /\ \A p \in DOMAIN fs' : fs'[p] \in Seq(NumberedRecord) /\ Contiguous(fs'[p])
      /\ OnDisk' \subseteq OnDisk
  BY <1>1, <1>5, <1>6, FilesMoved
<1>8. EndsBefore(fs'[archive], next_seq)
  <2>1. CASE handle = Active
    <3>1. fs'[archive] = fs[Active]
      BY <1>1, <1>4, <2>1, WithActiveFacts DEF FileInv, RotationTypeOK
    <3> QED BY <1>1, <1>4, <2>1, <3>1 DEF FileInv, HandleFollows
  <2>2. CASE handle # Active
    <3>1. fs'[archive] = <<>>
      BY <1>1, <1>4, <2>2, WithActiveFacts DEF FileInv, HandleFollows
    <3> QED BY <3>1 DEF EndsBefore
  <2> QED BY <2>1, <2>2
<1>9. RotationTypeOK'
  BY <1>1, <1>4, <1>5, <1>7 DEF FileInv, RotationTypeOK
<1>10. FileInv'
  BY <1>4, <1>5, <1>7, <1>8, <1>9 DEF FileInv, FilesAreContiguous, HandleFollows, Contiguous
<1> QED BY <1>4, <1>7, <1>9, <1>10, RanksMoved DEF RotationInv

LEMMA RenameFailsKeeps ==
  ASSUME RotationInv, RotateRenameFails
  PROVE  RotationInv'
<1>1. FileInv
  BY DEF RotationInv
<1>2. /\ fs' = WithActive /\ handle' = Active /\ handle # Closed
      /\ UNCHANGED <<next_seq, written, openedAt>>
  BY DEF RotateRenameFails
<1>3. DOMAIN fs' \subseteq Path /\ Active \in DOMAIN fs'
  BY <1>1, <1>2, WithActiveFacts DEF FileInv, RotationTypeOK, Path
<1>4. /\ \A p \in DOMAIN fs' : fs'[p] \in Seq(NumberedRecord) /\ Contiguous(fs'[p])
      /\ OnDisk' \subseteq OnDisk
  BY <1>1, <1>2, <1>3, FilesMoved
<1>5. EndsBefore(fs'[Active], next_seq)
  <2>1. CASE handle = Active
    <3>1. fs'[Active] = fs[Active]
      BY <1>1, <1>2, <2>1, WithActiveFacts DEF FileInv, RotationTypeOK
    <3> QED BY <1>1, <1>2, <2>1, <3>1 DEF FileInv, HandleFollows
  <2>2. CASE handle # Active
    <3>1. fs'[Active] = <<>>
      BY <1>1, <1>2, <2>2, WithActiveFacts DEF FileInv, HandleFollows
    <3> QED BY <3>1 DEF EndsBefore
  <2> QED BY <2>1, <2>2
<1>6. RotationTypeOK'
  BY <1>1, <1>2, <1>3, <1>4 DEF FileInv, RotationTypeOK
<1>7. FileInv'
  BY <1>2, <1>4, <1>5, <1>6 DEF FileInv, FilesAreContiguous, HandleFollows, Contiguous
<1> QED BY <1>2, <1>4, <1>6, <1>7, RanksMoved DEF RotationInv

LEMMA RotationStep == RotationInv /\ [RotationNext]_rotationVars => RotationInv'
<1> SUFFICES ASSUME RotationInv, [RotationNext]_rotationVars PROVE RotationInv'
  OBVIOUS
<1>1. CASE Close
  BY <1>1 DEF Close, RotationInv, FileInv, RotationTypeOK, FilesAreContiguous, HandleFollows,
     NumbersFollowAppends, RanksArePast, OnDisk
<1>2. CASE UNCHANGED rotationVars
  BY <1>2 DEF rotationVars, RotationInv, FileInv, RotationTypeOK, FilesAreContiguous,
     HandleFollows, NumbersFollowAppends, RanksArePast, OnDisk
<1> QED BY <1>1, <1>2, OpenKeeps, AppendKeeps, RotateKeeps, RenameFailsKeeps
        DEF RotationNext

\* The file being written, the archives and the next number fit together.
THEOREM RotationInvariant == RotationSpec => []RotationInv
  BY RotationBegins, RotationStep, PTL DEF RotationSpec

\* The files, the handle and the numbers keep their types.
THEOREM RotationTypeCorrect == RotationSpec => []RotationTypeOK
<1>1. RotationInv => RotationTypeOK
  BY DEF RotationInv, FileInv
<1> QED BY <1>1, RotationInvariant, PTL

\* Whatever mixture of rotations, failed renames and restarts produced a file, its numbers
\* follow one another.
THEOREM FilesStayContiguous == RotationSpec => []FilesAreContiguous
<1>1. RotationInv => FilesAreContiguous
  BY DEF RotationInv, FileInv
<1> QED BY <1>1, RotationInvariant, PTL

\* Between two restarts the numbers increase with the appends over all the files, however
\* many archives there are and whichever was overwritten.
THEOREM NumbersIncrease == RotationSpec => []NumbersFollowAppends
<1>1. RotationInv => NumbersFollowAppends
  BY DEF RotationInv
<1> QED BY <1>1, RotationInvariant, PTL

-----------------------------------------------------------------------------
(* The memtable *)

\* The inserts under way.
Pending == {w \in Writer : pending[w] # Idle}

\* What the rows and the inserts under way are charged, less one entry per writer, is
\* counted in the size. CapacityLag is not inductive: an insert that ends charges nothing.
SizeLag == (Cardinality(Rows) + Cardinality(Pending)) * EntrySize
             <= size + Cardinality(Writer) * EntrySize

TableInv == TypeOK /\ NewestIsKept /\ IsFiniteSet(Rows) /\ SizeLag

LEMMA OneMore ==
  ASSUME NEW n \in Nat, NEW e \in Nat
  PROVE  (n + 1) * e = n * e + e
OBVIOUS

LEMMA NoMore ==
  ASSUME NEW m \in Nat, NEW n \in Nat, NEW e \in Nat, m <= n
  PROVE  m * e <= n * e
<1>1. PICK d \in Nat : n = m + d
  BY n - m \in Nat
<1>2. (m + d) * e = m * e + d * e /\ d * e \in Nat /\ m * e \in Nat
  OBVIOUS
<1> QED BY <1>1, <1>2

\* Sizes and counts are numbers.
LEMMA Counts ==
  ASSUME TypeOK, IsFiniteSet(Rows)
  PROVE  /\ Cardinality(Rows) \in Nat /\ Cardinality(Writer) \in Nat
         /\ IsFiniteSet(Pending) /\ Cardinality(Pending) \in Nat
         /\ Cardinality(Pending) <= Cardinality(Writer)
         /\ size \in Nat /\ EntrySize \in Nat
<1>1. IsFiniteSet(Writer)
  BY ConcurrentAssumption DEF ConcurrentAssumption
<1>2. Pending \subseteq Writer
  BY DEF Pending
<1> QED BY <1>1, <1>2, FS_Subset, FS_CardinalityType, MemTableAssumption
        DEF MemTableAssumption, TypeOK, TableTypeOK

LEMMA TableBegins == Init => TableInv
<1> SUFFICES ASSUME Init PROVE TableInv
  OBVIOUS
<1>1. Rows = {} /\ Pending = {}
  BY DEF Init, TableInit, EmptyTable, Rows, Pending
<1>2. TypeOK
  BY ConcurrentAssumption DEF ConcurrentAssumption, Init, TableInit, EmptyTable, TypeOK,
     TableTypeOK
<1>3. NewestIsKept
  BY <1>1 DEF Init, TableInit, EmptyTable, NewestIsKept
<1>4. IsFiniteSet(Rows) /\ Cardinality(Rows) = 0 /\ Cardinality(Pending) = 0
  BY <1>1, FS_EmptySet
<1>5. Cardinality(Writer) \in Nat /\ EntrySize \in Nat /\ size \in Nat
  BY <1>2, <1>4, Counts
<1>6. Cardinality(Writer) * EntrySize \in Nat
  BY <1>5
<1>7. SizeLag
  BY <1>4, <1>5, <1>6 DEF SizeLag
<1> QED BY <1>2, <1>3, <1>4, <1>7 DEF TableInv

LEMMA StartKeeps ==
  ASSUME TableInv, NEW w \in Writer, NEW k \in Key, NEW e \in Entry, StartInsert(w, k, e)
  PROVE  TableInv'
<1>1. TypeOK'
  BY MemTableAssumption, ConcurrentAssumption
     DEF MemTableAssumption, ConcurrentAssumption, TableInv, TypeOK, TableTypeOK, StartInsert,
         Reserve, Request
<1>2. Rows' = Rows
  BY DEF StartInsert, Rows
<1>3. NewestIsKept'
  BY <1>2 DEF StartInsert, TableInv, NewestIsKept
<1>4. Pending' \in SUBSET (Pending \cup {w})
  BY DEF StartInsert, Pending, TableInv, TypeOK
<1>5. size' = size + EntrySize
  BY DEF StartInsert, Reserve
<1>6. /\ Cardinality(Rows) \in Nat /\ Cardinality(Writer) \in Nat
      /\ IsFiniteSet(Pending) /\ Cardinality(Pending) \in Nat
      /\ size \in Nat /\ EntrySize \in Nat
  BY Counts DEF TableInv
<1>7. Cardinality(Pending') \in Nat /\ Cardinality(Pending') <= Cardinality(Pending) + 1
  <2>1. /\ IsFiniteSet(Pending \cup {w})
        /\ Cardinality(Pending \cup {w}) <= Cardinality(Pending) + 1
    BY <1>6, FS_AddElement
  <2> QED BY <1>4, <1>6, <2>1, FS_Subset, FS_CardinalityType
<1>8. SizeLag'
  <2> DEFINE n == Cardinality(Rows) + Cardinality(Pending)
             m == Cardinality(Rows) + Cardinality(Pending')
  <2>1. n \in Nat /\ m \in Nat /\ m <= n + 1
    BY <1>6, <1>7
  <2>2. n * EntrySize <= size + Cardinality(Writer) * EntrySize
    BY DEF TableInv, SizeLag
  <2> HIDE DEF n, m
  <2>3. /\ m * EntrySize <= (n + 1) * EntrySize /\ (n + 1) * EntrySize = n * EntrySize + EntrySize
    BY <1>6, <2>1, NoMore, OneMore
  <2>4. /\ m * EntrySize \in Nat /\ n * EntrySize \in Nat
        /\ Cardinality(Writer) * EntrySize \in Nat
    BY <1>6, <2>1
  <2>5. m * EntrySize <= size' + Cardinality(Writer) * EntrySize
    BY <1>5, <1>6, <2>2, <2>3, <2>4
  <2> QED BY <1>2, <2>5 DEF m, SizeLag
<1> QED BY <1>1, <1>2, <1>3, <1>8 DEF TableInv

LEMMA FinishKeeps ==
  ASSUME TableInv, NEW w \in Writer, FinishInsert(w)
  PROVE  TableInv'
<1>1. pending[w] \in Request
  BY DEF TableInv, TypeOK, FinishInsert
<1>2. PICK k \in Key, e \in Entry : pending[w].key = k /\ pending[w].entry = e
  BY <1>1 DEF Request
<1>3. /\ data' = [data EXCEPT ![k] = e] /\ newest' = [newest EXCEPT ![k] = e]
      /\ data \in [Key -> Entry \cup {Absent}] /\ newest \in [Key -> Entry \cup {Absent}]
  BY <1>2 DEF FinishInsert, Put, TableInv, TypeOK, TableTypeOK
<1>4. TypeOK'
  <2>1. data' \in [Key -> Entry \cup {Absent}] /\ newest' \in [Key -> Entry \cup {Absent}]
    BY <1>3
  <2>2. pending' \in [Writer -> Request \cup {Idle}]
    BY DEF FinishInsert, TableInv, TypeOK
  <2> QED BY <2>1, <2>2 DEF FinishInsert, TableInv, TypeOK, TableTypeOK
<1>5. Rows' = Rows \cup {k}
  BY <1>3, MemTableAssumption DEF MemTableAssumption, Rows
<1>6. NewestIsKept'
  <2> SUFFICES ASSUME NEW j \in Key
               PROVE  newest'[j] = IF j \in Rows' THEN data'[j] ELSE flushed'[j]
    BY DEF NewestIsKept
  <2>1. CASE j = k
    BY <1>3, <1>5, <2>1
  <2>2. CASE j # k
    <3>1. newest'[j] = newest[j] /\ data'[j] = data[j] /\ flushed' = flushed
      BY <1>3, <2>2 DEF FinishInsert
    <3> QED BY <1>5, <2>2, <3>1 DEF TableInv, NewestIsKept
  <2> QED BY <2>1, <2>2
<1>7. Pending' = Pending \ {w} /\ w \in Pending
  BY DEF FinishInsert, Pending, TableInv, TypeOK
<1>8. /\ Cardinality(Rows) \in Nat /\ Cardinality(Writer) \in Nat
      /\ IsFiniteSet(Pending) /\ Cardinality(Pending) \in Nat
      /\ size \in Nat /\ EntrySize \in Nat
  BY Counts DEF TableInv
<1>9. /\ IsFiniteSet(Rows') /\ Cardinality(Rows') \in Nat
      /\ Cardinality(Rows') <= Cardinality(Rows) + 1
  <2>1. IsFiniteSet(Rows)
    BY DEF TableInv
  <2>2. /\ IsFiniteSet(Rows \cup {k})
        /\ Cardinality(Rows \cup {k}) = IF k \in Rows THEN Cardinality(Rows)
                                         ELSE Cardinality(Rows) + 1
    BY <2>1, FS_AddElement
  <2> QED BY <1>5, <1>8, <2>2
<1>10. Cardinality(Pending') \in Nat /\ Cardinality(Pending') = Cardinality(Pending) - 1
  BY <1>7, <1>8, FS_RemoveElement, FS_CardinalityType
<1>11. SizeLag'
  <2> DEFINE n == Cardinality(Rows) + Cardinality(Pending)
             m == Cardinality(Rows') + Cardinality(Pending')
  <2>1. n \in Nat /\ m \in Nat /\ m <= n
    BY <1>8, <1>9, <1>10
  <2>2. n * EntrySize <= size + Cardinality(Writer) * EntrySize
    BY DEF TableInv, SizeLag
  <2> HIDE DEF n, m
  <2>3. m * EntrySize <= n * EntrySize
    BY <1>8, <2>1, NoMore
  <2>4. /\ m * EntrySize \in Nat /\ n * EntrySize \in Nat
        /\ Cardinality(Writer) * EntrySize \in Nat
    BY <1>8, <2>1
  <2>5. m * EntrySize <= size' + Cardinality(Writer) * EntrySize
    BY <1>8, <2>2, <2>3, <2>4 DEF FinishInsert
  <2> QED BY <2>5 DEF m, SizeLag
<1> QED BY <1>4, <1>6, <1>9, <1>11 DEF TableInv

LEMMA DrainKeeps ==
  ASSUME TableInv, DrainRows
  PROVE  TableInv'
<1>1. data' = EmptyTable /\ size' = 0 /\ Pending' = Pending
  BY DEF DrainRows, Drain, Pending
<1>2. Rows' = {}
  BY <1>1 DEF Rows, EmptyTable
<1>3. TypeOK'
  BY <1>1 DEF DrainRows, EmptyTable, Rows, TableInv, TypeOK, TableTypeOK
<1>4. NewestIsKept'
  BY <1>2 DEF DrainRows, TableInv, NewestIsKept
<1>5. IsFiniteSet(Rows') /\ Cardinality(Rows') = 0
  BY <1>2, FS_EmptySet
<1>6. /\ Cardinality(Writer) \in Nat /\ Cardinality(Pending) \in Nat
      /\ Cardinality(Pending) <= Cardinality(Writer) /\ EntrySize \in Nat
  BY Counts DEF TableInv
<1>7. Cardinality(Pending) * EntrySize <= Cardinality(Writer) * EntrySize
  BY <1>6, NoMore
<1>8. SizeLag'
  BY <1>1, <1>5, <1>6, <1>7 DEF SizeLag
<1> QED BY <1>3, <1>4, <1>5, <1>8 DEF TableInv

LEMMA TableNext == TableInv /\ [Next]_vars => TableInv'
<1> SUFFICES ASSUME TableInv, [Next]_vars PROVE TableInv'
  OBVIOUS
<1>1. CASE UNCHANGED vars
  BY <1>1 DEF vars, TableInv, TypeOK, TableTypeOK, NewestIsKept, SizeLag, Rows, Pending
<1> QED BY <1>1, StartKeeps, FinishKeeps, DrainKeeps DEF Next

\* Rows, inserts under way and the size charged for them fit together.
THEOREM TableInvariant == Spec => []TableInv
  BY TableBegins, TableNext, PTL DEF Spec

\* The map, its size and the inserts under way keep their types.
THEOREM MemTableTypeCorrect == Spec => []TypeOK
<1>1. TableInv => TypeOK
  BY DEF TableInv
<1> QED BY <1>1, TableInvariant, PTL

\* However many writers race a drain, the newest entry of a key is in the map or was
\* handed to the flush by the last drain that saw the key.
THEOREM NoInsertIsLost == Spec => []NewestIsKept
<1>1. TableInv => NewestIsKept
  BY DEF TableInv
<1> QED BY <1>1, TableInvariant, PTL

\* The size that at_capacity reads lags the rows by at most one entry per writer, for any
\* number of writers, keys and drains.
THEOREM SizeLagsByWriters == Spec => []CapacityLag
<1>1. TableInv => CapacityLag
  <2> SUFFICES ASSUME TableInv PROVE CapacityLag
    OBVIOUS
  <2>1. /\ Cardinality(Rows) \in Nat /\ Cardinality(Pending) \in Nat /\ EntrySize \in Nat
        /\ Cardinality(Writer) \in Nat /\ size \in Nat
    BY Counts DEF TableInv
  <2> DEFINE n == Cardinality(Rows) + Cardinality(Pending)
  <2>2. n \in Nat /\ Cardinality(Rows) <= n
    BY <2>1
  <2>3. n * EntrySize <= size + Cardinality(Writer) * EntrySize
    BY DEF TableInv, SizeLag
  <2> HIDE DEF n
  <2>4. Cardinality(Rows) * EntrySize <= n * EntrySize
    BY <2>1, <2>2, NoMore
  <2>5. /\ Cardinality(Rows) * EntrySize \in Nat /\ n * EntrySize \in Nat
        /\ Cardinality(Writer) * EntrySize \in Nat
    BY <2>1, <2>2
  <2> QED BY <2>1, <2>3, <2>4, <2>5 DEF CapacityLag
<1> QED BY <1>1, TableInvariant, PTL
-----------------------------------------------------------------------------
(* Scans: the bytes of keys order the map, and a scan takes one key after the other *)

\* Keys, and the places from which a scan starts.
Bytes == Seq(0..255)

\* A string that has ended comes before one that goes on.
ByteAt(k, n) == IF n <= Len(k) THEN k[n] ELSE -1

SameBelow(k, l, n) == \A m \in 1..(n - 1) : ByteAt(k, m) = ByteAt(l, m)

LEMMA SameElements ==
  ASSUME NEW S, NEW s \in Seq(S), NEW q \in Seq(S), Len(s) = Len(q),
         \A n \in 1..Len(s) : s[n] = q[n]
  PROVE  s = q
OBVIOUS

LEMMA ByteTypes == ASSUME NEW k \in Bytes, NEW n \in Nat \ {0} PROVE ByteAt(k, n) \in -1..255
<1>1. Len(k) \in Nat /\ \A m \in 1..Len(k) : k[m] \in 0..255
  BY Elements DEF Bytes
<1>2. CASE n <= Len(k)
  <2>1. n \in 1..Len(k)
    BY <1>1, <1>2
  <2> QED BY <1>1, <1>2, <2>1 DEF ByteAt
<1>3. CASE ~(n <= Len(k))
  BY <1>3 DEF ByteAt
<1> QED BY <1>2, <1>3

\* The order of keys, in one case.
LEMMA BeforeMeans ==
  ASSUME NEW k \in Bytes, NEW l \in Bytes
  PROVE  Before(k, l) <=> \E n \in Nat \ {0} : SameBelow(k, l, n) /\ ByteAt(k, n) < ByteAt(l, n)
<1>1. /\ Len(k) \in Nat /\ \A m \in 1..Len(k) : k[m] \in 0..255
      /\ Len(l) \in Nat /\ \A m \in 1..Len(l) : l[m] \in 0..255
  BY Elements DEF Bytes
<1>2. IsStrictPrefix(k, l) <=> Len(k) < Len(l) /\ \A m \in 1..Len(k) : k[m] = l[m]
  <2>1. SubSeq(k, 1, Len(k)) = k
    <3>1. k \in Seq(0..255)
      BY DEF Bytes
    <3>2. /\ SubSeq(k, 1, Len(k)) \in Seq(0..255) /\ Len(SubSeq(k, 1, Len(k))) = Len(k)
          /\ \A m \in 1..Len(k) : SubSeq(k, 1, Len(k))[m] = k[m]
      BY <1>1, <3>1
    <3> QED BY <3>1, <3>2
  <2>2. ASSUME Len(k) <= Len(l), SubSeq(l, 1, Len(k)) = k
        PROVE  \A m \in 1..Len(k) : k[m] = l[m]
    BY <1>1, <2>2 DEF Bytes
  <2>3. ASSUME Len(k) <= Len(l), \A m \in 1..Len(k) : k[m] = l[m]
        PROVE  SubSeq(l, 1, Len(k)) = k
    <3>1. /\ SubSeq(l, 1, Len(k)) \in Bytes /\ Len(SubSeq(l, 1, Len(k))) = Len(k)
          /\ \A m \in 1..Len(k) : SubSeq(l, 1, Len(k))[m] = l[m]
      BY <1>1, <2>3 DEF Bytes
    <3> QED BY <1>1, <2>3, <3>1 DEF Bytes
  <2>4. ASSUME Len(k) = Len(l), \A m \in 1..Len(k) : k[m] = l[m] PROVE k = l
    BY <1>1, <2>4 DEF Bytes
  <2>5. IsPrefix(k, l) <=> Len(k) <= Len(l) /\ \A m \in 1..Len(k) : k[m] = l[m]
    BY <2>1, <2>2, <2>3 DEF IsPrefix
  <2> QED BY <1>1, <2>4, <2>5 DEF IsStrictPrefix
<1>3. ASSUME IsStrictPrefix(k, l)
      PROVE  \E n \in Nat \ {0} : SameBelow(k, l, n) /\ ByteAt(k, n) < ByteAt(l, n)
  <2>1. SameBelow(k, l, Len(k) + 1)
    BY <1>1, <1>2, <1>3 DEF SameBelow, ByteAt
  <2>2. ByteAt(k, Len(k) + 1) = -1 /\ ByteAt(l, Len(k) + 1) \in 0..255
    BY <1>1, <1>2, <1>3 DEF ByteAt
  <2>3. PICK n \in Nat \ {0} : n = Len(k) + 1
    BY <1>1
  <2>4. SameBelow(k, l, n) /\ ByteAt(k, n) < ByteAt(l, n)
    <3>1. ByteAt(k, n) = -1 /\ ByteAt(l, n) \in 0..255
      BY <2>2, <2>3
    <3>2. \A b : b \in 0..255 => -1 < b
      OBVIOUS
    <3> QED BY <2>1, <2>3, <3>1, <3>2
  <2> QED BY <2>4
<1>4. ASSUME NEW n \in 1..Len(k), n <= Len(l), k[n] < l[n], \A m \in 1..(n - 1) : k[m] = l[m]
      PROVE  \E p \in Nat \ {0} : SameBelow(k, l, p) /\ ByteAt(k, p) < ByteAt(l, p)
  <2>1. SameBelow(k, l, n) /\ ByteAt(k, n) < ByteAt(l, n)
    BY <1>1, <1>4 DEF SameBelow, ByteAt
  <2> QED BY <1>1, <2>1
<1>5. ASSUME NEW n \in Nat \ {0}, SameBelow(k, l, n), ByteAt(k, n) < ByteAt(l, n)
      PROVE  Before(k, l)
  <2>1. n <= Len(l) /\ ByteAt(l, n) = l[n]
    <3>1. ByteAt(k, n) \in -1..255
      BY ByteTypes
    <3>2. n <= Len(l)
      <4> SUFFICES ASSUME ~(n <= Len(l)) PROVE FALSE
        OBVIOUS
      <4>1. ByteAt(l, n) = -1
        BY DEF ByteAt
      <4>2. \A b : b \in -1..255 => ~(b < -1)
        OBVIOUS
      <4> QED BY <1>5, <3>1, <4>1, <4>2
    <3> QED BY <3>2 DEF ByteAt
  <2>2. ASSUME NEW m \in 1..(n - 1) PROVE m <= Len(k) /\ k[m] = l[m]
    <3>1. m <= Len(l) /\ m \in 1..Len(l)
      BY <1>1, <2>1
    <3>2. ByteAt(k, m) = l[m] /\ l[m] \in 0..255
      BY <1>1, <1>5, <3>1 DEF SameBelow, ByteAt
    <3>3. m <= Len(k)
      <4> SUFFICES ASSUME ~(m <= Len(k)) PROVE FALSE
        OBVIOUS
      <4>1. ByteAt(k, m) = -1
        BY DEF ByteAt
      <4> QED BY <3>2, <4>1
    <3> QED BY <3>2, <3>3 DEF ByteAt
  <2>3. CASE n <= Len(k)
    <3>1. n \in 1..Len(k) /\ k[n] < l[n]
      BY <1>1, <1>5, <2>1, <2>3 DEF ByteAt
    <3> QED BY <2>1, <2>2, <3>1 DEF Before
  <2>4. CASE Len(k) < n
    <3>1. Len(k) < Len(l)
      BY <1>1, <2>1, <2>4
    <3>2. \A m \in 1..Len(k) : m \in 1..(n - 1)
      BY <1>1, <2>4
    <3> QED BY <1>2, <2>2, <3>1, <3>2 DEF Before
  <2> QED BY <1>1, <2>3, <2>4
<1> QED BY <1>3, <1>4, <1>5 DEF Before

\* Where two keys differ there is a first place that tells them apart.
LEMMA FirstDifference ==
  ASSUME NEW k \in Bytes, NEW l \in Bytes, NEW n \in Nat \ {0}, ByteAt(k, n) # ByteAt(l, n)
  PROVE  \E p \in 1..n : SameBelow(k, l, p) /\ ByteAt(k, p) # ByteAt(l, p)
<1> DEFINE Others == {m \in 1..n : ByteAt(k, m) # ByteAt(l, m)}
<1>1. n \in Others /\ Others \subseteq Nat
  OBVIOUS
<1>2. PICK p \in Others : \A m \in Others : p <= m
  <2> HIDE DEF Others
  <2> QED BY <1>1, LeastNatural
<1>3. ASSUME NEW m \in 1..(p - 1) PROVE ByteAt(k, m) = ByteAt(l, m)
  <2>1. m \in 1..n /\ ~(p <= m)
    BY <1>2
  <2>2. m \notin Others
    <3> HIDE DEF Others
    <3> QED BY <1>2, <2>1
  <2> QED BY <2>1, <2>2
<1> QED BY <1>2, <1>3 DEF SameBelow

LEMMA SomeDifference ==
  ASSUME NEW k \in Bytes, NEW l \in Bytes, k # l
  PROVE  \E n \in Nat \ {0} : ByteAt(k, n) # ByteAt(l, n)
<1> SUFFICES ASSUME \A n \in Nat \ {0} : ByteAt(k, n) = ByteAt(l, n) PROVE FALSE
  OBVIOUS
<1>0. k \in Seq(0..255) /\ l \in Seq(0..255)
  BY DEF Bytes
<1>1. /\ Len(k) \in Nat /\ \A m \in 1..Len(k) : k[m] \in 0..255
      /\ Len(l) \in Nat /\ \A m \in 1..Len(l) : l[m] \in 0..255
  BY <1>0, Elements
<1>2. ~(Len(k) < Len(l))
  <2> SUFFICES ASSUME Len(k) < Len(l) PROVE FALSE
    OBVIOUS
  <2>1. PICK n \in Nat \ {0} : n = Len(l)
    BY <1>1
  <2>2. n \in 1..Len(l) /\ n <= Len(l) /\ ~(n <= Len(k))
    BY <1>1, <2>1
  <2>3. ByteAt(l, n) \in 0..255 /\ ByteAt(k, n) = -1
    BY <1>1, <2>2 DEF ByteAt
  <2>4. ByteAt(l, n) = ByteAt(k, n)
    OBVIOUS
  <2> QED BY <2>3, <2>4
<1>3. ~(Len(l) < Len(k))
  <2> SUFFICES ASSUME Len(l) < Len(k) PROVE FALSE
    OBVIOUS
  <2>1. PICK n \in Nat \ {0} : n = Len(k)
    BY <1>1
  <2>2. n \in 1..Len(k) /\ n <= Len(k) /\ ~(n <= Len(l))
    BY <1>1, <2>1
  <2>3. ByteAt(k, n) \in 0..255 /\ ByteAt(l, n) = -1
    BY <1>1, <2>2 DEF ByteAt
  <2>4. ByteAt(k, n) = ByteAt(l, n)
    OBVIOUS
  <2> QED BY <2>3, <2>4
<1>4. Len(k) = Len(l)
  BY <1>1, <1>2, <1>3
<1>5. \A m \in 1..Len(k) : k[m] = l[m]
  <2> SUFFICES ASSUME NEW m \in 1..Len(k) PROVE k[m] = l[m]
    OBVIOUS
  <2>1. m \in Nat \ {0} /\ m <= Len(k) /\ m <= Len(l)
    BY <1>1, <1>4
  <2> QED BY <2>1 DEF ByteAt
<1> QED BY <1>0, <1>4, <1>5

\* The order of the map, as a set of pairs.
KeyOrder == {p \in Bytes \X Bytes : Before(p[1], p[2])}

\* The bytes of two keys order them.
LEMMA KeysAreOrdered == Orders(KeyOrder, Bytes)
<1>1. \A k, l \in Bytes : <<k, l>> \in KeyOrder <=>
        \E n \in Nat \ {0} : SameBelow(k, l, n) /\ ByteAt(k, n) < ByteAt(l, n)
  BY BeforeMeans DEF KeyOrder
<1>2. ASSUME NEW k \in Bytes PROVE <<k, k>> \notin KeyOrder
  <2>1. \A n \in Nat \ {0} : ~(ByteAt(k, n) < ByteAt(k, n))
    BY ByteTypes
  <2> QED BY <1>1, <2>1
<1>3. ASSUME NEW k \in Bytes, NEW l \in Bytes, k # l
      PROVE  <<k, l>> \in KeyOrder \/ <<l, k>> \in KeyOrder
  <2>1. PICK n \in Nat \ {0} : ByteAt(k, n) # ByteAt(l, n)
    BY <1>3, SomeDifference
  <2>2. PICK p \in 1..n : SameBelow(k, l, p) /\ ByteAt(k, p) # ByteAt(l, p)
    BY <2>1, FirstDifference
  <2>3. p \in Nat \ {0} /\ SameBelow(l, k, p)
    BY <2>2 DEF SameBelow
  <2>4. ByteAt(k, p) < ByteAt(l, p) \/ ByteAt(l, p) < ByteAt(k, p)
    <3>1. ByteAt(k, p) \in Int /\ ByteAt(l, p) \in Int
      BY <2>3, ByteTypes
    <3> QED BY <2>2, <3>1
  <2> QED BY <1>1, <2>2, <2>3, <2>4
<1>4. ASSUME NEW j \in Bytes, NEW k \in Bytes, NEW l \in Bytes,
             <<j, k>> \in KeyOrder, <<k, l>> \in KeyOrder
      PROVE  <<j, l>> \in KeyOrder
  <2>1. PICK n \in Nat \ {0} : SameBelow(j, k, n) /\ ByteAt(j, n) < ByteAt(k, n)
    BY <1>1, <1>4
  <2>2. PICK m \in Nat \ {0} : SameBelow(k, l, m) /\ ByteAt(k, m) < ByteAt(l, m)
    BY <1>1, <1>4
  <2>3. /\ \A p \in Nat \ {0} : p < n => ByteAt(j, p) = ByteAt(k, p)
        /\ \A p \in Nat \ {0} : p < m => ByteAt(k, p) = ByteAt(l, p)
    BY <2>1, <2>2 DEF SameBelow
  <2>4. \A p \in Nat \ {0} : ByteAt(j, p) \in Int /\ ByteAt(k, p) \in Int /\ ByteAt(l, p) \in Int
    BY ByteTypes
  <2>5. PICK p \in Nat \ {0} : p <= n /\ p <= m /\ (p = n \/ p = m)
    <3>1. n <= m \/ m <= n
      OBVIOUS
    <3> QED BY <3>1
  <2>6. SameBelow(j, l, p)
    <3> SUFFICES ASSUME NEW q \in 1..(p - 1) PROVE ByteAt(j, q) = ByteAt(l, q)
      BY DEF SameBelow
    <3>1. q \in Nat \ {0} /\ q < n /\ q < m
      BY <2>5
    <3> QED BY <2>3, <3>1
  <2>7. ByteAt(j, p) < ByteAt(l, p)
    <3>1. CASE n < m
      <4>1. p = n /\ ByteAt(k, n) = ByteAt(l, n)
        BY <2>3, <2>5, <3>1
      <4> QED BY <2>1, <4>1
    <3>2. CASE m < n
      <4>1. p = m /\ ByteAt(j, m) = ByteAt(k, m)
        BY <2>3, <2>5, <3>2
      <4> QED BY <2>2, <4>1
    <3>3. CASE n = m
      BY <2>1, <2>2, <2>4, <2>5, <3>3
    <3> QED BY <3>1, <3>2, <3>3
  <2> QED BY <1>1, <2>6, <2>7
<1> QED BY <1>2, <1>3, <1>4 DEF Orders

LEMMA JoinFacts ==
  ASSUME NEW S, NEW p \in Seq(S), NEW z \in S, NEW q \in Seq(S)
  PROVE  /\ p \o <<z>> \in Seq(S) /\ Len(p \o <<z>>) = Len(p) + 1
         /\ \A n \in 1..Len(p) : (p \o <<z>>)[n] = p[n]
         /\ (p \o <<z>>)[Len(p) + 1] = z
         /\ p \o <<z>> \o q \in Seq(S) /\ Len(p \o <<z>> \o q) = Len(p) + 1 + Len(q)
         /\ \A n \in 1..(Len(p) + 1) : (p \o <<z>> \o q)[n] = (p \o <<z>>)[n]
         /\ \A n \in 1..Len(q) : (p \o <<z>> \o q)[Len(p) + 1 + n] = q[n]
<1>1. /\ p \o <<z>> \in Seq(S) /\ Len(p \o <<z>>) = Len(p) + 1
      /\ \A n \in 1..Len(p) : (p \o <<z>>)[n] = p[n]
      /\ (p \o <<z>>)[Len(p) + 1] = z
  OBVIOUS
<1>2. PICK r \in Seq(S) : r = p \o <<z>>
  BY <1>1
<1>3. Len(p) \in Nat /\ Len(q) \in Nat /\ Len(r) = Len(p) + 1
  BY <1>1, <1>2
<1>4. /\ r \o q \in Seq(S) /\ Len(r \o q) = Len(r) + Len(q)
      /\ \A n \in 1..Len(r) : (r \o q)[n] = r[n]
      /\ \A n \in 1..Len(q) : (r \o q)[Len(r) + n] = q[n]
  OBVIOUS
<1> QED BY <1>1, <1>2, <1>3, <1>4

\* A key is its table's name, a zero, and its id; a scan of the table starts after the zero.
LEMMA KeyBytes ==
  ASSUME NEW t \in TableName, NEW i \in RowId
  PROVE  /\ encode(t, i) \in Bytes /\ t \o <<0>> \in Bytes /\ Len(t) \in Nat
         /\ \A n \in 1..Len(t) : /\ t[n] \in 1..255
                                 /\ ByteAt(encode(t, i), n) = t[n]
                                 /\ ByteAt(t \o <<0>>, n) = t[n]
         /\ ByteAt(encode(t, i), Len(t) + 1) = 0
         /\ ByteAt(t \o <<0>>, Len(t) + 1) = 0
         /\ \A n \in Nat : Len(t) + 1 < n => ByteAt(t \o <<0>>, n) = -1
<1> DEFINE Byte == 0..255
<1>1. Len(t) \in Nat /\ \A n \in 1..Len(t) : t[n] \in 1..255
  BY ScanAssumption, Elements
<1>2. 0 \in Byte /\ 1..255 \subseteq Byte
  OBVIOUS
<1>3. i \in Seq(Byte) /\ Bytes = Seq(Byte)
  BY ScanAssumption DEF Bytes
<1>4. t \in Seq(1..255)
  BY ScanAssumption
<1> HIDE DEF Byte
<1>5. t \in Seq(Byte)
  BY <1>2, <1>4, SeqMonotone
<1>0. 0 \in Byte
  BY <1>2
<1>6. /\ t \o <<0>> \in Seq(Byte) /\ Len(t \o <<0>>) = Len(t) + 1
      /\ \A n \in 1..Len(t) : (t \o <<0>>)[n] = t[n]
      /\ (t \o <<0>>)[Len(t) + 1] = 0
      /\ t \o <<0>> \o i \in Seq(Byte) /\ Len(t \o <<0>> \o i) = Len(t) + 1 + Len(i)
      /\ \A n \in 1..(Len(t) + 1) : (t \o <<0>> \o i)[n] = (t \o <<0>>)[n]
  BY <1>0, <1>3, <1>5, JoinFacts
<1>7. PICK k : k = encode(t, i)
  OBVIOUS
<1>8. PICK start : start = t \o <<0>>
  OBVIOUS
<1>9. Len(i) \in Nat
  BY <1>3
<1>10. PICK l \in Nat : l = Len(t)
  BY <1>1
<1>11. /\ Len(start) = l + 1 /\ Len(k) = l + 1 + Len(i) /\ start[l + 1] = 0
       /\ \A n \in 1..l : start[n] = t[n]
       /\ \A n \in 1..(l + 1) : k[n] = start[n]
  BY <1>6, <1>7, <1>8, <1>10 DEF encode
<1>12. \A n \in 1..l : ByteAt(k, n) = t[n] /\ ByteAt(start, n) = t[n]
  BY <1>9, <1>11 DEF ByteAt
<1>13. ByteAt(k, l + 1) = 0 /\ ByteAt(start, l + 1) = 0
  BY <1>9, <1>11 DEF ByteAt
<1>14. \A n \in Nat : l + 1 < n => ByteAt(start, n) = -1
  BY <1>11 DEF ByteAt
<1>15. k \in Bytes /\ start \in Bytes
  BY <1>3, <1>6, <1>7, <1>8 DEF encode
<1> QED BY <1>1, <1>7, <1>8, <1>10, <1>12, <1>13, <1>14, <1>15

\* The names of two tables tell their keys apart, the zero after them included.
LEMMA TablesDiffer ==
  ASSUME NEW t \in TableName, NEW i \in RowId, NEW u \in TableName, NEW j \in RowId, t # u
  PROVE  \E n \in 1..(Len(t) + 1) : ByteAt(encode(t, i), n) # ByteAt(encode(u, j), n)
<1> SUFFICES ASSUME \A n \in 1..(Len(t) + 1) : ByteAt(encode(t, i), n) = ByteAt(encode(u, j), n)
             PROVE  FALSE
  OBVIOUS
<1>1. PICK k : k = encode(t, i)
  OBVIOUS
<1>2. PICK l : l = encode(u, j)
  OBVIOUS
<1>3. PICK a \in Nat : a = Len(t)
  BY KeyBytes
<1>4. PICK b \in Nat : b = Len(u)
  BY KeyBytes
<1>5. \A n \in 1..(a + 1) : ByteAt(k, n) = ByteAt(l, n)
  BY <1>1, <1>2, <1>3
<1>6. /\ \A n \in 1..a : t[n] \in 1..255 /\ ByteAt(k, n) = t[n]
      /\ ByteAt(k, a + 1) = 0
      /\ \A n \in 1..b : u[n] \in 1..255 /\ ByteAt(l, n) = u[n]
      /\ ByteAt(l, b + 1) = 0
  BY <1>1, <1>2, <1>3, <1>4, KeyBytes
<1>7. ~(a < b)
  <2> SUFFICES ASSUME a < b PROVE FALSE
    OBVIOUS
  <2>1. PICK n : n = a + 1
    OBVIOUS
  <2>2. n \in 1..b /\ n \in 1..(a + 1)
    BY <2>1
  <2>3. ByteAt(k, n) = 0
    BY <1>6, <2>1
  <2>4. u[n] \in 1..255 /\ ByteAt(l, n) = u[n]
    BY <1>6, <2>2
  <2>5. ByteAt(k, n) = ByteAt(l, n)
    BY <1>5, <2>2
  <2>6. \A c : c \in 1..255 => c # 0
    OBVIOUS
  <2> QED BY <2>3, <2>4, <2>5, <2>6
<1>8. ~(b < a)
  <2> SUFFICES ASSUME b < a PROVE FALSE
    OBVIOUS
  <2>1. PICK n : n = b + 1
    OBVIOUS
  <2>2. n \in 1..a /\ n \in 1..(a + 1)
    BY <2>1
  <2>3. ByteAt(l, n) = 0
    BY <1>6, <2>1
  <2>4. t[n] \in 1..255 /\ ByteAt(k, n) = t[n]
    BY <1>6, <2>2
  <2>5. ByteAt(k, n) = ByteAt(l, n)
    BY <1>5, <2>2
  <2>6. \A c : c \in 1..255 => c # 0
    OBVIOUS
  <2> QED BY <2>3, <2>4, <2>5, <2>6
<1>9. a = b /\ \A n \in 1..a : t[n] = u[n]
  <2>1. a = b
    BY <1>7, <1>8
  <2>2. \A n \in 1..a : n \in 1..(a + 1)
    OBVIOUS
  <2> QED BY <1>5, <1>6, <2>1, <2>2
<1>10. t = u
  <2> DEFINE Letter == 1..255
  <2>1. t \in Seq(Letter) /\ u \in Seq(Letter)
    BY ScanAssumption
  <2> HIDE DEF Letter
  <2>2. Len(t) = Len(u) /\ \A n \in 1..Len(t) : t[n] = u[n]
    BY <1>3, <1>4, <1>9
  <2> QED BY <2>1, <2>2, SameElements
<1> QED BY <1>10

\* A key is of one table and one id.
LEMMA KeysAreDistinct ==
  ASSUME NEW t \in TableName, NEW i \in RowId, NEW u \in TableName, NEW j \in RowId,
         encode(t, i) = encode(u, j)
  PROVE  t = u /\ i = j
<1>1. t = u
  BY TablesDiffer
<1> DEFINE Byte == 0..255
<1>2. 0 \in Byte /\ 1..255 \subseteq Byte
  OBVIOUS
<1>3. i \in Seq(Byte) /\ j \in Seq(Byte) /\ t \in Seq(1..255)
  BY ScanAssumption
<1> HIDE DEF Byte
<1>0. 0 \in Byte
  BY <1>2
<1>4. t \in Seq(Byte)
  BY <1>2, <1>3, SeqMonotone
<1>5. PICK k : k = encode(t, i) /\ k = encode(t, j)
  BY <1>1
<1>6. PICK a \in Nat : a = Len(t)
  BY <1>4
<1>7. Len(k) = a + 1 + Len(i) /\ \A n \in 1..Len(i) : k[a + 1 + n] = i[n]
  <2>1. /\ Len(t \o <<0>> \o i) = Len(t) + 1 + Len(i)
        /\ \A n \in 1..Len(i) : (t \o <<0>> \o i)[Len(t) + 1 + n] = i[n]
    BY <1>0, <1>3, <1>4, JoinFacts
  <2>2. k = t \o <<0>> \o i
    BY <1>5 DEF encode
  <2> QED BY <1>6, <2>1, <2>2
<1>8. Len(k) = a + 1 + Len(j) /\ \A n \in 1..Len(j) : k[a + 1 + n] = j[n]
  <2>1. /\ Len(t \o <<0>> \o j) = Len(t) + 1 + Len(j)
        /\ \A n \in 1..Len(j) : (t \o <<0>> \o j)[Len(t) + 1 + n] = j[n]
    BY <1>0, <1>3, <1>4, JoinFacts
  <2>2. k = t \o <<0>> \o j
    BY <1>5 DEF encode
  <2> QED BY <1>6, <2>1, <2>2
<1>9. Len(i) = Len(j) /\ \A n \in 1..Len(i) : i[n] = j[n]
  BY <1>3, <1>7, <1>8
<1> QED BY <1>1, <1>3, <1>9

LEMMA IdOfKey ==
  ASSUME NEW t \in TableName, NEW i \in RowId
  PROVE  IdOf(encode(t, i)) = i
<1>1. \A j \in RowId : (\E u \in TableName : encode(t, i) = encode(u, j)) => j = i
  BY KeysAreDistinct
<1> QED BY <1>1 DEF IdOf

\* The keys of a table.
KeysOf(t) == {encode(t, i) : i \in RowId}

\* A scan that starts with a table reaches all of its keys, and those of other tables
\* only after them.
LEMMA OwnKeysLead ==
  ASSUME NEW t \in TableName, NEW k \in KeysOf(t)
  PROVE  /\ ~Before(k, t \o <<0>>)
         /\ \A l \in Key \ KeysOf(t) : ~Before(l, t \o <<0>>) => Before(k, l)
<1>1. PICK i \in RowId : k = encode(t, i)
  BY DEF KeysOf
<1>2. PICK start : start = t \o <<0>>
  OBVIOUS
<1>3. PICK a \in Nat : a = Len(t)
  BY KeyBytes
<1>4. /\ k \in Bytes /\ start \in Bytes
      /\ \A n \in 1..a : ByteAt(k, n) = ByteAt(start, n)
      /\ ByteAt(k, a + 1) = ByteAt(start, a + 1)
      /\ \A n \in Nat : a + 1 < n => ByteAt(start, n) = -1
  BY <1>1, <1>2, <1>3, KeyBytes
<1>5. \A n \in 1..(a + 1) : ByteAt(k, n) = ByteAt(start, n)
  <2> SUFFICES ASSUME NEW n \in 1..(a + 1) PROVE ByteAt(k, n) = ByteAt(start, n)
    OBVIOUS
  <2>1. n \in 1..a \/ n = a + 1
    OBVIOUS
  <2> QED BY <1>4, <2>1
<1>6. ASSUME Before(k, start) PROVE FALSE
  <2>1. PICK n \in Nat \ {0} : ByteAt(k, n) < ByteAt(start, n)
    BY <1>4, <1>6, BeforeMeans
  <2>2. ByteAt(k, n) \in -1..255
    BY <1>4, ByteTypes
  <2>3. CASE n <= a + 1
    <3>1. n \in 1..(a + 1)
      BY <2>3
    <3>2. ByteAt(k, n) < ByteAt(k, n)
      BY <1>5, <2>1, <3>1
    <3>3. \A b : b \in -1..255 => ~(b < b)
      OBVIOUS
    <3> QED BY <2>2, <3>2, <3>3
  <2>4. CASE a + 1 < n
    <3>1. ByteAt(k, n) < -1
      BY <1>4, <2>1, <2>4
    <3>2. \A b : b \in -1..255 => ~(b < -1)
      OBVIOUS
    <3> QED BY <2>2, <3>1, <3>2
  <2> QED BY <2>3, <2>4
<1>7. ASSUME NEW l \in Key \ KeysOf(t), ~Before(l, start) PROVE Before(k, l)
  <2>1. PICK u \in TableName, j \in RowId : l = encode(u, j)
    BY ScanAssumption
  <2>2. u # t /\ l \in Bytes
    BY <1>7, <2>1, KeyBytes DEF KeysOf
  <2>3. PICK n \in 1..(a + 1) : ByteAt(k, n) # ByteAt(l, n)
    BY <1>1, <1>3, <2>1, <2>2, TablesDiffer
  <2>4. PICK p \in 1..n : SameBelow(k, l, p) /\ ByteAt(k, p) # ByteAt(l, p)
    <3>1. n \in Nat \ {0}
      OBVIOUS
    <3> QED BY <1>4, <2>2, <2>3, <3>1, FirstDifference
  <2>5. p \in Nat \ {0} /\ p \in 1..(a + 1)
    OBVIOUS
  <2>6. ASSUME ByteAt(l, p) < ByteAt(k, p) PROVE FALSE
    <3>1. ByteAt(l, p) < ByteAt(start, p)
      BY <1>5, <2>5, <2>6
    <3>2. SameBelow(l, start, p)
      <4>1. \A m \in 1..(p - 1) : m \in 1..(a + 1)
        BY <2>5
      <4> QED BY <1>5, <2>4, <4>1 DEF SameBelow
    <3> QED BY <1>4, <1>7, <2>2, <2>5, <3>1, <3>2, BeforeMeans
  <2>7. ByteAt(k, p) < ByteAt(l, p) \/ ByteAt(l, p) < ByteAt(k, p)
    <3>1. ByteAt(k, p) \in -1..255 /\ ByteAt(l, p) \in -1..255
      BY <1>4, <2>2, <2>5, ByteTypes
    <3>2. \A b, c : b \in -1..255 /\ c \in -1..255 => b = c \/ b < c \/ c < b
      OBVIOUS
    <3> QED BY <2>4, <3>1, <3>2
  <2> QED BY <1>4, <2>2, <2>4, <2>5, <2>6, <2>7, BeforeMeans
<1> QED BY <1>2, <1>6, <1>7

\* What a scan returns of the keys it goes through.
Returned(keys) == FoldLeft(Push, <<>>, keys)

PushesTo(f, s, n) ==
  f = [D \in SUBSET (1..n) |-> IF D = {} THEN <<>> ELSE Push(f[D \ {Max(D)}], s[Max(D)])]

LEMMA PushType ==
  ASSUME NEW rows \in Seq(Key), NEW k \in Key
  PROVE  Push(rows, k) \in Seq(Key)
BY DEF Push

LEMMA PushesExist ==
  ASSUME NEW s \in Seq(Key)
  PROVE  \E f : PushesTo(f, s, Len(s)) /\ Returned(s) = f[1..Len(s)]
<1>1. PICK n \in Nat : n = Len(s) /\ DOMAIN s = 1..n
  OBVIOUS
<1>2. \E f : PushesTo(f, s, n)
  <2> DEFINE G == [p \in Seq(Key) \X Key |-> Push(p[1], p[2])]
  <2>1. /\ G \in [Seq(Key) \X Key -> Seq(Key)]
        /\ \A rows \in Seq(Key), k \in Key : G[<<rows, k>>] = Push(rows, k)
    BY PushType
  <2>2. <<>> \in Seq(Key)
    OBVIOUS
  <2> HIDE DEF G
  <2>3. PICK f \in [SUBSET (1..n) -> Seq(Key)] : FoldsBy(f, G, <<>>, s, n)
    <3>1. \A m \in 0..Len(s) : \E f \in [SUBSET (1..m) -> Seq(Key)] : FoldsBy(f, G, <<>>, s, m)
      BY <2>1, <2>2, FoldExists
    <3>2. n \in 0..Len(s)
      BY <1>1
    <3> QED BY <3>1, <3>2
  <2>4. ASSUME NEW D \in SUBSET (1..n)
        PROVE  f[D] = IF D = {} THEN <<>> ELSE Push(f[D \ {Max(D)}], s[Max(D)])
    <3> SUFFICES ASSUME D # {} PROVE f[D] = Push(f[D \ {Max(D)}], s[Max(D)])
      BY <2>3 DEF FoldsBy
    <3>1. Max(D) \in 1..n
      BY MaxIsGreatest
    <3>2. s[Max(D)] \in Key
      BY <1>1, <3>1
    <3>3. f[D \ {Max(D)}] \in Seq(Key)
      BY <2>3
    <3> QED BY <2>1, <2>3, <3>2, <3>3 DEF FoldsBy
  <2>5. PushesTo(f, s, n)
    BY <2>3, <2>4 DEF PushesTo
  <2> QED BY <2>5
<1>3. Returned(s) = (CHOOSE f : PushesTo(f, s, n))[1..n]
  BY <1>1 DEF Returned, FoldLeft, MapThenFoldSet, PushesTo
<1> QED BY <1>1, <1>2, <1>3

LEMMA ReturnedOfEmpty == Returned(<<>>) = <<>>
<1>1. PICK s : s = <<>>
  OBVIOUS
<1>2. s \in Seq(Key) /\ Len(s) = 0 /\ 1..0 = {}
  BY <1>1
<1>3. PICK f : PushesTo(f, s, 0) /\ Returned(s) = f[1..0]
  BY <1>2, PushesExist
<1>4. f[{}] = <<>>
  BY <1>3 DEF PushesTo
<1> QED BY <1>1, <1>2, <1>3, <1>4

\* A scan takes one key after the other.
LEMMA ReturnedOfAppend ==
  ASSUME NEW s \in Seq(Key), NEW x \in Key
  PROVE  Returned(Append(s, x)) = Push(Returned(s), x)
<1>1. PICK r : r = Append(s, x)
  OBVIOUS
<1>2. PICK n \in Nat : n = Len(s)
  OBVIOUS
<1>3. r \in Seq(Key) /\ Len(r) = n + 1 /\ r[n + 1] = x /\ \A i \in 1..n : r[i] = s[i]
  BY <1>1, <1>2
<1>4. PICK f : PushesTo(f, s, n) /\ Returned(s) = f[1..n]
  BY <1>2, PushesExist
<1>5. PICK g : PushesTo(g, r, n + 1) /\ Returned(r) = g[1..(n + 1)]
  BY <1>3, PushesExist
<1>6. \A k \in 1..(n + 1) : g[1..k] = Push(g[1..(k - 1)], r[k])
  <2> SUFFICES ASSUME NEW k \in 1..(n + 1) PROVE g[1..k] = Push(g[1..(k - 1)], r[k])
    OBVIOUS
  <2>1. 1..k \in SUBSET (1..(n + 1)) /\ 1..k # {} /\ Max(1..k) = k /\ (1..k) \ {k} = 1..(k - 1)
    <3>1. PICK o \in Nat : o = n + 1
      OBVIOUS
    <3>2. k \in 1..o
      BY <3>1
    <3> QED BY <3>1, <3>2, FirstPlaces
  <2> QED BY <1>5, <2>1 DEF PushesTo
<1>7. \A k \in 1..n : f[1..k] = Push(f[1..(k - 1)], s[k])
  <2> SUFFICES ASSUME NEW k \in 1..n PROVE f[1..k] = Push(f[1..(k - 1)], s[k])
    OBVIOUS
  <2>1. 1..k \in SUBSET (1..n) /\ 1..k # {} /\ Max(1..k) = k /\ (1..k) \ {k} = 1..(k - 1)
    BY FirstPlaces
  <2> QED BY <1>4, <2>1 DEF PushesTo
<1>8. g[1..0] = f[1..0]
  <2>1. 1..0 = {}
    OBVIOUS
  <2> QED BY <1>4, <1>5, <2>1 DEF PushesTo
<1>9. \A k \in 1..n : g[1..(k - 1)] = f[1..(k - 1)] => g[1..k] = f[1..k]
  <2>1. \A k \in 1..n : k \in 1..(n + 1) /\ r[k] = s[k]
    BY <1>3
  <2> QED BY <1>6, <1>7, <2>1
<1>10. g[1..n] = f[1..n]
  BY <1>8, <1>9, FoldsAgree
<1>11. n + 1 \in 1..(n + 1) /\ (n + 1) - 1 = n
  OBVIOUS
<1>12. g[1..(n + 1)] = Push(g[1..n], x)
  BY <1>3, <1>6, <1>11
<1> QED BY <1>1, <1>4, <1>5, <1>10, <1>12

\* The keys of a scan: each once, and those of the table before the others.
Fits(s, t) ==
  /\ \A i, j \in 1..Len(s) : s[i] = s[j] => i = j
  /\ \A i, j \in 1..Len(s) : i < j /\ s[j] \in KeysOf(t) => s[i] \in KeysOf(t)

LiveAmong(s, t) == {k \in ToSet(s) : k \in KeysOf(t) /\ data[k] # Tombstone}

\* What a scan has returned after the keys of s: the n live rows of its table first, then
\* rows of others.
OwnFirst(rows, n, s, t) ==
  /\ rows \in Seq(Key) /\ ToSet(rows) \subseteq ToSet(s)
  /\ \A i \in 1..Len(rows) : data[rows[i]] # Tombstone
  /\ \A i, j \in 1..Len(rows) : IdOf(rows[i]) = IdOf(rows[j]) => i = j
  /\ IsFiniteSet(LiveAmong(s, t)) /\ n <= Len(rows)
  /\ {rows[i] : i \in 1..n} = LiveAmong(s, t)
  /\ ToSet(s) \subseteq KeysOf(t) => Len(rows) = n

ReturnsOwnFirst(s, t) == OwnFirst(Returned(s), Cardinality(LiveAmong(s, t)), s, t)

LEMMA NothingReturned == ASSUME NEW t PROVE ReturnsOwnFirst(<<>>, t)
<1>1. PICK s : s = <<>>
  OBVIOUS
<1>2. s \in Seq(Key) /\ Len(s) = 0 /\ ToSet(s) = {}
  BY <1>1 DEF ToSet
<1>3. LiveAmong(s, t) = {} /\ IsFiniteSet({}) /\ Cardinality({}) = 0
  BY <1>2, FS_EmptySet DEF LiveAmong
<1>4. Returned(s) = s
  BY <1>1, ReturnedOfEmpty
<1>5. OwnFirst(s, 0, s, t)
  <2>1. {s[i] : i \in 1..0} = {} /\ 1..0 = {}
    OBVIOUS
  <2> QED BY <1>2, <1>3, <2>1 DEF OwnFirst
<1> QED BY <1>1, <1>3, <1>4, <1>5 DEF ReturnsOwnFirst

LEMMA OneMoreKey ==
  ASSUME NEW t \in TableName, NEW r \in Seq(Key), NEW x \in Key, Fits(Append(r, x), t),
         ReturnsOwnFirst(r, t)
  PROVE  ReturnsOwnFirst(Append(r, x), t)
<1>1. PICK q : q = Append(r, x)
  OBVIOUS
<1>2. PICK f : f = Returned(r)
  OBVIOUS
<1>3. PICK l \in Nat : l = Len(r)
  OBVIOUS
<1>4. q \in Seq(Key) /\ Len(q) = l + 1 /\ q[l + 1] = x /\ \A i \in 1..l : q[i] = r[i]
  BY <1>1, <1>3
<1>5. ToSet(q) = ToSet(r) \cup {x}
  BY <1>1, ToSetOfAppend
<1>6. x \notin ToSet(r)
  <2> SUFFICES ASSUME NEW i \in 1..l, r[i] = x PROVE FALSE
    BY <1>3 DEF ToSet
  <2>1. i \in 1..Len(q) /\ l + 1 \in 1..Len(q) /\ q[i] = q[l + 1] /\ i # l + 1
    BY <1>4
  <2> QED BY <1>1, <2>1 DEF Fits
<1>7. x \in KeysOf(t) => ToSet(r) \subseteq KeysOf(t)
  <2> SUFFICES ASSUME x \in KeysOf(t), NEW i \in 1..l PROVE r[i] \in KeysOf(t)
    BY <1>3 DEF ToSet
  <2>1. i \in 1..Len(q) /\ l + 1 \in 1..Len(q) /\ i < l + 1 /\ q[l + 1] \in KeysOf(t)
    BY <1>4
  <2> QED BY <1>1, <1>4, <2>1 DEF Fits
<1>8. PICK n \in Nat : n = Cardinality(LiveAmong(r, t))
  BY FS_CardinalityType DEF ReturnsOwnFirst, OwnFirst
<1>9. /\ f \in Seq(Key) /\ ToSet(f) \subseteq ToSet(r)
      /\ \A i \in 1..Len(f) : data[f[i]] # Tombstone
      /\ \A i, j \in 1..Len(f) : IdOf(f[i]) = IdOf(f[j]) => i = j
      /\ IsFiniteSet(LiveAmong(r, t)) /\ n <= Len(f)
      /\ {f[i] : i \in 1..n} = LiveAmong(r, t)
      /\ ToSet(r) \subseteq KeysOf(t) => Len(f) = n
  BY <1>2, <1>8 DEF ReturnsOwnFirst, OwnFirst
<1>10. Returned(q) = Push(f, x)
  BY <1>1, <1>2, ReturnedOfAppend
<1>11. ASSUME LiveAmong(q, t) = LiveAmong(r, t), Returned(q) = f,
              x \in KeysOf(t) => data[x] = Tombstone
       PROVE  ReturnsOwnFirst(q, t)
  <2>1. OwnFirst(f, n, q, t)
    BY <1>5, <1>9, <1>11 DEF OwnFirst
  <2> QED BY <1>8, <1>11, <2>1 DEF ReturnsOwnFirst
<1>12. CASE data[x] = Tombstone
  <2>1. LiveAmong(q, t) = LiveAmong(r, t)
    BY <1>5, <1>12 DEF LiveAmong
  <2>2. Returned(q) = f
    BY <1>10, <1>12 DEF Push
  <2> QED BY <1>1, <1>11, <1>12, <2>1, <2>2
<1>13. CASE data[x] # Tombstone /\ IdOf(x) \in Seen(f)
  <2>1. x \notin KeysOf(t)
    <3> SUFFICES ASSUME x \in KeysOf(t) PROVE FALSE
      OBVIOUS
    <3>1. PICK y \in ToSet(f) : IdOf(y) = IdOf(x)
      BY <1>13 DEF Seen
    <3>2. y \in KeysOf(t) /\ y \in ToSet(r)
      BY <1>7, <1>9, <3>1
    <3>3. PICK i \in RowId : x = encode(t, i)
      BY DEF KeysOf
    <3>4. PICK j \in RowId : y = encode(t, j)
      BY <3>2 DEF KeysOf
    <3>5. i = j
      BY <3>1, <3>3, <3>4, IdOfKey
    <3> QED BY <1>6, <3>2, <3>3, <3>4, <3>5
  <2>2. LiveAmong(q, t) = LiveAmong(r, t)
    BY <1>5, <2>1 DEF LiveAmong
  <2>3. Returned(q) = f
    BY <1>10, <1>13 DEF Push
  <2> QED BY <1>1, <1>11, <2>1, <2>2, <2>3
<1>14. CASE data[x] # Tombstone /\ IdOf(x) \notin Seen(f)
  <2>1. PICK m \in Nat : m = Len(f)
    BY <1>9
  <2>2. PICK g : g = Append(f, x)
    OBVIOUS
  <2>3. /\ Returned(q) = g /\ g \in Seq(Key) /\ Len(g) = m + 1 /\ g[m + 1] = x
        /\ \A i \in 1..m : g[i] = f[i]
    BY <1>9, <1>10, <1>14, <2>1, <2>2 DEF Push
  <2>4. ToSet(g) = ToSet(f) \cup {x}
    BY <1>9, <2>2, ToSetOfAppend
  <2>5. ToSet(g) \subseteq ToSet(q)
    BY <1>5, <1>9, <2>4
  <2>6. \A i \in 1..Len(g) : data[g[i]] # Tombstone
    <3> SUFFICES ASSUME NEW i \in 1..(m + 1) PROVE data[g[i]] # Tombstone
      BY <2>3
    <3>1. i \in 1..m \/ i = m + 1
      OBVIOUS
    <3> QED BY <1>9, <1>14, <2>1, <2>3, <3>1
  <2>7. \A i, j \in 1..Len(g) : IdOf(g[i]) = IdOf(g[j]) => i = j
    <3>1. \A i \in 1..m : IdOf(g[i]) \in Seen(f) /\ IdOf(g[i]) = IdOf(f[i])
      <4>1. \A i \in 1..m : f[i] \in ToSet(f)
        BY <1>9, <2>1 DEF ToSet
      <4> QED BY <2>3, <4>1 DEF Seen
    <3> SUFFICES ASSUME NEW i \in 1..(m + 1), NEW j \in 1..(m + 1), IdOf(g[i]) = IdOf(g[j])
                 PROVE  i = j
      BY <2>3
    <3>2. CASE i \in 1..m /\ j \in 1..m
      BY <1>9, <2>1, <3>1, <3>2
    <3>3. CASE i = m + 1 /\ j \in 1..m
      BY <1>14, <2>3, <3>1, <3>3
    <3>4. CASE i \in 1..m /\ j = m + 1
      BY <1>14, <2>3, <3>1, <3>4
    <3>5. CASE i = m + 1 /\ j = m + 1
      BY <3>5
    <3> QED BY <3>2, <3>3, <3>4, <3>5
  <2>8. CASE x \notin KeysOf(t)
    <3>1. LiveAmong(q, t) = LiveAmong(r, t) /\ ~(ToSet(q) \subseteq KeysOf(t))
      BY <1>5, <2>8 DEF LiveAmong
    <3>2. {g[i] : i \in 1..n} = {f[i] : i \in 1..n} /\ n <= m + 1
      <4>1. n <= m
        BY <1>9, <2>1
      <4>2. \A i \in 1..n : i \in 1..m
        BY <4>1
      <4> QED BY <2>3, <4>1, <4>2
    <3>3. OwnFirst(g, n, q, t)
      BY <1>9, <2>3, <2>5, <2>6, <2>7, <3>1, <3>2 DEF OwnFirst
    <3> QED BY <1>1, <1>8, <2>3, <3>1, <3>3 DEF ReturnsOwnFirst
  <2>9. CASE x \in KeysOf(t)
    <3>1. m = n
      BY <1>7, <1>9, <2>1, <2>9
    <3>2. LiveAmong(q, t) = LiveAmong(r, t) \cup {x} /\ x \notin LiveAmong(r, t)
      BY <1>5, <1>6, <1>14, <2>9 DEF LiveAmong
    <3>3. IsFiniteSet(LiveAmong(q, t)) /\ Cardinality(LiveAmong(q, t)) = n + 1
      BY <1>8, <1>9, <3>2, FS_AddElement
    <3>4. {g[i] : i \in 1..(n + 1)} = {f[i] : i \in 1..n} \cup {x}
      <4>1. \A i \in 1..(n + 1) : i \in 1..n \/ i = n + 1
        OBVIOUS
      <4>2. n + 1 \in 1..(n + 1) /\ \A i \in 1..n : i \in 1..(n + 1)
        OBVIOUS
      <4>3. g[n + 1] = x /\ \A i \in 1..n : g[i] = f[i]
        BY <2>3, <3>1
      <4> QED BY <4>1, <4>2, <4>3
    <3>5. n + 1 <= Len(g) /\ Len(g) = n + 1
      BY <2>3, <3>1
    <3>6. OwnFirst(g, n + 1, q, t)
      BY <1>9, <2>3, <2>5, <2>6, <2>7, <3>2, <3>3, <3>4, <3>5 DEF OwnFirst
    <3> QED BY <1>1, <2>3, <3>3, <3>6 DEF ReturnsOwnFirst
  <2> QED BY <2>8, <2>9
<1> QED BY <1>12, <1>13, <1>14

LEMMA ReturnedFacts ==
  ASSUME NEW t \in TableName, NEW s \in Seq(Key), Fits(s, t)
  PROVE  ReturnsOwnFirst(s, t)
<1> DEFINE Those == {q \in Seq(Key) : Fits(q, t) => ReturnsOwnFirst(q, t)}
<1>1. <<>> \in Those
  BY NothingReturned
<1>2. ASSUME NEW r \in Seq(Key), NEW x \in Key, r \in Those PROVE Append(r, x) \in Those
  <2> SUFFICES ASSUME Fits(Append(r, x), t) PROVE ReturnsOwnFirst(Append(r, x), t)
    OBVIOUS
  <2>1. PICK q : q = Append(r, x)
    OBVIOUS
  <2>2. PICK l \in Nat : l = Len(r)
    OBVIOUS
  <2>3. Len(q) = l + 1 /\ \A i \in 1..l : q[i] = r[i]
    BY <2>1, <2>2
  <2>4. \A i \in 1..l : i \in 1..(l + 1)
    OBVIOUS
  <2>5. Fits(r, t)
    BY <2>1, <2>2, <2>3, <2>4 DEF Fits
  <2> QED BY <1>2, <2>5, OneMoreKey
<1> HIDE DEF Those
<1>3. Seq(Key) \subseteq Those
  BY <1>1, <1>2, SequenceInduction
<1> QED BY <1>3 DEF Those

\* A scan goes through the rows from its start on, in the order of their keys.
LEMMA ScanFacts ==
  ASSUME NEW t \in TableName, IsFiniteSet(Rows)
  PROVE  /\ scan(t \o <<0>>) \in Seq(Key)
         /\ ToSet(scan(t \o <<0>>)) = {k \in Rows : ~Before(k, t \o <<0>>)}
         /\ Fits(scan(t \o <<0>>), t)
<1> DEFINE start == t \o <<0>>
           keys == {k \in Rows : ~Before(k, start)}
<1>1. Key \subseteq Bytes
  BY KeyBytes, ScanAssumption
<1>2. IsFiniteSet(keys) /\ keys \in SUBSET Bytes /\ keys \subseteq Key
  <2>1. keys \in SUBSET Rows /\ Rows \subseteq Key
    BY DEF Rows
  <2> QED BY <1>1, <2>1, FS_Subset
<1>3. \A k \in keys : k \in Rows /\ ~Before(k, start)
  OBVIOUS
<1> HIDE DEF keys
<1>4. \A k, l \in keys : <<k, l>> \in KeyOrder <=> Before(k, l)
  BY <1>2 DEF KeyOrder
<1> DEFINE Ordered(s) == /\ s \in [1..Cardinality(keys) -> keys]
                         /\ \A i, j \in 1..Cardinality(keys) : i < j => Before(s[i], s[j])
<1>5. \A s : Ordered(s) <=> Ascends(s, keys, KeyOrder)
  BY <1>4 DEF Ascends
<1>6. \E s : Ordered(s)
  BY <1>2, <1>5, KeysAreOrdered, SortedExists
<1>7. PICK s : s = scan(start) /\ Ordered(s)
  <2>1. InOrder(keys) = CHOOSE s : Ordered(s)
    BY DEF InOrder
  <2>2. scan(start) = InOrder(keys)
    BY DEF scan, keys
  <2> QED BY <1>6, <2>1, <2>2
<1> HIDE DEF Ordered
<1>8. /\ s \in Seq(keys) /\ ToSet(s) = keys
      /\ \A i, j \in 1..Len(s) : i < j => <<s[i], s[j]>> \in KeyOrder
      /\ \A i, j \in 1..Len(s) : s[i] = s[j] => i = j
  BY <1>2, <1>5, <1>7, KeysAreOrdered, SortedIsOnto
<1>9. ASSUME NEW i \in 1..Len(s), NEW j \in 1..Len(s), i < j, s[j] \in KeysOf(t)
      PROVE  s[i] \in KeysOf(t)
  <2> SUFFICES ASSUME s[i] \notin KeysOf(t) PROVE FALSE
    OBVIOUS
  <2>1. s[i] \in keys /\ s[j] \in keys
    BY <1>8
  <2>2. Before(s[j], s[i])
    BY <1>2, <1>3, <1>9, <2>1, OwnKeysLead
  <2>3. <<s[j], s[i]>> \in KeyOrder /\ <<s[i], s[j]>> \in KeyOrder
    BY <1>4, <1>8, <1>9, <2>1, <2>2
  <2> QED BY <1>2, <2>1, <2>3, KeysAreOrdered DEF Orders
<1>10. s \in Seq(Key)
  BY <1>2, <1>8, SeqMonotone
<1> QED BY <1>7, <1>8, <1>9, <1>10 DEF Fits, keys

\* Whatever the writers and the drains have left in the map, a scan of a table returns
\* its live rows, each once, before any other row, and nothing deleted: the zero after
\* the name keeps tables apart, whatever their names and ids are.
LEMMA ScansAreRight == TableTypeOK /\ IsFiniteSet(Rows) => OwnRowsComeFirst
<1> SUFFICES ASSUME IsFiniteSet(Rows), NEW t \in TableName
             PROVE  LET found == scan_table(t)
                        n == Cardinality(Live(t))
                    IN  /\ Len(found) >= n
                        /\ {found[i] : i \in 1..n} = Live(t)
                        /\ \A i, j \in 1..Len(found) : IdOf(found[i]) = IdOf(found[j]) => i = j
                        /\ \A i \in 1..Len(found) : data[found[i]] \notin {Tombstone, Absent}
  BY DEF OwnRowsComeFirst
<1>1. PICK start : start = t \o <<0>>
  OBVIOUS
<1>2. PICK s : s = scan(start)
  OBVIOUS
<1>3. s \in Seq(Key) /\ ToSet(s) = {k \in Rows : ~Before(k, start)} /\ Fits(s, t)
  BY <1>1, <1>2, ScanFacts
<1>4. PICK found : found = scan_table(t)
  OBVIOUS
<1>5. found = Returned(s)
  BY <1>1, <1>2, <1>4 DEF scan_table, Returned
<1>6. ReturnsOwnFirst(s, t)
  BY <1>3, ReturnedFacts
<1>7. LiveAmong(s, t) = Live(t)
  <2>1. \A k \in KeysOf(t) : ~Before(k, start)
    BY <1>1, OwnKeysLead
  <2> QED BY <1>3, <2>1 DEF LiveAmong, Live, KeysOf
<1>8. PICK n \in Nat : n = Cardinality(Live(t))
  BY <1>6, <1>7, FS_CardinalityType DEF ReturnsOwnFirst, OwnFirst
<1>9. /\ found \in Seq(Key) /\ ToSet(found) \subseteq ToSet(s)
      /\ \A i \in 1..Len(found) : data[found[i]] # Tombstone
      /\ \A i, j \in 1..Len(found) : IdOf(found[i]) = IdOf(found[j]) => i = j
      /\ n <= Len(found) /\ {found[i] : i \in 1..n} = Live(t)
  BY <1>5, <1>6, <1>7, <1>8 DEF ReturnsOwnFirst, OwnFirst
<1>10. \A i \in 1..Len(found) : data[found[i]] # Absent
  <2>1. \A i \in 1..Len(found) : found[i] \in ToSet(found)
    BY <1>9 DEF ToSet
  <2> QED BY <1>3, <1>9, <2>1 DEF Rows
<1>11. Len(found) >= n
  BY <1>9
<1> QED BY <1>4, <1>8, <1>9, <1>10, <1>11

\* Scans of any table, at any moment of any interleaving of writers and drains, where
\* no table has a name with a zero byte in it (ScanAssumption).
THEOREM OwnRowsFirst == Spec => []OwnRowsComeFirst
<1>1. TableInv => OwnRowsComeFirst
  BY ScansAreRight DEF TableInv, TypeOK
<1> QED BY <1>1, TableInvariant, PTL
-----------------------------------------------------------------------------
(* The temporal index: what its queries find, and that its past is final *)

SeqNo == 1..MaxVersions

\* Every version there is.
Given == prepared \cup ToSet(versions)

\* A number is given once, and a version is either waiting or inserted.
GivenOnce ==
  /\ IsFiniteSet(prepared)
  /\ \A v, w \in Given : v.seq = w.seq => v = w
  /\ \A v \in prepared : v \notin ToSet(versions)
  /\ \A v \in Given : v.seq <= Taken

\* Under each time a map lists the numbers of the versions inserted with it, each once.
Lists(index, TimeOf(_)) ==
  \A t \in Instant :
    /\ ToSet(index[t]) = {v.seq : v \in {w \in ToSet(versions) : TimeOf(w.bounds) = t}}
    /\ IsInjective(index[t])

StartOf(b) == b.valid_time_start

RecordOf(b) == b.transaction_time

TemporalInv ==
  /\ TemporalTypeOK /\ GivenOnce
  /\ Lists(valid_time_index, StartOf) /\ Lists(transaction_index, RecordOf)

\* A list of numbers, each once, in the order of At.
Listing(u, At) ==
  /\ u \in Seq(SeqNo)
  /\ IsInjective(u)
  /\ \A i, j \in DOMAIN u : i < j => At[u[i]] <= At[u[j]]

\* The numbers that a map has under the times up to t.
Under(index, t) == UNION {ToSet(index[i]) : i \in 0..t}

\* Listing what comes later, after what came before.
LEMMA ListMore ==
  ASSUME NEW At \in [SeqNo -> Int], NEW u, Listing(u, At), NEW w \in Seq(SeqNo),
         IsInjective(w), NEW t \in Int,
         \A x \in ToSet(u) : At[x] < t, \A x \in ToSet(w) : At[x] = t
  PROVE  Listing(u \o w, At) /\ ToSet(u \o w) = ToSet(u) \cup ToSet(w)
<1>1. /\ u \in Seq(SeqNo) /\ u \o w \in Seq(SeqNo)
      /\ Len(u) \in Nat /\ Len(w) \in Nat /\ Len(u \o w) = Len(u) + Len(w)
      /\ DOMAIN u = 1..Len(u) /\ DOMAIN w = 1..Len(w) /\ DOMAIN (u \o w) = 1..(Len(u) + Len(w))
      /\ \A i \in 1..Len(u) : (u \o w)[i] = u[i]
      /\ \A i \in 1..Len(w) : (u \o w)[Len(u) + i] = w[i]
  BY DEF Listing
<1>2. \A i \in 1..(Len(u) + Len(w)) :
        i \in 1..Len(u) \/ (i - Len(u) \in 1..Len(w) /\ (u \o w)[i] = w[i - Len(u)])
  BY <1>1
<1>3. ToSet(u \o w) = ToSet(u) \cup ToSet(w)
  <2>1. ASSUME NEW x \in ToSet(u \o w) PROVE x \in ToSet(u) \cup ToSet(w)
    BY <1>1, <1>2 DEF ToSet
  <2>2. ASSUME NEW x \in ToSet(u) PROVE x \in ToSet(u \o w)
    <3>1. PICK i \in 1..Len(u) : x = u[i]
      BY <1>1 DEF ToSet
    <3> QED BY <1>1, <3>1 DEF ToSet
  <2>3. ASSUME NEW x \in ToSet(w) PROVE x \in ToSet(u \o w)
    <3>1. PICK i \in 1..Len(w) : x = w[i]
      BY <1>1 DEF ToSet
    <3>2. Len(u) + i \in 1..(Len(u) + Len(w)) /\ (u \o w)[Len(u) + i] = x
      BY <1>1, <3>1
    <3> QED BY <1>1, <3>2 DEF ToSet
  <2> QED BY <2>1, <2>2, <2>3
<1>4. /\ \A i \in 1..Len(u) : u[i] \in ToSet(u) /\ At[u[i]] < t /\ At[u[i]] \in Int
      /\ \A i \in 1..Len(w) : w[i] \in ToSet(w) /\ At[w[i]] = t
  <2>1. /\ \A i \in 1..Len(u) : u[i] \in ToSet(u)
        /\ \A i \in 1..Len(u) : u[i] \in SeqNo
    <3>1. \A i \in 1..Len(u) : u[i] \in SeqNo
      BY <1>1
    <3> QED BY <1>1, <3>1 DEF ToSet
  <2>2. \A i \in 1..Len(w) : w[i] \in ToSet(w)
    BY <1>1 DEF ToSet
  <2> QED BY <2>1, <2>2
<1>5. IsInjective(u \o w)
  <2> SUFFICES ASSUME NEW i \in 1..(Len(u) + Len(w)), NEW j \in 1..(Len(u) + Len(w)),
                      (u \o w)[i] = (u \o w)[j]
               PROVE  i = j
    BY <1>1 DEF IsInjective
  <2>1. CASE i \in 1..Len(u) /\ j \in 1..Len(u)
    BY <1>1, <2>1 DEF Listing, IsInjective
  <2>2. CASE i \notin 1..Len(u) /\ j \notin 1..Len(u)
    <3>1. w[i - Len(u)] = w[j - Len(u)] /\ i - Len(u) \in 1..Len(w) /\ j - Len(u) \in 1..Len(w)
      BY <1>2, <2>2
    <3>2. i - Len(u) = j - Len(u)
      BY <1>1, <3>1 DEF IsInjective
    <3> QED BY <1>1, <3>2
  <2>3. CASE i \in 1..Len(u) /\ j \notin 1..Len(u)
    <3>1. At[(u \o w)[i]] < t /\ At[(u \o w)[j]] = t
      BY <1>1, <1>2, <1>4, <2>3
    <3> QED BY <3>1
  <2>4. CASE i \notin 1..Len(u) /\ j \in 1..Len(u)
    <3>1. At[(u \o w)[j]] < t /\ At[(u \o w)[i]] = t
      BY <1>1, <1>2, <1>4, <2>4
    <3> QED BY <3>1
  <2> QED BY <2>1, <2>2, <2>3, <2>4
<1>6. ASSUME NEW i \in 1..(Len(u) + Len(w)), NEW j \in 1..(Len(u) + Len(w)), i < j
      PROVE  At[(u \o w)[i]] <= At[(u \o w)[j]]
  <2>1. CASE j \in 1..Len(u)
    <3>1. i \in 1..Len(u)
      BY <1>1, <1>6, <2>1
    <3>2. At[u[i]] <= At[u[j]]
      BY <1>1, <1>6, <2>1, <3>1 DEF Listing
    <3> QED BY <1>1, <2>1, <3>1, <3>2
  <2>2. CASE j \notin 1..Len(u)
    <3>1. At[(u \o w)[j]] = t
      BY <1>1, <1>2, <1>4, <2>2
    <3>2. CASE i \in 1..Len(u)
      <4>1. (u \o w)[i] = u[i] /\ At[u[i]] < t
        BY <1>1, <1>2, <1>4, <3>2
      <4> QED BY <1>4, <3>1, <3>2, <4>1
    <3>3. CASE i \notin 1..Len(u)
      <4>1. At[(u \o w)[i]] = t
        BY <1>1, <1>2, <1>4, <3>3
      <4> QED BY <3>1, <4>1
    <3> QED BY <3>2, <3>3
  <2> QED BY <2>1, <2>2
<1> QED BY <1>1, <1>3, <1>5, <1>6 DEF Listing

\* Up to a time a map gives what it has under each time in turn.
LEMMA UpToSteps ==
  ASSUME NEW index \in [Instant -> Seq(SeqNo)], NEW t \in Instant
  PROVE  \E g : /\ g[0] = index[0] /\ g[t] = UpTo(index, t)
                /\ \A k \in 1..t : g[k] = g[k - 1] \o index[k]
<1>1. LastInstant \in Nat /\ t \in Nat /\ t <= LastInstant
  BY TemporalAssumption DEF TemporalAssumption, Instant
<1>2. PICK n \in Nat : n = t
  BY <1>1
<1>3. PICK s : s = [k \in 0..n |-> index[k]]
  OBVIOUS
<1>4. s \in [0..n -> Seq(SeqNo)] /\ \A k \in 0..n : s[k] = index[k]
  BY <1>1, <1>2, <1>3 DEF Instant
<1>5. [i \in 1..(n + 1) |-> s[i - 1]] = [i \in 1..(n + 1) |-> index[i - 1]]
  BY <1>4
<1>6. PICK g : /\ g[0] = s[0] /\ g[n] = FlattenSeq([i \in 1..(n + 1) |-> s[i - 1]])
               /\ \A k \in 1..n : g[k] = g[k - 1] \o s[k]
  <2>1. \A p \in Nat : \A q \in [0..p -> Seq(SeqNo)] :
          \E g : /\ g[0] = q[0] /\ g[p] = FlattenSeq([i \in 1..(p + 1) |-> q[i - 1]])
                 /\ \A k \in 1..p : g[k] = g[k - 1] \o q[k]
    BY FlattenSteps
  <2> QED BY <1>4, <2>1, Zenon
<1>7. /\ g[0] = index[0] /\ g[n] = UpTo(index, n)
      /\ \A k \in 1..n : g[k] = g[k - 1] \o index[k]
  <2>1. g[n] = UpTo(index, n)
    BY <1>5, <1>6 DEF UpTo
  <2>2. 0 \in 0..n /\ \A k \in 1..n : k \in 0..n
    OBVIOUS
  <2> QED BY <1>4, <1>6, <2>1, <2>2
<1> QED BY <1>2, <1>7

\* That is all that it lists, each number once, in the order of time.
LEMMA UpToLists ==
  ASSUME NEW index \in [Instant -> Seq(SeqNo)], NEW At \in [SeqNo -> Int],
         \A i \in Instant : IsInjective(index[i]) /\ \A x \in ToSet(index[i]) : At[x] = i,
         NEW t \in Instant
  PROVE  Listing(UpTo(index, t), At) /\ ToSet(UpTo(index, t)) = Under(index, t)
<1>1. LastInstant \in Nat /\ t \in Nat /\ t <= LastInstant
  BY TemporalAssumption DEF TemporalAssumption, Instant
<1>2. PICK g : /\ g[0] = index[0] /\ g[t] = UpTo(index, t)
               /\ \A k \in 1..t : g[k] = g[k - 1] \o index[k]
  BY UpToSteps
<1> DEFINE P(k) == Listing(g[k], At) /\ ToSet(g[k]) = Under(index, k)
           T == {k \in 0..t : ~P(k)}
<1>3. P(0)
  <2>1. /\ index[0] \in Seq(SeqNo) /\ IsInjective(index[0])
        /\ \A x \in ToSet(index[0]) : At[x] = 0
    BY <1>1 DEF Instant
  <2>2. DOMAIN index[0] = 1..Len(index[0]) /\ \A i \in DOMAIN index[0] : At[index[0][i]] = 0
    BY <2>1 DEF ToSet
  <2>3. Under(index, 0) = ToSet(index[0])
    BY DEF Under
  <2> QED BY <1>2, <2>1, <2>2, <2>3 DEF Listing
<1>4. ASSUME NEW k \in 1..t, P(k - 1) PROVE P(k)
  <2>1. /\ k \in Instant /\ k \in Int /\ k - 1 \in Nat
        /\ index[k] \in Seq(SeqNo) /\ IsInjective(index[k])
        /\ \A x \in ToSet(index[k]) : At[x] = k
    BY <1>1 DEF Instant
  <2>2. PICK u : u = g[k - 1]
    OBVIOUS
  <2>3. Listing(u, At) /\ ToSet(u) = Under(index, k - 1)
    BY <1>4, <2>2
  <2>4. \A x \in ToSet(u) : At[x] < k
    <3> SUFFICES ASSUME NEW x \in Under(index, k - 1) PROVE At[x] < k
      BY <2>3
    <3>1. PICK j \in 0..(k - 1) : x \in ToSet(index[j])
      BY DEF Under
    <3>2. j \in Instant /\ At[x] = j
      BY <1>1, <2>1, <3>1 DEF Instant
    <3> QED BY <2>1, <3>1, <3>2
  <2>5. Listing(u \o index[k], At) /\ ToSet(u \o index[k]) = ToSet(u) \cup ToSet(index[k])
    <3> HIDE DEF P, T
    <3>1. PICK w : w = index[k]
      OBVIOUS
    <3>2. /\ w \in Seq(SeqNo) /\ IsInjective(w) /\ k \in Int
          /\ \A x \in ToSet(w) : At[x] = k
      BY <2>1, <3>1
    <3>3. Listing(u, At) /\ u \in Seq(SeqNo)
      BY <2>3 DEF Listing
    <3>4. \A A \in [SeqNo -> Int] : \A x : Listing(x, A) =>
            \A y \in Seq(SeqNo) : IsInjective(y) => \A n \in Int :
              (\A z \in ToSet(x) : A[z] < n) => ((\A z \in ToSet(y) : A[z] = n) =>
                Listing(x \o y, A) /\ ToSet(x \o y) = ToSet(x) \cup ToSet(y))
      BY ListMore
    <3>5. \A y \in Seq(SeqNo) : IsInjective(y) => \A n \in Int :
            (\A z \in ToSet(u) : At[z] < n) => ((\A z \in ToSet(y) : At[z] = n) =>
              Listing(u \o y, At) /\ ToSet(u \o y) = ToSet(u) \cup ToSet(y))
      BY <3>3, <3>4
    <3>6. Listing(u \o w, At) /\ ToSet(u \o w) = ToSet(u) \cup ToSet(w)
      BY <2>4, <3>2, <3>5
    <3> QED BY <3>1, <3>6
  <2>6. Under(index, k) = Under(index, k - 1) \cup ToSet(index[k])
    <3>1. 0..k = (0..(k - 1)) \cup {k}
      BY <2>1
    <3>2. \A x : x \in Under(index, k) <=> \E j \in 0..k : x \in ToSet(index[j])
      BY DEF Under
    <3>3. \A x : x \in Under(index, k - 1) <=> \E j \in 0..(k - 1) : x \in ToSet(index[j])
      BY DEF Under
    <3> QED BY <3>1, <3>2, <3>3
  <2> QED BY <1>2, <2>2, <2>3, <2>5, <2>6
<1> HIDE DEF P
<1>5. \A k \in 0..t : P(k)
  <2> SUFFICES ASSUME T # {} PROVE FALSE
    OBVIOUS
  <2>1. PICK m \in T : \A k \in T : m <= k
    <3>1. T \subseteq Nat
      BY <1>1
    <3> QED BY <3>1, LeastNatural
  <2>2. m \in 1..t /\ m - 1 \in 0..t /\ m - 1 \notin T
    BY <1>1, <1>3, <2>1
  <2> QED BY <1>4, <2>1, <2>2
<1>6. P(t)
  BY <1>1, <1>5
<1> QED BY <1>2, <1>6 DEF P

\* A number more, after all others.
LEMMA ListOneMore ==
  ASSUME NEW At \in [SeqNo -> Int], NEW u, Listing(u, At), NEW x \in SeqNo,
         x \notin ToSet(u), \A y \in ToSet(u) : At[y] <= At[x]
  PROVE  Listing(Append(u, x), At) /\ ToSet(Append(u, x)) = ToSet(u) \cup {x}
<1>1. /\ u \in Seq(SeqNo) /\ Append(u, x) \in Seq(SeqNo)
      /\ Len(u) \in Nat /\ Len(Append(u, x)) = Len(u) + 1
      /\ DOMAIN u = 1..Len(u) /\ DOMAIN Append(u, x) = 1..(Len(u) + 1)
      /\ \A i \in 1..Len(u) : Append(u, x)[i] = u[i]
      /\ Append(u, x)[Len(u) + 1] = x
  BY DEF Listing
<1>2. \A i \in 1..(Len(u) + 1) : i \in 1..Len(u) \/ i = Len(u) + 1
  BY <1>1
<1>3. \A i \in 1..Len(u) : u[i] \in ToSet(u)
  BY <1>1 DEF ToSet
<1>4. ToSet(Append(u, x)) = ToSet(u) \cup {x}
  <2>1. Len(u) + 1 \in 1..(Len(u) + 1) /\ \A i \in 1..Len(u) : i \in 1..(Len(u) + 1)
    BY <1>1
  <2> QED BY <1>1, <1>2, <2>1 DEF ToSet
<1>5. IsInjective(Append(u, x))
  <2> SUFFICES ASSUME NEW i \in 1..(Len(u) + 1), NEW j \in 1..(Len(u) + 1),
                      Append(u, x)[i] = Append(u, x)[j]
               PROVE  i = j
    BY <1>1 DEF IsInjective
  <2>1. \A k, l \in 1..Len(u) : u[k] = u[l] => k = l
    BY <1>1 DEF Listing, IsInjective
  <2> QED BY <1>1, <1>2, <1>3, <2>1
<1>6. ASSUME NEW i \in 1..(Len(u) + 1), NEW j \in 1..(Len(u) + 1), i < j
      PROVE  At[Append(u, x)[i]] <= At[Append(u, x)[j]]
  <2>1. i \in 1..Len(u)
    BY <1>1, <1>6
  <2>2. \A k, l \in 1..Len(u) : k < l => At[u[k]] <= At[u[l]]
    BY <1>1 DEF Listing
  <2>3. CASE j \in 1..Len(u)
    BY <1>1, <1>6, <2>1, <2>2, <2>3
  <2>4. CASE j = Len(u) + 1
    BY <1>1, <1>3, <2>1, <2>4
  <2> QED BY <1>2, <2>3, <2>4
<1> QED BY <1>1, <1>4, <1>5, <1>6 DEF Listing

\* What a filter keeps of a listing is one.
LEMMA FilterLists ==
  ASSUME NEW At \in [SeqNo -> Int], NEW s, Listing(s, At), NEW T
  PROVE  Listing(Filter(s, T), At) /\ ToSet(Filter(s, T)) = ToSet(s) \cap T
<1>1. /\ s \in Seq(SeqNo) /\ Len(s) \in Nat /\ DOMAIN s = 1..Len(s)
      /\ \A i, j \in 1..Len(s) : s[i] = s[j] => i = j
      /\ \A i, j \in 1..Len(s) : i < j => At[s[i]] <= At[s[j]]
  BY DEF Listing, IsInjective
<1>2. PICK f : /\ f[0] = <<>> /\ f[Len(s)] = Filter(s, T)
               /\ \A i \in 1..Len(s) :
                    f[i] = IF s[i] \in T THEN Append(f[i - 1], s[i]) ELSE f[i - 1]
  BY <1>1, FilterSteps
<1> DEFINE First(i) == {s[j] : j \in 1..i}
           P(i) == Listing(f[i], At) /\ ToSet(f[i]) = First(i) \cap T
           Others == {i \in 0..Len(s) : ~P(i)}
<1>3. P(0)
  <2>1. <<>> \in Seq(SeqNo) /\ DOMAIN <<>> = {}
    OBVIOUS
  <2>2. Listing(<<>>, At) /\ ToSet(<<>>) = {}
    BY <2>1 DEF Listing, IsInjective, ToSet
  <2>3. First(0) = {}
    OBVIOUS
  <2> QED BY <1>2, <2>2, <2>3
<1>4. ASSUME NEW i \in 1..Len(s), P(i - 1) PROVE P(i)
  <2>1. PICK u : u = f[i - 1]
    OBVIOUS
  <2>2. Listing(u, At) /\ ToSet(u) = First(i - 1) \cap T
    BY <1>4, <2>1
  <2>3. First(i) = First(i - 1) \cup {s[i]}
    <3>1. 1..i = (1..(i - 1)) \cup {i}
      BY <1>1
    <3> QED BY <3>1
  <2>4. CASE s[i] \in T
    <3>1. PICK x : x = s[i]
      OBVIOUS
    <3>2. x \in SeqNo
      BY <1>1, <3>1
    <3>3. x \notin ToSet(u) /\ \A y \in ToSet(u) : At[y] <= At[x]
      <4>1. \A j \in 1..(i - 1) : j \in 1..Len(s) /\ j < i
        BY <1>1
      <4>2. \A y \in ToSet(u) : \E j \in 1..(i - 1) : y = s[j]
        BY <2>2
      <4> QED BY <1>1, <3>1, <4>1, <4>2
    <3> HIDE DEF P, First
    <3>4. \A A \in [SeqNo -> Int] : \A v : Listing(v, A) =>
            \A n \in SeqNo : n \notin ToSet(v) => ((\A y \in ToSet(v) : A[y] <= A[n]) =>
              Listing(Append(v, n), A) /\ ToSet(Append(v, n)) = ToSet(v) \cup {n})
      BY ListOneMore
    <3>5. Listing(Append(u, x), At) /\ ToSet(Append(u, x)) = ToSet(u) \cup {x}
      BY <2>2, <3>2, <3>3, <3>4
    <3>6. f[i] = Append(u, x)
      BY <1>2, <2>1, <2>4, <3>1
    <3>7. ToSet(f[i]) = First(i) \cap T
      BY <2>2, <2>3, <2>4, <3>1, <3>5, <3>6
    <3> QED BY <3>5, <3>6, <3>7 DEF P
  <2>5. CASE s[i] \notin T
    <3>1. f[i] = u
      BY <1>2, <2>1, <2>5
    <3>2. First(i) \cap T = First(i - 1) \cap T
      BY <2>3, <2>5
    <3> QED BY <2>2, <3>1, <3>2
  <2> QED BY <2>4, <2>5
<1> HIDE DEF P
<1>5. \A i \in 0..Len(s) : P(i)
  <2> SUFFICES ASSUME Others # {} PROVE FALSE
    OBVIOUS
  <2>1. PICK m \in Others : \A k \in Others : m <= k
    <3>1. Others \subseteq Nat
      BY <1>1
    <3> QED BY <3>1, LeastNatural
  <2>2. m \in 1..Len(s) /\ m - 1 \in 0..Len(s) /\ m - 1 \notin Others
    BY <1>1, <1>3, <2>1
  <2> QED BY <1>4, <2>1, <2>2
<1>6. P(Len(s))
  BY <1>1, <1>5
<1>7. First(Len(s)) = ToSet(s)
  BY <1>1 DEF ToSet
<1> HIDE DEF First
<1> QED BY <1>2, <1>6, <1>7 DEF P

-----------------------------------------------------------------------------
(* The inductive invariant *)

\* A number more at the end of a list without it.
LEMMA AppendFresh ==
  ASSUME NEW w \in Seq(SeqNo), IsInjective(w), NEW x \in SeqNo, x \notin ToSet(w)
  PROVE  IsInjective(Append(w, x)) /\ ToSet(Append(w, x)) = ToSet(w) \cup {x}
<1> DEFINE A == [n \in SeqNo |-> 0]
<1>1. A \in [SeqNo -> Int] /\ \A n \in SeqNo : A[n] = 0
  OBVIOUS
<1>2. \A i \in DOMAIN w : w[i] \in SeqNo
  OBVIOUS
<1> HIDE DEF A
<1>3. Listing(w, A) /\ \A y \in ToSet(w) : A[y] <= A[x]
  BY <1>1, <1>2 DEF Listing, ToSet
<1>4. \A B \in [SeqNo -> Int] : \A v : Listing(v, B) =>
        \A n \in SeqNo : n \notin ToSet(v) => ((\A y \in ToSet(v) : B[y] <= B[n]) =>
          Listing(Append(v, n), B) /\ ToSet(Append(v, n)) = ToSet(v) \cup {n})
  BY ListOneMore
<1> QED BY <1>1, <1>3, <1>4 DEF Listing

\* The log of versions, with one more.
LEMMA VersionsMore ==
  ASSUME TemporalTypeOK, NEW v \in Version
  PROVE  /\ ToSet(Append(versions, v)) = ToSet(versions) \cup {v}
         /\ Len(Append(versions, v)) = Len(versions) + 1
         /\ Append(versions, v) \in Seq(Version)
<1>1. /\ versions \in Seq(Version) /\ Len(versions) \in Nat /\ DOMAIN versions = 1..Len(versions)
      /\ DOMAIN Append(versions, v) = 1..(Len(versions) + 1)
      /\ \A i \in 1..Len(versions) : Append(versions, v)[i] = versions[i]
      /\ Append(versions, v)[Len(versions) + 1] = v
  BY DEF TemporalTypeOK
<1>2. /\ \A i \in 1..(Len(versions) + 1) : i \in 1..Len(versions) \/ i = Len(versions) + 1
      /\ Len(versions) + 1 \in 1..(Len(versions) + 1)
      /\ \A i \in 1..Len(versions) : i \in 1..(Len(versions) + 1)
  BY <1>1
<1> QED BY <1>1, <1>2 DEF ToSet

\* Versions are of the types the maps go by.
LEMMA VersionTypes ==
  ASSUME TemporalTypeOK, NEW v \in Given
  PROVE  /\ v \in Version /\ v.seq \in SeqNo
         /\ v.bounds.valid_time_start \in Instant /\ v.bounds.transaction_time \in Instant
<1>1. v \in Version
  BY DEF TemporalTypeOK, Given, ToSet
<1> QED BY <1>1 DEF Version, Bounds, SeqNo

\* No version yet.
LEMMA IndexBegins == TemporalInit => TemporalInv
<1> SUFFICES ASSUME TemporalInit PROVE TemporalInv
  OBVIOUS
<1>1. ToSet(versions) = {} /\ Given = {} /\ IsFiniteSet(prepared)
  BY FS_EmptySet DEF TemporalInit, ToSet, Given
<1>2. \A t \in Instant : /\ valid_time_index[t] = <<>> /\ transaction_index[t] = <<>>
                         /\ ToSet(<<>>) = {} /\ IsInjective(<<>>)
  BY DEF TemporalInit, Unindexed, ToSet, IsInjective
<1>3. TemporalTypeOK
  BY TemporalAssumption
  DEF TemporalAssumption, TemporalInit, TemporalTypeOK, Unindexed, Instant
<1>4. GivenOnce
  BY <1>1 DEF GivenOnce, TemporalInit
<1>5. Lists(valid_time_index, StartOf) /\ Lists(transaction_index, RecordOf)
  BY <1>1, <1>2 DEF Lists
<1> QED BY <1>3, <1>4, <1>5 DEF TemporalInv

\* The next number is that of no version.
LEMMA PrepareKeeps == TemporalInv /\ Prepare => TemporalInv'
<1> SUFFICES ASSUME TemporalInv, Prepare PROVE TemporalInv'
  OBVIOUS
<1>1. TemporalTypeOK /\ GivenOnce
  BY DEF TemporalInv
<1>2. Taken \in Nat /\ Taken < MaxVersions /\ Cardinality(prepared) \in Nat /\ Len(versions) \in Nat
  BY <1>1, FS_CardinalityType DEF Prepare, Taken, GivenOnce, TemporalTypeOK
<1>3. PICK start \in Instant, end \in Instant \cup {Forever} :
        prepared' = prepared \cup {[bounds |-> BoundsOf(start, end), seq |-> Taken + 1]}
  BY DEF Prepare
<1> DEFINE new == [bounds |-> BoundsOf(start, end), seq |-> Taken + 1]
<1>4. new \in Version /\ new.seq = Taken + 1
  <2>1. BoundsOf(start, end) \in Bounds
    BY <1>1 DEF BoundsOf, Bounds, TemporalTypeOK
  <2>2. Taken + 1 \in 1..MaxVersions
    BY <1>2, TemporalAssumption DEF TemporalAssumption
  <2> QED BY <2>1, <2>2 DEF Version
<1> HIDE DEF new
<1>5. prepared' = prepared \cup {new} /\ UNCHANGED <<present, versions, valid_time_index, transaction_index>>
  BY <1>3 DEF Prepare, new
<1>6. \A v \in Given : v.seq <= Taken /\ v.seq \in Nat /\ v # new
  <2>1. \A v \in Given : v.seq <= Taken /\ v.seq \in SeqNo
    BY <1>1, VersionTypes DEF GivenOnce
  <2> QED BY <1>2, <1>4, <2>1 DEF SeqNo
<1>7. Given' = Given \cup {new} /\ new \notin prepared /\ new \notin ToSet(versions)
  BY <1>5, <1>6 DEF Given
<1>8. IsFiniteSet(prepared') /\ Taken' = Taken + 1
  <2>1. IsFiniteSet(prepared')
    BY <1>1, <1>5, FS_AddElement DEF GivenOnce
  <2>2. Cardinality(prepared') = Cardinality(prepared) + 1
    BY <1>1, <1>5, <1>7, FS_AddElement DEF GivenOnce
  <2> QED BY <1>2, <1>5, <2>1, <2>2 DEF Taken
<1>9. TemporalTypeOK'
  BY <1>1, <1>4, <1>5 DEF TemporalTypeOK
<1>10. GivenOnce'
  <2>1. \A v, w \in Given' : v.seq = w.seq => v = w
    BY <1>1, <1>2, <1>4, <1>6, <1>7 DEF GivenOnce
  <2>2. \A v \in prepared' : v \notin ToSet(versions')
    BY <1>1, <1>5, <1>7 DEF GivenOnce
  <2>3. \A v \in Given' : v.seq <= Taken'
    BY <1>2, <1>4, <1>6, <1>7, <1>8
  <2> QED BY <1>8, <2>1, <2>2, <2>3 DEF GivenOnce
<1>11. (Lists(valid_time_index, StartOf) /\ Lists(transaction_index, RecordOf))'
  BY <1>5 DEF TemporalInv, Lists
<1> QED BY <1>9, <1>10, <1>11 DEF TemporalInv

\* What was waiting is listed in both maps, under its own times.
LEMMA InsertKeeps == ASSUME TemporalInv, NEW v \in prepared, insert(v) PROVE TemporalInv'
<1>1. TemporalTypeOK /\ GivenOnce /\ v \in Given
  BY DEF TemporalInv, Given
<1>2. /\ v \in Version /\ v.seq \in SeqNo
      /\ v.bounds.valid_time_start \in Instant /\ v.bounds.transaction_time \in Instant
  BY <1>1, VersionTypes
<1>3. ToSet(versions') = ToSet(versions) \cup {v} /\ versions' \in Seq(Version)
      /\ Len(versions') = Len(versions) + 1
  BY <1>1, <1>2, VersionsMore DEF insert
<1>4. Given' = Given
  BY <1>3 DEF insert, Given
<1>5. \A w \in ToSet(versions) : w.seq # v.seq
  BY <1>1 DEF GivenOnce, Given
<1>6. IsFiniteSet(prepared') /\ Taken' = Taken
  <2>1. IsFiniteSet(prepared') /\ Cardinality(prepared') = Cardinality(prepared) - 1
    BY <1>1, FS_RemoveElement DEF GivenOnce, insert
  <2>2. Cardinality(prepared) \in Nat /\ Len(versions) \in Nat
    BY <1>1, FS_CardinalityType DEF GivenOnce, TemporalTypeOK
  <2> QED BY <1>3, <2>1, <2>2 DEF Taken
<1>7. GivenOnce'
  <2>1. \A w \in prepared' : w \notin ToSet(versions')
    BY <1>1, <1>3 DEF GivenOnce, insert
  <2> QED BY <1>1, <1>4, <1>6, <2>1 DEF GivenOnce
<1>8. TemporalTypeOK'
  BY <1>1, <1>2, <1>3 DEF TemporalTypeOK, insert, SeqNo
<1>9. Lists(valid_time_index, StartOf)'
  <2> SUFFICES ASSUME NEW t \in Instant
               PROVE  /\ ToSet(valid_time_index'[t])
                           = {w.seq : w \in {x \in ToSet(versions') : StartOf(x.bounds) = t}}
                      /\ IsInjective(valid_time_index'[t])
    BY DEF Lists
  <2>1. /\ valid_time_index[t] \in Seq(SeqNo) /\ IsInjective(valid_time_index[t])
        /\ ToSet(valid_time_index[t]) = {w.seq : w \in {x \in ToSet(versions) : StartOf(x.bounds) = t}}
    BY <1>1 DEF TemporalInv, Lists, TemporalTypeOK, SeqNo
  <2>2. CASE t = v.bounds.valid_time_start
    <3>1. v.seq \notin ToSet(valid_time_index[t])
      BY <1>5, <2>1
    <3>2. valid_time_index'[t] = Append(valid_time_index[t], v.seq)
      BY <1>1, <2>2 DEF insert, TemporalTypeOK
    <3>3. /\ IsInjective(Append(valid_time_index[t], v.seq))
          /\ ToSet(Append(valid_time_index[t], v.seq)) = ToSet(valid_time_index[t]) \cup {v.seq}
      BY <1>2, <2>1, <3>1, AppendFresh
    <3> QED BY <1>3, <2>1, <2>2, <3>2, <3>3 DEF StartOf
  <2>3. CASE t # v.bounds.valid_time_start
    <3>1. valid_time_index'[t] = valid_time_index[t]
      BY <1>1, <2>3 DEF insert, TemporalTypeOK
    <3> QED BY <1>3, <2>1, <2>3, <3>1 DEF StartOf
  <2> QED BY <2>2, <2>3
<1>10. Lists(transaction_index, RecordOf)'
  <2> SUFFICES ASSUME NEW t \in Instant
               PROVE  /\ ToSet(transaction_index'[t])
                           = {w.seq : w \in {x \in ToSet(versions') : RecordOf(x.bounds) = t}}
                      /\ IsInjective(transaction_index'[t])
    BY DEF Lists
  <2>1. /\ transaction_index[t] \in Seq(SeqNo) /\ IsInjective(transaction_index[t])
        /\ ToSet(transaction_index[t]) = {w.seq : w \in {x \in ToSet(versions) : RecordOf(x.bounds) = t}}
    BY <1>1 DEF TemporalInv, Lists, TemporalTypeOK, SeqNo
  <2>2. CASE t = v.bounds.transaction_time
    <3>1. v.seq \notin ToSet(transaction_index[t])
      BY <1>5, <2>1
    <3>2. transaction_index'[t] = Append(transaction_index[t], v.seq)
      BY <1>1, <2>2 DEF insert, TemporalTypeOK
    <3>3. /\ IsInjective(Append(transaction_index[t], v.seq))
          /\ ToSet(Append(transaction_index[t], v.seq)) = ToSet(transaction_index[t]) \cup {v.seq}
      BY <1>2, <2>1, <3>1, AppendFresh
    <3> QED BY <1>3, <2>1, <2>2, <3>2, <3>3 DEF RecordOf
  <2>3. CASE t # v.bounds.transaction_time
    <3>1. transaction_index'[t] = transaction_index[t]
      BY <1>1, <2>3 DEF insert, TemporalTypeOK
    <3> QED BY <1>3, <2>1, <2>3, <3>1 DEF RecordOf
  <2> QED BY <2>2, <2>3
<1> QED BY <1>7, <1>8, <1>9, <1>10 DEF TemporalInv

LEMMA IndexStep == TemporalInv /\ [TemporalNext]_temporalVars => TemporalInv'
<1> SUFFICES ASSUME TemporalInv, [TemporalNext]_temporalVars PROVE TemporalInv'
  OBVIOUS
<1>1. CASE Prepare
  BY <1>1, PrepareKeeps
<1>2. ASSUME NEW v \in prepared, insert(v) PROVE TemporalInv'
  BY <1>2, InsertKeeps
<1>3. CASE ClockAdvances
  <2>1. UNCHANGED <<prepared, versions, valid_time_index, transaction_index>>
    BY <1>3 DEF ClockAdvances
  <2>2. TemporalTypeOK'
    BY <1>3, TemporalAssumption
    DEF ClockAdvances, TemporalInv, TemporalTypeOK, TemporalAssumption, Instant
  <2> QED BY <2>1, <2>2 DEF TemporalInv, GivenOnce, Given, Taken, Lists
<1>4. CASE UNCHANGED temporalVars
  BY <1>4 DEF temporalVars, TemporalInv, TemporalTypeOK, GivenOnce, Given, Taken, Lists
<1> QED BY <1>1, <1>2, <1>3, <1>4 DEF TemporalNext

\* The inductive invariant: versions with numbers of their own, and two maps that list
\* each of those inserted once, under its own times.
THEOREM TemporalInvariant == TemporalSpec => []TemporalInv
BY IndexBegins, IndexStep, PTL DEF TemporalSpec

\* The clock, the versions and both maps keep their types.
THEOREM TemporalTypeCorrect == TemporalSpec => []TemporalTypeOK
<1>1. TemporalInv => TemporalTypeOK
  BY DEF TemporalInv
<1> QED BY <1>1, TemporalInvariant, PTL
-----------------------------------------------------------------------------
(* What the queries find *)

\* When the numbers were recorded, and from when their versions are valid.
Recorded == [n \in SeqNo |->
  IF \E v \in ToSet(versions) : v.seq = n THEN RecordedAt(n) ELSE 0]

Started == [n \in SeqNo |->
  IF \E v \in ToSet(versions) : v.seq = n
  THEN (CHOOSE v \in ToSet(versions) : v.seq = n).bounds.valid_time_start ELSE 0]

LEMMA TimesOfNumbers ==
  ASSUME TemporalInv
  PROVE  /\ Recorded \in [SeqNo -> Int] /\ Started \in [SeqNo -> Int]
         /\ \A v \in ToSet(versions) :
              /\ v.seq \in SeqNo /\ RecordedAt(v.seq) = v.bounds.transaction_time
              /\ Recorded[v.seq] = v.bounds.transaction_time
              /\ Started[v.seq] = v.bounds.valid_time_start
<1>1. TemporalTypeOK /\ GivenOnce /\ ToSet(versions) \subseteq Given
  BY DEF TemporalInv, Given
<1>2. ASSUME NEW v \in ToSet(versions)
      PROVE  (CHOOSE w \in ToSet(versions) : w.seq = v.seq) = v
  <2>1. \A w \in ToSet(versions) : w.seq = v.seq => w = v
    BY <1>1 DEF GivenOnce
  <2> QED BY <2>1
<1>3. \A v \in ToSet(versions) :
        /\ v.seq \in SeqNo /\ v.bounds.valid_time_start \in Int
        /\ v.bounds.transaction_time \in Int
  BY <1>1, VersionTypes DEF Instant
<1>4. \A v \in ToSet(versions) :
        /\ v.seq \in SeqNo /\ RecordedAt(v.seq) = v.bounds.transaction_time
        /\ Recorded[v.seq] = v.bounds.transaction_time
        /\ Started[v.seq] = v.bounds.valid_time_start
  BY <1>2, <1>3 DEF RecordedAt, Recorded, Started
<1>5. ASSUME NEW n \in SeqNo PROVE Recorded[n] \in Int /\ Started[n] \in Int
  <2>1. CASE \E v \in ToSet(versions) : v.seq = n
    BY <1>3, <1>4, <2>1
  <2>2. CASE ~ \E v \in ToSet(versions) : v.seq = n
    BY <2>2 DEF Recorded, Started
  <2> QED BY <2>1, <2>2
<1>6. Recorded \in [SeqNo -> Int] /\ Started \in [SeqNo -> Int]
  <2>1. Recorded = [n \in SeqNo |-> Recorded[n]] /\ Started = [n \in SeqNo |-> Started[n]]
    BY DEF Recorded, Started
  <2> QED BY <1>5, <2>1
<1> QED BY <1>4, <1>6

\* Both maps list numbers under their times.
LEMMA MapsList ==
  ASSUME TemporalInv
  PROVE  /\ valid_time_index \in [Instant -> Seq(SeqNo)]
         /\ transaction_index \in [Instant -> Seq(SeqNo)]
         /\ \A i \in Instant : /\ IsInjective(valid_time_index[i])
                               /\ \A x \in ToSet(valid_time_index[i]) : Started[x] = i
         /\ \A i \in Instant : /\ IsInjective(transaction_index[i])
                               /\ \A x \in ToSet(transaction_index[i]) : Recorded[x] = i
<1>1. /\ valid_time_index \in [Instant -> Seq(SeqNo)]
      /\ transaction_index \in [Instant -> Seq(SeqNo)]
  BY DEF TemporalInv, TemporalTypeOK, SeqNo
<1>2. Lists(valid_time_index, StartOf) /\ Lists(transaction_index, RecordOf)
  BY DEF TemporalInv
<1>3. ASSUME NEW i \in Instant
      PROVE  /\ IsInjective(valid_time_index[i])
             /\ \A x \in ToSet(valid_time_index[i]) : Started[x] = i
  <2>1. ToSet(valid_time_index[i]) = {v.seq : v \in {w \in ToSet(versions) : StartOf(w.bounds) = i}}
    BY <1>2 DEF Lists
  <2>2. IsInjective(valid_time_index[i])
    BY <1>2 DEF Lists
  <2> QED BY <2>1, <2>2, TimesOfNumbers DEF StartOf
<1>4. ASSUME NEW i \in Instant
      PROVE  /\ IsInjective(transaction_index[i])
             /\ \A x \in ToSet(transaction_index[i]) : Recorded[x] = i
  <2>1. ToSet(transaction_index[i]) = {v.seq : v \in {w \in ToSet(versions) : RecordOf(w.bounds) = i}}
    BY <1>2 DEF Lists
  <2>2. IsInjective(transaction_index[i])
    BY <1>2 DEF Lists
  <2> QED BY <2>1, <2>2, TimesOfNumbers DEF RecordOf
<1> QED BY <1>1, <1>3, <1>4

\* What the two queries of one time give: all versions that began, or were recorded, by it.
LEMMA QueriesUpTo ==
  ASSUME TemporalInv, NEW t \in Instant
  PROVE  /\ Listing(query_as_of_transaction(t), Recorded)
         /\ ToSet(query_as_of_transaction(t))
              = {w.seq : w \in {x \in ToSet(versions) : x.bounds.transaction_time <= t}}
         /\ ToSet(query_as_of_valid(t))
              = {w.seq : w \in {x \in ToSet(versions) : x.bounds.valid_time_start <= t}}
<1>1. /\ \A w \in ToSet(versions) : /\ w.bounds.valid_time_start \in Instant
                                    /\ w.bounds.transaction_time \in Instant
      /\ t \in Int /\ \A i \in Instant : i \in 0..t <=> i <= t
      /\ 0..t \subseteq Instant
  BY VersionTypes, TemporalAssumption DEF TemporalInv, Given, TemporalAssumption, Instant
<1>0. \A index \in [Instant -> Seq(SeqNo)] : \A At \in [SeqNo -> Int] :
        (\A i \in Instant : IsInjective(index[i]) /\ \A x \in ToSet(index[i]) : At[x] = i) =>
          Listing(UpTo(index, t), At) /\ ToSet(UpTo(index, t)) = Under(index, t)
  BY UpToLists
<1>2. /\ Listing(UpTo(transaction_index, t), Recorded)
      /\ ToSet(UpTo(transaction_index, t)) = Under(transaction_index, t)
  BY <1>0, TimesOfNumbers, MapsList
<1>3. ToSet(UpTo(valid_time_index, t)) = Under(valid_time_index, t)
  BY <1>0, TimesOfNumbers, MapsList
<1>4. Under(transaction_index, t)
        = {w.seq : w \in {x \in ToSet(versions) : x.bounds.transaction_time <= t}}
  <2>1. \A i \in 0..t : ToSet(transaction_index[i])
          = {w.seq : w \in {x \in ToSet(versions) : x.bounds.transaction_time = i}}
    BY <1>1 DEF TemporalInv, Lists, RecordOf
  <2>2. \A n : n \in Under(transaction_index, t)
          <=> \E i \in 0..t : n \in ToSet(transaction_index[i])
    BY DEF Under
  <2>3. \A n : (\E i \in 0..t : n \in ToSet(transaction_index[i]))
          <=> \E w \in ToSet(versions) : w.bounds.transaction_time <= t /\ n = w.seq
    <3>1. \A i \in 0..t : \A n : n \in ToSet(transaction_index[i])
            <=> \E w \in ToSet(versions) : w.bounds.transaction_time = i /\ n = w.seq
      BY <2>1
    <3>2. \A w \in ToSet(versions) : w.bounds.transaction_time \in 0..t <=> w.bounds.transaction_time <= t
      BY <1>1
    <3>3. ASSUME NEW n, NEW i \in 0..t, n \in ToSet(transaction_index[i])
          PROVE  \E w \in ToSet(versions) : w.bounds.transaction_time <= t /\ n = w.seq
      <4>1. PICK w \in ToSet(versions) : w.bounds.transaction_time = i /\ n = w.seq
        BY <3>1, <3>3
      <4> QED BY <3>2, <4>1
    <3>4. ASSUME NEW w \in ToSet(versions), w.bounds.transaction_time <= t
          PROVE  \E i \in 0..t : w.seq \in ToSet(transaction_index[i])
      BY <3>1, <3>2, <3>4
    <3> QED BY <3>3, <3>4
  <2> QED BY <2>2, <2>3
<1>5. Under(valid_time_index, t)
        = {w.seq : w \in {x \in ToSet(versions) : x.bounds.valid_time_start <= t}}
  <2>1. \A i \in 0..t : ToSet(valid_time_index[i])
          = {w.seq : w \in {x \in ToSet(versions) : x.bounds.valid_time_start = i}}
    BY <1>1 DEF TemporalInv, Lists, StartOf
  <2>2. \A n : n \in Under(valid_time_index, t)
          <=> \E i \in 0..t : n \in ToSet(valid_time_index[i])
    BY DEF Under
  <2>3. \A n : (\E i \in 0..t : n \in ToSet(valid_time_index[i]))
          <=> \E w \in ToSet(versions) : w.bounds.valid_time_start <= t /\ n = w.seq
    <3>1. \A i \in 0..t : \A n : n \in ToSet(valid_time_index[i])
            <=> \E w \in ToSet(versions) : w.bounds.valid_time_start = i /\ n = w.seq
      BY <2>1
    <3>2. \A w \in ToSet(versions) : w.bounds.valid_time_start \in 0..t <=> w.bounds.valid_time_start <= t
      BY <1>1
    <3>3. ASSUME NEW n, NEW i \in 0..t, n \in ToSet(valid_time_index[i])
          PROVE  \E w \in ToSet(versions) : w.bounds.valid_time_start <= t /\ n = w.seq
      <4>1. PICK w \in ToSet(versions) : w.bounds.valid_time_start = i /\ n = w.seq
        BY <3>1, <3>3
      <4> QED BY <3>2, <4>1
    <3>4. ASSUME NEW w \in ToSet(versions), w.bounds.valid_time_start <= t
          PROVE  \E i \in 0..t : w.seq \in ToSet(valid_time_index[i])
      BY <3>1, <3>2, <3>4
    <3> QED BY <3>3, <3>4
  <2> QED BY <2>2, <2>3
<1> QED BY <1>2, <1>3, <1>4, <1>5 DEF query_as_of_transaction, query_as_of_valid

\* The intersection of the two, in the order of the records.
LEMMA IntersectionIsExact == TemporalInv => BitemporalIsExact
<1> SUFFICES ASSUME TemporalInv, NEW v \in Instant, NEW t \in Instant
             PROVE  LET found == query_bitemporal(v, t)
                        Known(b) == b.valid_time_start <= v /\ b.transaction_time <= t
                    IN  /\ ToSet(found) = SeqsOf(Known)
                        /\ IsInjective(found)
                        /\ \A i, j \in DOMAIN found :
                             i < j => RecordedAt(found[i]) <= RecordedAt(found[j])
  BY DEF BitemporalIsExact
<1> DEFINE found == query_bitemporal(v, t)
           Known(b) == b.valid_time_start <= v /\ b.transaction_time <= t
<1>1. /\ Listing(found, Recorded)
      /\ ToSet(found) = ToSet(query_as_of_transaction(t)) \cap ToSet(query_as_of_valid(v))
  BY TimesOfNumbers, QueriesUpTo, FilterLists DEF query_bitemporal
<1>2. /\ ToSet(query_as_of_transaction(t))
           = {w.seq : w \in {x \in ToSet(versions) : x.bounds.transaction_time <= t}}
      /\ ToSet(query_as_of_valid(v))
           = {w.seq : w \in {x \in ToSet(versions) : x.bounds.valid_time_start <= v}}
  BY QueriesUpTo
<1>3. \A w, x \in ToSet(versions) : w.seq = x.seq => w = x
  BY DEF TemporalInv, GivenOnce, Given
<1> HIDE DEF found
<1>4. ToSet(found) = SeqsOf(Known)
  BY <1>1, <1>2, <1>3 DEF SeqsOf
<1>5. \A n \in ToSet(found) : RecordedAt(n) = Recorded[n]
  BY <1>1, <1>2, TimesOfNumbers
<1>6. \A i \in DOMAIN found : found[i] \in ToSet(found)
  BY DEF ToSet
<1>7. \A i, j \in DOMAIN found : i < j => RecordedAt(found[i]) <= RecordedAt(found[j])
  BY <1>1, <1>5, <1>6 DEF Listing
<1>8. IsInjective(found)
  BY <1>1 DEF Listing
<1> QED BY <1>4, <1>7, <1>8 DEF found

\* However versions were inserted, a bitemporal query gives each one that began by the
\* valid time and was recorded by the transaction time, once, in the order of the records.
THEOREM BitemporalQueriesAreExact == TemporalSpec => []BitemporalIsExact
BY IntersectionIsExact, TemporalInvariant, PTL
\* A query by valid time gives all versions that began by it.
ValidQueriesAreFull ==
  \A v \in Instant :
    ToSet(query_as_of_valid(v))
      = {w.seq : w \in {x \in ToSet(versions) : x.bounds.valid_time_start <= v}}

\* An insertion changes no answer about a time before its transaction time.
LEMMA InsertLeavesPast ==
  ASSUME TemporalInv, TemporalInv', ValidQueriesAreFull, ValidQueriesAreFull',
         NEW x \in prepared, insert(x), NEW t \in Instant, NEW v \in Instant,
         t < x.bounds.transaction_time
  PROVE  /\ query_as_of_transaction(t)' = query_as_of_transaction(t)
         /\ query_bitemporal(v, t)' = query_bitemporal(v, t)
<1>1. TemporalTypeOK /\ GivenOnce /\ x \in Given
  BY DEF TemporalInv, Given
<1>2. x \in Version /\ x.bounds.transaction_time \in Instant
  BY <1>1, VersionTypes
<1>3. query_as_of_transaction(t)' = query_as_of_transaction(t)
  <2>1. \A i \in 1..(t + 1) : transaction_index'[i - 1] = transaction_index[i - 1]
    <3> SUFFICES ASSUME NEW i \in 1..(t + 1)
                 PROVE  transaction_index'[i - 1] = transaction_index[i - 1]
      OBVIOUS
    <3>1. i - 1 \in Instant /\ i - 1 # x.bounds.transaction_time
      BY <1>2, TemporalAssumption DEF TemporalAssumption, Instant
    <3> QED BY <1>1, <3>1 DEF insert, TemporalTypeOK
  <2> QED BY <2>1 DEF query_as_of_transaction, UpTo
<1>4. ToSet(versions') = ToSet(versions) \cup {x}
  BY <1>1, <1>2, VersionsMore DEF insert
<1> DEFINE s == query_as_of_transaction(t)
<1>5. s \in Seq(SeqNo)
      /\ ToSet(s) = {w.seq : w \in {y \in ToSet(versions) : y.bounds.transaction_time <= t}}
  BY QueriesUpTo DEF Listing
<1>6. \A n \in ToSet(s) : n \in ToSet(query_as_of_valid(v))' <=> n \in ToSet(query_as_of_valid(v))
  <2> SUFFICES ASSUME NEW w \in ToSet(versions), w.bounds.transaction_time <= t
               PROVE  w.seq \in ToSet(query_as_of_valid(v))'
                        <=> w.seq \in ToSet(query_as_of_valid(v))
    BY <1>5
  <2>1. w.seq # x.seq
    <3>1. w \in Given /\ w.bounds.transaction_time \in Instant /\ w # x
      BY <1>1, VersionTypes DEF Given, GivenOnce
    <3> QED BY <1>1, <3>1 DEF GivenOnce
  <2>2. ToSet(query_as_of_valid(v))
          = {y.seq : y \in {z \in ToSet(versions) : z.bounds.valid_time_start <= v}}
    BY DEF ValidQueriesAreFull
  <2>3. ToSet(query_as_of_valid(v))'
          = {y.seq : y \in {z \in ToSet(versions') : z.bounds.valid_time_start <= v}}
    BY DEF ValidQueriesAreFull
  <2> QED BY <1>4, <2>1, <2>2, <2>3
<1>7. query_bitemporal(v, t)' = query_bitemporal(v, t)
  <2>1. query_bitemporal(v, t) = Filter(s, ToSet(query_as_of_valid(v)))
    BY DEF query_bitemporal
  <2>2. query_bitemporal(v, t)' = Filter(s, ToSet(query_as_of_valid(v))')
    BY <1>3 DEF query_bitemporal
  <2> HIDE DEF s
  <2> QED BY <1>5, <1>6, <2>1, <2>2, FilterSame
<1> QED BY <1>3, <1>7

\* Once no version with an earlier transaction time is waiting, every answer about a
\* time before the present is final, whatever is inserted later and however it is dated.
THEOREM ThePastIsFinal == TemporalSpec => PastIsFinal
<1> DEFINE Final ==
      \A t, v \in Instant :
        t < present /\ (\A w \in prepared : t < w.bounds.transaction_time) =>
          /\ query_as_of_transaction(t)' = query_as_of_transaction(t)
          /\ query_bitemporal(v, t)' = query_bitemporal(v, t)
<1>1. TemporalInv => ValidQueriesAreFull
  BY QueriesUpTo DEF ValidQueriesAreFull
<1>2. ASSUME TemporalInv, TemporalInv', ValidQueriesAreFull, ValidQueriesAreFull',
             [TemporalNext]_temporalVars
      PROVE  [Final]_temporalVars
  <2> SUFFICES ASSUME TemporalNext, NEW t \in Instant, NEW v \in Instant,
                      \A w \in prepared : t < w.bounds.transaction_time
               PROVE  /\ query_as_of_transaction(t)' = query_as_of_transaction(t)
                      /\ query_bitemporal(v, t)' = query_bitemporal(v, t)
    BY <1>2
  <2>1. CASE Prepare \/ ClockAdvances
    <3>1. UNCHANGED <<versions, valid_time_index, transaction_index>>
      BY <2>1 DEF Prepare, ClockAdvances
    <3> QED BY <3>1 DEF query_as_of_transaction, query_bitemporal, query_as_of_valid, UpTo
  <2>2. ASSUME NEW x \in prepared, insert(x)
        PROVE  /\ query_as_of_transaction(t)' = query_as_of_transaction(t)
               /\ query_bitemporal(v, t)' = query_bitemporal(v, t)
    BY <1>2, <2>2, InsertLeavesPast
  <2> QED BY <2>1, <2>2 DEF TemporalNext
<1> QED BY <1>1, <1>2, TemporalInvariant, PTL DEF TemporalSpec, PastIsFinal
-----------------------------------------------------------------------------
(* The parts together *)

\* A behaviour of the small instances is one of each part: three of them stutter.
LEMMA PartsStepAlone ==
  /\ MCInit => WalInit /\ RotationInit /\ Init /\ TemporalInit
  /\ [MCNext]_allVars =>
       [WalNext]_walVars /\ [RotationNext]_rotationVars /\ [Next]_vars
         /\ [TemporalNext]_temporalVars
<1>1. MCInit => WalInit /\ RotationInit /\ Init /\ TemporalInit
  BY DEF MCInit
<1>2. ASSUME MCNext
      PROVE  [WalNext]_walVars /\ [RotationNext]_rotationVars /\ [Next]_vars
               /\ [TemporalNext]_temporalVars
  BY <1>2 DEF MCNext
<1>3. ASSUME UNCHANGED allVars
      PROVE  /\ UNCHANGED walVars /\ UNCHANGED rotationVars
             /\ UNCHANGED vars /\ UNCHANGED temporalVars
  BY <1>3 DEF allVars
<1> QED BY <1>1, <1>2, <1>3

\* The log, its rotation, the memtable and the temporal index keep their types, and with
\* them what is proved of each part holds of them side by side.
THEOREM NodeTypeCorrect == MCSpec => []NodeTypeOK
<1>1. MCSpec => WalSpec /\ RotationSpec /\ Spec /\ TemporalSpec
  BY PartsStepAlone, PTL DEF MCSpec, WalSpec, RotationSpec, Spec, TemporalSpec
<1>2. WalTypeOK /\ RotationTypeOK /\ TypeOK /\ TemporalTypeOK => NodeTypeOK
  BY DEF NodeTypeOK
<1> QED
  BY <1>1, <1>2, WalTypeCorrect, RotationTypeCorrect, MemTableTypeCorrect,
     TemporalTypeCorrect, PTL
=============================================================================
