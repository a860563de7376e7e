---------------------------- MODULE WalRotation ----------------------------
(***************************************************************************)
(* WriteAheadLog::rotate and the files it leaves in the data directory     *)
(* (crates/cdf-storage/src/wal.rs).  A path names at most one file; the    *)
(* handle follows the file it opened when that file is renamed, and a      *)
(* rename over an existing path drops the file that was there.             *)
(*                                                                         *)
(* Every append here succeeds and is synced: torn and unsynced records are *)
(* the subject of WriteAheadLog.  A record is its number and its rank      *)
(* among all appends ever acknowledged.                                    *)
(***************************************************************************)
EXTENDS Integers, Sequences, SequencesExt

CONSTANTS Active,     \* the path wal.active
          Closed,     \* no handle
          MaxAppends, \* bound: appends in a behaviour
          MaxRotates, \* bound: rotations in a behaviour
          MaxRestarts \* bound: times the log is closed

ASSUME RotationAssumption ==
  /\ Active \notin Nat /\ Closed \notin Nat /\ Active # Closed
  /\ {MaxAppends, MaxRotates, MaxRestarts} \subseteq Nat

VARIABLES fs,       \* the files: path -> records. Archive n is the path wal.wal.n
          handle,   \* the path that now names the file the handle has open
          next_seq,  \* next_seq
          written,  \* history: appends acknowledged so far
          openedAt, \* history: the value of written at the last open
          rotates, restarts

rotationVars == <<fs, handle, next_seq, written, openedAt, rotates, restarts>>

Path == Nat \cup {Active}
NumberedRecord == [seq : Nat, rank : 1..MaxAppends]

RotationTypeOK ==
  /\ DOMAIN fs \subseteq Path
  /\ \A p \in DOMAIN fs : fs[p] \in Seq(NumberedRecord)
  /\ handle \in DOMAIN fs \cup {Closed}
  /\ next_seq \in Nat \ {0}
  /\ written \in 0..MaxAppends
  /\ openedAt \in 0..written

RotationInit ==
  /\ fs = <<>>
  /\ handle = Closed
  /\ next_seq = 1
  /\ written = 0
  /\ openedAt = 0
  /\ rotates = 0
  /\ restarts = 0

\* The files once wal.active is opened with create(true).
WithActive == [p \in DOMAIN fs \cup {Active} |-> IF p \in DOMAIN fs THEN fs[p] ELSE <<>>]

\* Bug: the recovered entries are not looked at.
RecoveredSeq_One(f) == 1

RecoveredSeq(f) == IF f = <<>> THEN 1 ELSE Last(f).seq + 1

\* The number is recovered from wal.active alone.
OpenActive ==
  /\ handle = Closed
  /\ fs' = WithActive
  /\ handle' = Active
  /\ next_seq' = RecoveredSeq(fs'[Active])
  /\ openedAt' = written
  /\ UNCHANGED <<written, rotates, restarts>>

AppendRecord ==
  /\ handle # Closed
  /\ written < MaxAppends
  /\ fs' = [fs EXCEPT ![handle] = Append(@, [seq |-> next_seq, rank |-> written + 1])]
  /\ next_seq' = next_seq + 1
  /\ written' = written + 1
  /\ UNCHANGED <<handle, openedAt, rotates, restarts>>

\* Bug: the numbering restarts with the file.
Rotate_FromOne ==
  /\ handle # Closed
  /\ rotates < MaxRotates
  /\ LET archive == next_seq - 1 IN
       /\ fs' = [p \in (DOMAIN fs \ {Active}) \cup {archive} |->
                   IF p = archive THEN WithActive[Active] ELSE fs[p]]
       /\ handle' = archive
  /\ next_seq' = 1
  /\ rotates' = rotates + 1
  /\ UNCHANGED <<written, openedAt, restarts>>

\* The handle is replaced by one on wal.active, created if need be, and only then is
\* wal.active renamed to the archive: the new handle goes with it.
Rotate ==
  /\ handle # Closed
  /\ rotates < MaxRotates
  /\ LET archive == next_seq - 1 IN
       /\ fs' = [p \in (DOMAIN fs \ {Active}) \cup {archive} |->
                   IF p = archive THEN WithActive[Active] ELSE fs[p]]
       /\ handle' = archive
  /\ rotates' = rotates + 1
  /\ UNCHANGED <<next_seq, written, openedAt, restarts>>

\* The rename fails after the handle was replaced. (When the sync or the reopening
\* fails, nothing has changed.)
RotateRenameFails ==
  /\ handle # Closed
  /\ rotates < MaxRotates
  /\ fs' = WithActive
  /\ handle' = Active
  /\ rotates' = rotates + 1
  /\ UNCHANGED <<next_seq, written, openedAt, restarts>>

\* The process stops; every append was synced.
Close ==
  /\ handle # Closed
  /\ restarts < MaxRestarts
  /\ handle' = Closed
  /\ restarts' = restarts + 1
  /\ UNCHANGED <<fs, next_seq, written, openedAt, rotates>>

RotationNext == OpenActive \/ AppendRecord \/ Rotate \/ RotateRenameFails \/ Close

RotationSpec == RotationInit /\ [][RotationNext]_rotationVars

-----------------------------------------------------------------------------
(* Properties *)

OnDisk == UNION {Range(fs[p]) : p \in DOMAIN fs}

\* Whatever mixture of rotations, failed renames and restarts produced a file, the
\* numbers in it follow one another without a gap or a repetition.
FilesAreContiguous ==
  \A p \in DOMAIN fs : \A i \in 1..(Len(fs[p]) - 1) : fs[p][i + 1].seq = fs[p][i].seq + 1

\* Between two restarts the numbers increase with the appends, over all the files.
NumbersFollowAppends ==
  \A r, s \in OnDisk : openedAt < r.rank /\ r.rank < s.rank => r.seq < s.seq

\* rotate is to "open a fresh empty WAL at the original path" (wal.rs:174): the log
\* being written is at that path.
WritesAtOriginalPath == handle # Closed => handle = Active
=============================================================================
