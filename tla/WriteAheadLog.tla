--------------------------- MODULE WriteAheadLog ---------------------------
(***************************************************************************)
(* The write-ahead log of a storage node: crates/cdf-storage/src/wal.rs,   *)
(* without rotate (module WalRotation).  The file is an append-only        *)
(* sequence of length-prefixed records; nothing but open() and append()    *)
(* changes what it holds, and nothing ever truncates it.                   *)
(*                                                                         *)
(* Bytes are abstracted to what replay tells apart: a record is whole, or  *)
(* torn (a write stopped part of the way through the prefix or the body).  *)
(* Faults: a write or a sync that fails while the process lives on, and a  *)
(* crash of the machine that keeps any prefix of what was not yet synced,  *)
(* its last record possibly torn.                                          *)
(***************************************************************************)
EXTENDS Integers, Sequences

CONSTANTS Op,          \* the operations a caller may log (WalOp)
          Oversized,   \* those that encode to more than replay's 64 MB limit
          SyncOnWrite, \* sync_on_write
          MaxLog       \* bound: records ever present in the file

ASSUME WalAssumption == /\ Oversized \subseteq Op
                        /\ SyncOnWrite \in BOOLEAN
                        /\ MaxLog \in Nat

VARIABLES log,     \* the file: its records in the order of their bytes
          synced,  \* how many of them are on stable storage
          nextSeq, \* next_seq of the open handle
          isOpen,  \* whether a process holds the log open
          acked    \* history: appends that returned Ok, with their place in the file

walVars == <<log, synced, nextSeq, isOpen, acked>>

Record == [seq : Nat, op : Op, whole : BOOLEAN]
Ack == [pos : Nat, seq : Nat, op : Op]

WalTypeOK ==
  /\ log \in Seq(Record)
  /\ Len(log) <= MaxLog
  /\ synced \in 0..Len(log)
  /\ nextSeq \in Nat \ {0}
  /\ isOpen \in BOOLEAN
  /\ acked \subseteq Ack

WalInit ==
  /\ log = <<>>
  /\ synced = 0
  /\ nextSeq = 1
  /\ isOpen = FALSE
  /\ acked = {}

-----------------------------------------------------------------------------
(* replay_internal *)

Decodes(r) == r.whole /\ r.op \notin Oversized

DecodesUpTo(f, n) == \A i \in 1..n : Decodes(f[i])

\* Bug: the end of the file is tested one record too early.
DecodedEnds_EarlyEof(f) ==
  {n \in 0..Len(f) : DecodesUpTo(f, n) /\ (n + 1 < Len(f) => ~f[n + 1].whole)}

\* A torn record that other bytes follow takes its missing bytes from them. The
\* misaligned read then finds a length past the end of the file, which ends the
\* replay quietly, or decodes to something under the torn record's number. (Left out:
\* a record torn inside that number whose mixture decodes all the same.)
DecodedEnds(f) == {n \in 0..Len(f) : DecodesUpTo(f, n) /\ (n < Len(f) => ~f[n + 1].whole)}
GarbledEnds(f) == {n \in 1..(Len(f) - 1) : DecodesUpTo(f, n - 1) /\ ~f[n].whole}

\* Where a replay that returns Ok can stop: the index of its last entry.
ReplayEnds(f) == DecodedEnds(f) \cup GarbledEnds(f)

\* The length prefix of an oversized record is refused, and so may be whatever a
\* misaligned read takes for a length or a body.
ReplayMayFail(f) ==
  \E n \in 1..Len(f) : /\ DecodesUpTo(f, n - 1)
                       /\ f[n].op \in Oversized \/ (~f[n].whole /\ n < Len(f))

\* Bug: the recovered number is one short.
LastSeq_Short(f, n) == IF n = 0 THEN -1 ELSE f[n].seq - 1

LastSeq(f, n) == IF n = 0 THEN 0 ELSE f[n].seq

-----------------------------------------------------------------------------
(* open, append and sync *)

\* Bug: the file is opened with truncate(true) instead of append(true).
Open_Truncates ==
  /\ ~isOpen
  /\ isOpen' = TRUE
  /\ log' = <<>>
  /\ synced' = 0
  /\ nextSeq' = 1
  /\ UNCHANGED acked

Open ==
  /\ ~isOpen
  /\ isOpen' = TRUE
  /\ \E n \in ReplayEnds(log) : nextSeq' = LastSeq(log, n) + 1
  /\ UNCHANGED <<log, synced, acked>>

OpenRefused ==
  /\ ~isOpen
  /\ ReplayMayFail(log)
  /\ UNCHANGED walVars

NextRecord(op, whole) == [seq |-> nextSeq, op |-> op, whole |-> whole]

CanWrite == isOpen /\ Len(log) < MaxLog

\* Bug: acknowledged before sync_all.
AppendOk_NotSynced(op) ==
  /\ CanWrite
  /\ log' = Append(log, NextRecord(op, TRUE))
  /\ nextSeq' = nextSeq + 1
  /\ acked' = acked \cup {[pos |-> Len(log) + 1, seq |-> nextSeq, op |-> op]}
  /\ UNCHANGED <<synced, isOpen>>

\* Both writes succeed, and the sync when sync_on_write asks for one.
AppendOk(op) ==
  /\ CanWrite
  /\ log' = Append(log, NextRecord(op, TRUE))
  /\ synced' = IF SyncOnWrite THEN Len(log) + 1 ELSE synced
  /\ nextSeq' = nextSeq + 1
  /\ acked' = acked \cup {[pos |-> Len(log) + 1, seq |-> nextSeq, op |-> op]}
  /\ UNCHANGED isOpen

\* write_all stops inside the prefix or the body. next_seq stays.
AppendTorn(op) ==
  /\ CanWrite
  /\ log' = Append(log, NextRecord(op, FALSE))
  /\ UNCHANGED <<synced, nextSeq, isOpen, acked>>

\* sync_all fails after both writes. next_seq stays, the record too.
AppendUnsynced(op) ==
  /\ CanWrite
  /\ SyncOnWrite
  /\ log' = Append(log, NextRecord(op, TRUE))
  /\ UNCHANGED <<synced, nextSeq, isOpen, acked>>

Sync ==
  /\ isOpen
  /\ synced' = Len(log)
  /\ UNCHANGED <<log, nextSeq, isOpen, acked>>

-----------------------------------------------------------------------------
\* What the machine may leave of the file: at least what was synced, and at most
\* one record of the rest in part.
Survivors(f, n) ==
  {SubSeq(f, 1, k) : k \in n..Len(f)} \cup
  {Append(SubSeq(f, 1, k), [f[k + 1] EXCEPT !.whole = FALSE]) : k \in n..(Len(f) - 1)}

\* The acknowledgement of an entry that was never synced lapses.
Crash ==
  /\ isOpen
  /\ isOpen' = FALSE
  /\ log' \in Survivors(log, synced)
  /\ synced' = Len(log')
  /\ acked' = {a \in acked : a.pos <= synced}
  /\ UNCHANGED nextSeq

WalNext ==
  \/ Open
  \/ OpenRefused
  \/ \E op \in Op : AppendOk(op) \/ AppendTorn(op) \/ AppendUnsynced(op)
  \/ Sync
  \/ Crash

WalSpec == WalInit /\ [][WalNext]_walVars

-----------------------------------------------------------------------------
(* Properties *)

\* An interior torn record or an oversized one is what replay cannot get past.
Clean ==
  /\ \A i \in 1..(Len(log) - 1) : log[i].whole
  /\ \A i \in 1..Len(log) : log[i].op \notin Oversized

\* Every acknowledged append is a whole record of the file, at the place and
\* under the number append() gave it, whatever failed or crashed since.
AckedOnFile ==
  \A a \in acked : /\ a.pos \in 1..Len(log)
                   /\ log[a.pos] = [seq |-> a.seq, op |-> a.op, whole |-> TRUE]

\* The part of the file up to record j holds nothing replay cannot get past, save
\* perhaps that record j is torn.
CleanUpTo(j) ==
  /\ \A i \in 1..(j - 1) : log[i].whole
  /\ \A i \in 1..j : log[i].op \notin Oversized

\* With sync_on_write an acknowledged append outlives every crash.
AckedSurvive == [][SyncOnWrite => acked \subseteq acked']_walVars

\* As long as the file is clean, the number the log hands out next is above every
\* acknowledged one, in particular just after open() recovered it from the file.
NextSeqIsFresh == isOpen /\ Clean => \A a \in acked : a.seq < nextSeq

\* In a clean file acknowledged entries have distinct numbers, in file order: the
\* order in which a replay would apply them is the order of their numbers.
AckedInSeqOrder == Clean => \A a, b \in acked : a.pos < b.pos => a.seq < b.seq

\* Replaying a clean file succeeds and reaches every acknowledged entry.
CleanLogReplays ==
  Clean => /\ ~ReplayMayFail(log)
           /\ \A n \in ReplayEnds(log) : \A a \in acked : a.pos <= n

\* The strengthening under which the properties above are inductive. While a file is
\* dirty nothing is known of its numbers, so the order is stated of every clean
\* prefix: a crash may drop the torn record and make the file clean again.
AckedAreSynced == SyncOnWrite => \A a \in acked : a.pos <= synced

PrefixInSeqOrder ==
  \A j \in 1..Len(log) : CleanUpTo(j) =>
    /\ \A i \in 1..(j - 1) : log[i].seq <= log[j].seq
    /\ \A a \in acked : a.pos < j => a.seq < log[j].seq

NextSeqAboveLog ==
  isOpen /\ Clean => \A i \in 1..Len(log) : log[i].whole => log[i].seq <= nextSeq

WalInv ==
  /\ WalTypeOK
  /\ AckedOnFile
  /\ AckedAreSynced
  /\ PrefixInSeqOrder
  /\ NextSeqAboveLog
  /\ NextSeqIsFresh

\* "Durable, append-only log of all mutations" (wal.rs:2), with sync on each write:
\* whatever a replay returns includes every acknowledged mutation.
AckedAreReplayed ==
  \A n \in ReplayEnds(log) : \A a \in acked : a.pos <= n
=============================================================================
