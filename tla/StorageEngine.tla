---------------------------- MODULE StorageEngine ----------------------------
(***************************************************************************)
(* The storage engine of one node: crates/cdf-storage/src/engine.rs, over  *)
(* its write-ahead log and its memtable.  Concurrent callers insert,       *)
(* delete and get rows; the process may crash and be started again.        *)
(*                                                                         *)
(* Each step of a caller is one the code makes atomically: the append      *)
(* under the lock of the log, the insert into the memtable, the store to   *)
(* the atomic sequence, the lookup under the lock of the map.  Callers     *)
(* interleave between them.  The capacity check of insert is left out: the *)
(* flush it triggers only logs.  Frozen memtables and segments are never   *)
(* filled by the code, so a get looks in the active memtable alone.        *)
(***************************************************************************)
EXTENDS Integers, Sequences

CONSTANTS Client, Key, Value,
          KeysOf,     \* for each client, the rows it writes
          Tombstone,  \* what a deleted row maps to
          Missing,    \* no entry for a row, and the answer of a get of such a row
          None,       \* no call, and no answer
          Ok, Failed, \* answers of a write
          MaxLog,     \* bound: records in the log
          MaxCrashes  \* bound: crashes in a behaviour

Mutation == [kind : {"insert"}, key : Key, val : Value] \cup
            [kind : {"delete"}, key : Key, val : {Tombstone}]
Lookup == [kind : {"get"}, key : Key, val : {Missing}]
Call == Mutation \cup Lookup

ASSUME EngineAssumption ==
  /\ KeysOf \in [Client -> SUBSET Key]
  /\ Tombstone \notin Value
  /\ Missing \notin Value \cup {Tombstone}
  /\ {None, Ok, Failed} \cap (Value \cup {Missing}) = {}
  /\ None \notin {Ok, Failed} \cup Call
  /\ MaxLog \in Nat
  /\ MaxCrashes \in Nat

VARIABLES log, synced, nextSeq, isOpen, acked, \* WriteAheadLog
          data, size,                          \* MemTable
          sequence, \* the engine's high-watermark
          pc,       \* per client, where its call is
          call,     \* per client, the call
          seq,      \* per client, the number its append returned
          answer,   \* per client, what its call returns
          crashes

\* main.rs opens the log with wal_sync: true. Rows are far below the 64 MB limit.
WAL == INSTANCE WriteAheadLog
         WITH Op <- Mutation, Oversized <- {}, SyncOnWrite <- TRUE

Table == INSTANCE MemTable
           WITH Entry <- Value \cup {Tombstone}, Absent <- Missing,
                EntrySize <- 1, MaxSize <- MaxLog

walVars == <<log, synced, nextSeq, isOpen, acked>>
tableVars == <<data, size>>
clientVars == <<pc, call, seq, answer>>
vars == <<walVars, tableVars, sequence, clientVars, crashes>>

TypeOK ==
  /\ WAL!WalTypeOK
  /\ Table!TableTypeOK
  /\ sequence \in Nat
  /\ pc \in [Client -> {"idle", "append", "table", "publish", "lookup", "reply"}]
  /\ call \in [Client -> Call \cup {None}]
  /\ seq \in [Client -> Nat]
  /\ answer \in [Client -> Value \cup {Missing, None, Ok, Failed}]
  /\ crashes \in 0..MaxCrashes

Each(x) == [c \in Client |-> x]

Init ==
  /\ WAL!WalInit
  /\ Table!TableInit
  /\ sequence = 0
  /\ pc = Each("idle")
  /\ call = Each(None)
  /\ seq = Each(0)
  /\ answer = Each(None)
  /\ crashes = 0

-----------------------------------------------------------------------------
(* insert and delete *)

Goto(c, at) == pc' = [pc EXCEPT ![c] = at]

InvokeWrite(c) ==
  /\ isOpen
  /\ pc[c] = "idle"
  /\ \E m \in Mutation : /\ m.key \in KeysOf[c]
                         /\ call' = [call EXCEPT ![c] = m]
  /\ Goto(c, "append")
  /\ UNCHANGED <<walVars, tableVars, sequence, seq, answer, crashes>>

\* Bug: the memtable is written without an entry in the log.
LogWrite_Skipped(c) ==
  /\ pc[c] = "append"
  /\ seq' = [seq EXCEPT ![c] = nextSeq]
  /\ Goto(c, "table")
  /\ UNCHANGED <<walVars, tableVars, sequence, call, answer, crashes>>

LogWrite(c) ==
  /\ pc[c] = "append"
  /\ WAL!AppendOk(call[c])
  /\ seq' = [seq EXCEPT ![c] = nextSeq]
  /\ Goto(c, "table")
  /\ UNCHANGED <<tableVars, sequence, call, answer, crashes>>

\* Bug: the error of append is logged and the insert goes on.
LogWriteFails_Ignored(c) ==
  /\ pc[c] = "append"
  /\ WAL!AppendTorn(call[c]) \/ UNCHANGED walVars
  /\ Goto(c, "table")
  /\ UNCHANGED <<tableVars, sequence, call, seq, answer, crashes>>

\* The encoding or the append fails, with or without bytes in the file.
LogWriteFails(c) ==
  /\ pc[c] = "append"
  /\ \/ WAL!AppendTorn(call[c])
     \/ WAL!AppendUnsynced(call[c])
     \/ UNCHANGED walVars
  /\ answer' = [answer EXCEPT ![c] = Failed]
  /\ Goto(c, "reply")
  /\ UNCHANGED <<tableVars, sequence, call, seq, crashes>>

\* Bug: a tombstone does not replace a row.
TableWrite_KeepsRow(c) ==
  /\ pc[c] = "table"
  /\ Table!Reserve
  /\ data' = IF call[c].kind = "delete" THEN data
             ELSE [data EXCEPT ![call[c].key] = call[c].val]
  /\ Goto(c, "publish")
  /\ UNCHANGED <<walVars, sequence, call, seq, answer, crashes>>

TableWrite(c) ==
  /\ pc[c] = "table"
  /\ Table!Insert(call[c].key, call[c].val)
  /\ Goto(c, "publish")
  /\ UNCHANGED <<walVars, sequence, call, seq, answer, crashes>>

Finish(c) ==
  /\ Goto(c, "idle")
  /\ call' = [call EXCEPT ![c] = None]
  /\ seq' = [seq EXCEPT ![c] = 0]
  /\ answer' = [answer EXCEPT ![c] = None]

\* The sequence is stored and the call returns.
Publish(c) ==
  /\ pc[c] = "publish"
  /\ sequence' = seq[c]
  /\ Finish(c)
  /\ UNCHANGED <<walVars, tableVars, crashes>>

-----------------------------------------------------------------------------
(* get *)

InvokeGet(c) ==
  /\ isOpen
  /\ pc[c] = "idle"
  /\ \E q \in Lookup : call' = [call EXCEPT ![c] = q]
  /\ Goto(c, "lookup")
  /\ UNCHANGED <<walVars, tableVars, sequence, seq, answer, crashes>>

\* Bug: a tombstone is returned as a row.
materialize_Raw(e) == e

materialize(e) == IF e = Tombstone THEN Missing ELSE e

Get(c) ==
  /\ pc[c] = "lookup"
  /\ answer' = [answer EXCEPT ![c] = materialize(data[call[c].key])]
  /\ Goto(c, "reply")
  /\ UNCHANGED <<walVars, tableVars, sequence, call, seq, crashes>>

\* A get, or a write that failed, returns.
Reply(c) ==
  /\ pc[c] = "reply"
  /\ Finish(c)
  /\ UNCHANGED <<walVars, tableVars, sequence, crashes>>

-----------------------------------------------------------------------------
(* crash and open *)

\* The process ends: its memory and the calls under way are gone.
CrashEngine ==
  /\ crashes < MaxCrashes
  /\ WAL!Crash
  /\ data' = Table!EmptyTable
  /\ size' = 0
  /\ sequence' = 0
  /\ pc' = Each("idle")
  /\ call' = Each(None)
  /\ seq' = Each(0)
  /\ answer' = Each(None)
  /\ crashes' = crashes + 1

\* Bug: saturating_sub(1) is forgotten.
OpenEngine_OffByOne ==
  /\ WAL!Open
  /\ sequence' = nextSeq'
  /\ UNCHANGED <<tableVars, clientVars, crashes>>

\* The log is opened, and replayed for its last number only.
OpenEngine ==
  /\ WAL!Open
  /\ sequence' = nextSeq' - 1
  /\ UNCHANGED <<tableVars, clientVars, crashes>>

OpenEngineFails ==
  /\ WAL!OpenRefused
  /\ UNCHANGED <<tableVars, sequence, clientVars, crashes>>

ClientNext(c) ==
  \/ InvokeWrite(c) \/ LogWrite(c) \/ LogWriteFails(c) \/ TableWrite(c) \/ Publish(c)
  \/ InvokeGet(c) \/ Get(c) \/ Reply(c)

Next ==
  \/ \E c \in Client : ClientNext(c)
  \/ CrashEngine \/ OpenEngine \/ OpenEngineFails

Spec == Init /\ [][Next]_vars

-----------------------------------------------------------------------------
(* Properties *)

\* The write-ahead rule: every entry of the memtable was acknowledged by the log
\* first, however the callers interleave and whatever fails.
LogBeforeMemory ==
  \A k \in Key : data[k] # Missing =>
    \E a \in acked : a.op.key = k /\ a.op.val = data[k]

\* The sequence the engine reports is the number of a record in the log, and below
\* the one the next append will take.
SequenceIsLogged ==
  isOpen /\ sequence # 0 => /\ sequence < nextSeq
                            /\ \E i \in 1..Len(log) : log[i].seq = sequence

\* The strengthening under which these are inductive: what a client at each step of
\* its call has done, and what a stopped process has left.
InWrite(c) == pc[c] \in {"append", "table", "publish"}

CallsInStep ==
  \A c \in Client : /\ pc[c] = "idle" <=> call[c] = None
                    /\ InWrite(c) => call[c] \in Mutation
                    /\ pc[c] = "lookup" => call[c] \in Lookup
                    /\ pc[c] = "reply" <=> answer[c] # None

WritesAreLogged ==
  \A c \in Client : pc[c] \in {"table", "publish"} =>
    /\ \E a \in acked : a.op = call[c]
    /\ seq[c] < nextSeq
    /\ \E i \in 1..Len(log) : log[i].seq = seq[c]

StoppedIsEmpty ==
  ~isOpen => /\ \A k \in Key : data[k] = Missing
             /\ \A c \in Client : pc[c] = "idle"

EngineInv ==
  /\ TypeOK
  /\ WAL!WalInv
  /\ CallsInStep
  /\ WritesAreLogged
  /\ StoppedIsEmpty
  /\ LogBeforeMemory
  /\ SequenceIsLogged

\* The entry of a row according to the log: the last one acknowledged.
LoggedEntry(k) ==
  LET ofRow == {a \in acked : a.op.key = k}
  IN  IF ofRow = {} THEN Missing
      ELSE (CHOOSE a \in ofRow : \A b \in ofRow : b.pos <= a.pos).op.val

BeingWritten(k) == \E c \in Client : pc[c] = "table" /\ call[c].key = k

Writers(k) == {c \in Client : k \in KeysOf[c]}

MatchesLog(k) == ~BeingWritten(k) => data[k] = LoggedEntry(k)

\* Until the first crash, a row that one client writes is what the log says of it,
\* whatever the other clients do and whichever of its writes fail.
OwnRowsMatchLog ==
  isOpen /\ crashes = 0 =>
    \A k \in Key : (\E w \in Client : Writers(k) = {w}) => MatchesLog(k)

\* "Write-Ahead Log for crash recovery and replication" (wal.rs:1): the rows a node
\* serves are those its log describes.
MemoryMatchesLog == isOpen => \A k \in Key : MatchesLog(k)

-----------------------------------------------------------------------------
(* The engine implements KeyValueStore: a write takes effect when the memtable is  *)
(* written, a get when it looks the row up.                                        *)

Rows == [k \in Key |-> materialize(data[k])]

Answers == [c \in Client |-> IF pc[c] = "publish" THEN Ok ELSE answer[c]]

KV == INSTANCE KeyValueStore WITH store <- Rows, answer <- Answers

Linearizable == KV!Spec
=============================================================================
