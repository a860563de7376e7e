------------------------- MODULE StorageEngineProofs -------------------------
(***************************************************************************)
(* Proofs about StorageEngine: its inductive invariant, the write-ahead    *)
(* rule, that it drives its log as WriteAheadLog specifies, and that it    *)
(* implements KeyValueStore.  The log's part of the invariant is taken     *)
(* from WriteAheadLogProofs, instantiated for the engine's log.            *)
(***************************************************************************)
EXTENDS StorageEngine, TLAPS

WALProofs == INSTANCE WriteAheadLogProofs
               WITH Op <- Mutation, Oversized <- {}, SyncOnWrite <- TRUE

\* The log the proofs of WriteAheadLog are instantiated for is the engine's: their
\* initial states are the same, and so below are their invariants and their steps.
LEMMA SameInit == WALProofs!WalInit <=> WAL!WalInit
BY DEF WALProofs!WalInit, WAL!WalInit

\* The same of the invariant, in either state of a step.
LEMMA SameInv == /\ WALProofs!WalInv <=> WAL!WalInv
                 /\ WALProofs!WalInv' <=> WAL!WalInv'
BY DEF WALProofs!WalInv, WALProofs!WalTypeOK, WALProofs!Record, WALProofs!Ack,
       WALProofs!AckedOnFile, WALProofs!AckedAreSynced, WALProofs!PrefixInSeqOrder,
       WALProofs!NextSeqAboveLog, WALProofs!NextSeqIsFresh, WALProofs!CleanUpTo,
       WALProofs!Clean,
       WAL!WalInv, WAL!WalTypeOK, WAL!Record, WAL!Ack,
       WAL!AckedOnFile, WAL!AckedAreSynced, WAL!PrefixInSeqOrder,
       WAL!NextSeqAboveLog, WAL!NextSeqIsFresh, WAL!CleanUpTo, WAL!Clean

\* The same of the steps.
LEMMA SameNext == [WALProofs!WalNext]_WALProofs!walVars <=> [WAL!WalNext]_WAL!walVars
BY DEF WALProofs!WalNext, WALProofs!walVars, WALProofs!Open, WALProofs!OpenRefused,
       WALProofs!AppendOk, WALProofs!AppendTorn, WALProofs!AppendUnsynced, WALProofs!Sync,
       WALProofs!Crash, WALProofs!CanWrite, WALProofs!NextRecord, WALProofs!ReplayEnds,
       WALProofs!DecodedEnds, WALProofs!GarbledEnds, WALProofs!DecodesUpTo,
       WALProofs!Decodes, WALProofs!ReplayMayFail, WALProofs!LastSeq, WALProofs!Survivors,
       WAL!WalNext, WAL!walVars, WAL!Open, WAL!OpenRefused,
       WAL!AppendOk, WAL!AppendTorn, WAL!AppendUnsynced, WAL!Sync,
       WAL!Crash, WAL!CanWrite, WAL!NextRecord, WAL!ReplayEnds,
       WAL!DecodedEnds, WAL!GarbledEnds, WAL!DecodesUpTo,
       WAL!Decodes, WAL!ReplayMayFail, WAL!LastSeq, WAL!Survivors

\* The assumption of WriteAheadLog holds of the log the engine opens.
LEMMA LogAssumption == WALProofs!WalAssumption
<1>1. {} \subseteq Mutation /\ TRUE \in BOOLEAN /\ MaxLog \in Nat
  BY EngineAssumption DEF EngineAssumption
<1>2. QED
  BY <1>1 DEF WALProofs!WalAssumption

\* The invariant of the log holds of the engine's log at the start.
LEMMA LogInitInv == WAL!WalInit => WAL!WalInv
BY SameInit, SameInv, LogAssumption, WALProofs!WalInitInv

\* A step of the log inside the engine keeps the invariant of the log.
LEMMA LogNextInv == WAL!WalInv /\ [WAL!WalNext]_WAL!walVars => WAL!WalInv'
BY SameInv, SameNext, LogAssumption, WALProofs!WalNextInv

-----------------------------------------------------------------------------

\* Every step of the engine is a step of its log or leaves the log alone.
LEMMA EngineStepsLog ==
  ASSUME EngineInv, [Next]_vars
  PROVE  [WAL!WalNext]_WAL!walVars
<1>1. ASSUME NEW c \in Client, ClientNext(c)
      PROVE  [WAL!WalNext]_WAL!walVars
  <2>1. CASE LogWrite(c) \/ LogWriteFails(c)
    <3>1. call[c] \in Mutation
      BY <2>1 DEF LogWrite, LogWriteFails, EngineInv, CallsInStep, InWrite
    <3>2. \/ WAL!AppendOk(call[c]) \/ WAL!AppendTorn(call[c]) \/ WAL!AppendUnsynced(call[c])
          \/ UNCHANGED walVars
      BY <2>1 DEF LogWrite, LogWriteFails
    <3>3. QED
      BY <3>1, <3>2 DEF WAL!WalNext, WAL!walVars, walVars
  <2>2. CASE InvokeWrite(c) \/ TableWrite(c) \/ Publish(c) \/ InvokeGet(c) \/ Get(c) \/ Reply(c)
    BY <2>2 DEF InvokeWrite, TableWrite, Publish, InvokeGet, Get, Reply, walVars, WAL!walVars
  <2>3. QED
    BY <1>1, <2>1, <2>2 DEF ClientNext
<1>2. CASE CrashEngine \/ OpenEngine \/ OpenEngineFails
  BY <1>2 DEF CrashEngine, OpenEngine, OpenEngineFails, WAL!WalNext
<1>3. CASE UNCHANGED vars
  BY <1>3 DEF vars, walVars, WAL!walVars
<1>4. QED
  BY <1>1, <1>2, <1>3 DEF Next

\* While it runs, the log only grows at its end and its next number only rises.
LEMMA RunningLogGrows ==
  ASSUME EngineInv, Next, ~CrashEngine
  PROVE  /\ acked \subseteq acked'
         /\ Len(log) <= Len(log')
         /\ \A i \in 1..Len(log) : log'[i] = log[i]
         /\ isOpen => nextSeq' >= nextSeq /\ isOpen'
<1>0. WAL!WalTypeOK /\ log \in Seq(WAL!Record) /\ nextSeq \in Nat
  BY DEF EngineInv, TypeOK, WAL!WalTypeOK
<1>1. ASSUME NEW c \in Client, LogWrite(c) \/ LogWriteFails(c)
      PROVE  /\ acked \subseteq acked'
             /\ Len(log) <= Len(log')
             /\ \A i \in 1..Len(log) : log'[i] = log[i]
             /\ isOpen => nextSeq' >= nextSeq /\ isOpen'
  <2>1. call[c] \in Mutation
    BY <1>1 DEF LogWrite, LogWriteFails, EngineInv, CallsInStep, InWrite
  <2>2. CASE UNCHANGED walVars
    BY <2>2, <1>0 DEF walVars
  <2>3. CASE WAL!AppendOk(call[c]) \/ WAL!AppendTorn(call[c]) \/ WAL!AppendUnsynced(call[c])
    <3>1. PICK w \in BOOLEAN : log' = Append(log, WAL!NextRecord(call[c], w))
      BY <2>3 DEF WAL!AppendOk, WAL!AppendTorn, WAL!AppendUnsynced
    <3> DEFINE r == WAL!NextRecord(call[c], w)
    <3>2. r \in WAL!Record
      BY <1>0, <2>1 DEF WAL!NextRecord, WAL!Record
    <3> HIDE DEF r
    <3>3. log' = Append(log, r)
      BY <3>1 DEF r
    <3>4. Len(log) <= Len(log') /\ (\A i \in 1..Len(log) : log'[i] = log[i])
      BY <1>0, <3>2, <3>3
    <3>5. acked \subseteq acked'
      BY <2>3 DEF WAL!AppendOk, WAL!AppendTorn, WAL!AppendUnsynced
    <3>6. nextSeq' = nextSeq \/ nextSeq' = nextSeq + 1
      BY <2>3 DEF WAL!AppendOk, WAL!AppendTorn, WAL!AppendUnsynced
    <3>7. isOpen' = isOpen
      BY <2>3 DEF WAL!AppendOk, WAL!AppendTorn, WAL!AppendUnsynced
    <3>8. QED
      BY <1>0, <3>4, <3>5, <3>6, <3>7
  <2>4. QED
    BY <1>1, <2>2, <2>3 DEF LogWrite, LogWriteFails
<1>2. ASSUME UNCHANGED walVars
      PROVE  /\ acked \subseteq acked'
             /\ Len(log) <= Len(log')
             /\ \A i \in 1..Len(log) : log'[i] = log[i]
             /\ isOpen => nextSeq' >= nextSeq /\ isOpen'
  BY <1>0, <1>2 DEF walVars
<1>3. CASE OpenEngine
  BY <1>0, <1>3 DEF OpenEngine, WAL!Open
<1>4. CASE OpenEngineFails
  BY <1>0, <1>2, <1>4 DEF OpenEngineFails, WAL!OpenRefused, walVars, WAL!walVars
<1>5. ASSUME NEW c \in Client, ClientNext(c), ~LogWrite(c), ~LogWriteFails(c)
      PROVE  UNCHANGED walVars
  BY <1>5 DEF ClientNext, InvokeWrite, TableWrite, Publish, InvokeGet, Get, Reply
<1>6. QED
  BY <1>1, <1>2, <1>3, <1>4, <1>5 DEF Next

-----------------------------------------------------------------------------
(* The inductive invariant, conjunct by conjunct *)

\* The initial state satisfies the invariant.
LEMMA EngineInitInv == Init => EngineInv
<1> SUFFICES ASSUME Init PROVE EngineInv
  OBVIOUS
<1>1. WAL!WalInv /\ WAL!WalTypeOK /\ isOpen = FALSE
  BY LogInitInv DEF Init, WAL!WalInv, WAL!WalInit
<1>2. /\ data = [k \in Key |-> Missing] /\ size = 0 /\ sequence = 0 /\ crashes = 0
      /\ pc = [c \in Client |-> "idle"] /\ call = [c \in Client |-> None]
      /\ seq = [c \in Client |-> 0] /\ answer = [c \in Client |-> None]
  BY DEF Init, Table!TableInit, Table!EmptyTable, Each
<1>3. TypeOK
  BY <1>1, <1>2, EngineAssumption DEF EngineAssumption, TypeOK, Table!TableTypeOK
<1>4. CallsInStep /\ WritesAreLogged /\ StoppedIsEmpty /\ LogBeforeMemory /\ SequenceIsLogged
  BY <1>1, <1>2
     DEF CallsInStep, InWrite, WritesAreLogged, StoppedIsEmpty, LogBeforeMemory,
         SequenceIsLogged
<1>5. QED
  BY <1>1, <1>3, <1>4 DEF EngineInv

\* Every step keeps the types of what the engine adds to its log.
LEMMA EngineType ==
  ASSUME EngineInv, Next, WAL!WalInv'
  PROVE  TypeOK'
<1>0. /\ TypeOK /\ WAL!WalTypeOK' /\ nextSeq \in Nat \ {0} /\ nextSeq' \in Nat \ {0}
      /\ data \in [Key -> Value \cup {Tombstone, Missing}] /\ size \in Nat
  BY DEF EngineInv, TypeOK, WAL!WalInv, WAL!WalTypeOK, Table!TableTypeOK
<1>1. ASSUME NEW c \in Client, InvokeWrite(c) \/ InvokeGet(c) PROVE TypeOK'
  BY <1>0, <1>1 DEF InvokeWrite, InvokeGet, TypeOK, Table!TableTypeOK, tableVars, Goto, Call
<1>2. ASSUME NEW c \in Client, LogWrite(c) \/ LogWriteFails(c) PROVE TypeOK'
  BY <1>0, <1>2 DEF LogWrite, LogWriteFails, TypeOK, Table!TableTypeOK, tableVars, Goto
<1>3. ASSUME NEW c \in Client, TableWrite(c) PROVE TypeOK'
  <2>1. call[c] \in Mutation
    BY <1>3 DEF TableWrite, EngineInv, CallsInStep, InWrite
  <2>2. call[c].key \in Key /\ call[c].val \in Value \cup {Tombstone}
    BY <2>1 DEF Mutation
  <2>3. data' = [data EXCEPT ![call[c].key] = call[c].val] /\ size' = size + 1
    BY <1>3 DEF TableWrite, Table!Insert, Table!Put, Table!Reserve
  <2>4. data' \in [Key -> Value \cup {Tombstone, Missing}] /\ size' \in Nat
    BY <1>0, <2>2, <2>3
  <2>5. QED
    BY <1>0, <1>3, <2>4 DEF TableWrite, TypeOK, Table!TableTypeOK, Goto
<1>4. ASSUME NEW c \in Client, Publish(c) \/ Reply(c) PROVE TypeOK'
  BY <1>0, <1>4 DEF Publish, Reply, Finish, TypeOK, Table!TableTypeOK, tableVars, Goto
<1>5. ASSUME NEW c \in Client, Get(c) PROVE TypeOK'
  <2>1. call[c] \in Lookup
    BY <1>5 DEF Get, EngineInv, CallsInStep
  <2>2. call[c].key \in Key
    BY <2>1 DEF Lookup
  <2>3. materialize(data[call[c].key]) \in Value \cup {Missing}
    BY <1>0, <2>2 DEF materialize
  <2>4. QED
    BY <1>0, <1>5, <2>3 DEF Get, TypeOK, Table!TableTypeOK, tableVars, Goto
<1>6. CASE CrashEngine
  BY <1>0, <1>6, EngineAssumption
     DEF EngineAssumption, CrashEngine, TypeOK, Table!TableTypeOK, Table!EmptyTable, Each
<1>7. CASE OpenEngine \/ OpenEngineFails
  BY <1>0, <1>7 DEF OpenEngine, OpenEngineFails, TypeOK, Table!TableTypeOK, tableVars,
                    clientVars
<1>8. QED
  BY <1>1, <1>2, <1>3, <1>4, <1>5, <1>6, <1>7 DEF Next, ClientNext

\* Every step leaves each client with the call and the answer its place implies.
LEMMA EngineCalls ==
  ASSUME EngineInv, Next
  PROVE  CallsInStep'
<1>0. /\ TypeOK /\ CallsInStep /\ None \notin Mutation /\ None \notin Lookup
      /\ pc \in [Client -> {"idle", "append", "table", "publish", "lookup", "reply"}]
      /\ call \in [Client -> Call \cup {None}]
      /\ answer \in [Client -> Value \cup {Missing, None, Ok, Failed}]
  BY EngineAssumption DEF EngineAssumption, EngineInv, TypeOK, Call
<1> SUFFICES ASSUME NEW d \in Client
             PROVE  /\ pc'[d] = "idle" <=> call'[d] = None
                    /\ pc'[d] \in {"append", "table", "publish"} => call'[d] \in Mutation
                    /\ pc'[d] = "lookup" => call'[d] \in Lookup
                    /\ pc'[d] = "reply" <=> answer'[d] # None
  BY DEF CallsInStep, InWrite
<1>1. /\ pc[d] = "idle" <=> call[d] = None
      /\ pc[d] \in {"append", "table", "publish"} => call[d] \in Mutation
      /\ pc[d] = "lookup" => call[d] \in Lookup
      /\ pc[d] = "reply" <=> answer[d] # None
  BY <1>0 DEF CallsInStep, InWrite
<1>2. ASSUME NEW c \in Client, InvokeWrite(c) \/ InvokeGet(c)
      PROVE  /\ pc'[d] = "idle" <=> call'[d] = None
             /\ pc'[d] \in {"append", "table", "publish"} => call'[d] \in Mutation
             /\ pc'[d] = "lookup" => call'[d] \in Lookup
             /\ pc'[d] = "reply" <=> answer'[d] # None
  BY <1>0, <1>1, <1>2 DEF InvokeWrite, InvokeGet, Goto
<1>3. ASSUME NEW c \in Client,
             LogWrite(c) \/ LogWriteFails(c) \/ TableWrite(c)
      PROVE  /\ pc'[d] = "idle" <=> call'[d] = None
             /\ pc'[d] \in {"append", "table", "publish"} => call'[d] \in Mutation
             /\ pc'[d] = "lookup" => call'[d] \in Lookup
             /\ pc'[d] = "reply" <=> answer'[d] # None
  BY <1>0, <1>1, <1>3, EngineAssumption
     DEF EngineAssumption, LogWrite, LogWriteFails, TableWrite, Goto
<1>4. ASSUME NEW c \in Client, Get(c)
      PROVE  /\ pc'[d] = "idle" <=> call'[d] = None
             /\ pc'[d] \in {"append", "table", "publish"} => call'[d] \in Mutation
             /\ pc'[d] = "lookup" => call'[d] \in Lookup
             /\ pc'[d] = "reply" <=> answer'[d] # None
  <2>1. call[c] \in Lookup
    BY <1>0, <1>4 DEF Get, CallsInStep
  <2>2. call[c].key \in Key
    BY <2>1 DEF Lookup
  <2>3. materialize(data[call[c].key]) # None
    <3>1. data[call[c].key] \in Value \cup {Tombstone, Missing}
      BY <1>0, <2>2 DEF TypeOK, Table!TableTypeOK
    <3>2. QED
      BY <3>1, EngineAssumption DEF EngineAssumption, materialize
  <2>4. QED
    BY <1>0, <1>1, <1>4, <2>3 DEF Get, Goto
<1>5. ASSUME NEW c \in Client, Publish(c) \/ Reply(c)
      PROVE  /\ pc'[d] = "idle" <=> call'[d] = None
             /\ pc'[d] \in {"append", "table", "publish"} => call'[d] \in Mutation
             /\ pc'[d] = "lookup" => call'[d] \in Lookup
             /\ pc'[d] = "reply" <=> answer'[d] # None
  BY <1>0, <1>1, <1>5 DEF Publish, Reply, Finish, Goto
<1>6. CASE CrashEngine
  BY <1>6 DEF CrashEngine, Each
<1>7. CASE OpenEngine \/ OpenEngineFails
  BY <1>1, <1>7 DEF OpenEngine, OpenEngineFails, clientVars
<1>8. QED
  BY <1>2, <1>3, <1>4, <1>5, <1>6, <1>7 DEF Next, ClientNext

\* Which step takes a client to "table" or "publish", and from where.
LEMMA EngineWritesLogged ==
  ASSUME EngineInv, Next
  PROVE  WritesAreLogged'
<1>0. /\ TypeOK /\ WritesAreLogged /\ CallsInStep
      /\ pc \in [Client -> {"idle", "append", "table", "publish", "lookup", "reply"}]
      /\ call \in [Client -> Call \cup {None}]
      /\ seq \in [Client -> Nat]
      /\ log \in Seq(WAL!Record) /\ nextSeq \in Nat
  BY DEF EngineInv, TypeOK, WAL!WalTypeOK
<1> SUFFICES ASSUME NEW d \in Client, pc'[d] \in {"table", "publish"}
             PROVE  /\ \E a \in acked' : a.op = call'[d]
                    /\ seq'[d] < nextSeq'
                    /\ \E i \in 1..Len(log') : log'[i].seq = seq'[d]
  BY DEF WritesAreLogged
<1>1. CASE LogWrite(d)
  <2>1. call[d] \in Mutation
    BY <1>0, <1>1 DEF LogWrite, CallsInStep, InWrite
  <2> DEFINE r == WAL!NextRecord(call[d], TRUE)
             new == [pos |-> Len(log) + 1, seq |-> nextSeq, op |-> call[d]]
  <2>2. r \in WAL!Record /\ r.seq = nextSeq
    BY <1>0, <2>1 DEF WAL!NextRecord, WAL!Record
  <2>3. new.op = call[d]
    OBVIOUS
  <2>4. log' = Append(log, r) /\ acked' = acked \cup {new} /\ nextSeq' = nextSeq + 1
    BY <1>1 DEF LogWrite, WAL!AppendOk
  <2> HIDE DEF r, new
  <2>5. Len(log') = Len(log) + 1 /\ log'[Len(log) + 1] = r /\ Len(log) \in Nat
    BY <1>0, <2>2, <2>4
  <2>6. call' = call /\ seq'[d] = nextSeq
    BY <1>0, <1>1 DEF LogWrite
  <2>7. \E a \in acked' : a.op = call'[d]
    BY <2>3, <2>4, <2>6
  <2>8. \E i \in 1..Len(log') : log'[i].seq = seq'[d]
    BY <2>2, <2>5, <2>6
  <2>9. QED
    BY <1>0, <2>4, <2>6, <2>7, <2>8
<1>2. ASSUME ~LogWrite(d)
      PROVE  /\ pc[d] \in {"table", "publish"}
             /\ call'[d] = call[d] /\ seq'[d] = seq[d]
             /\ ~CrashEngine
  <2>1. ~CrashEngine
    BY DEF CrashEngine, Each
  <2>2. ASSUME NEW c \in Client, InvokeWrite(c) \/ LogWriteFails(c) \/ InvokeGet(c) \/ Get(c)
        PROVE  pc[d] \in {"table", "publish"} /\ call'[d] = call[d] /\ seq'[d] = seq[d]
    BY <1>0, <2>2 DEF InvokeWrite, LogWriteFails, InvokeGet, Get, Goto
  <2>3. ASSUME NEW c \in Client, LogWrite(c) \/ TableWrite(c)
        PROVE  pc[d] \in {"table", "publish"} /\ call'[d] = call[d] /\ seq'[d] = seq[d]
    BY <1>0, <1>2, <2>3 DEF LogWrite, TableWrite, Goto
  <2>4. ASSUME NEW c \in Client, Publish(c) \/ Reply(c)
        PROVE  pc[d] \in {"table", "publish"} /\ call'[d] = call[d] /\ seq'[d] = seq[d]
    BY <1>0, <2>4 DEF Publish, Reply, Finish, Goto
  <2>5. CASE OpenEngine \/ OpenEngineFails
    BY <2>1, <2>5 DEF OpenEngine, OpenEngineFails, clientVars
  <2>6. QED
    BY <2>1, <2>2, <2>3, <2>4, <2>5 DEF Next, ClientNext
<1>3. ASSUME ~LogWrite(d)
      PROVE  /\ \E a \in acked' : a.op = call'[d]
             /\ seq'[d] < nextSeq'
             /\ \E i \in 1..Len(log') : log'[i].seq = seq'[d]
  <2>1. /\ pc[d] \in {"table", "publish"} /\ call'[d] = call[d] /\ seq'[d] = seq[d]
        /\ ~CrashEngine
    BY <1>2, <1>3
  <2>2. /\ \E a \in acked : a.op = call[d]
        /\ seq[d] < nextSeq
        /\ \E i \in 1..Len(log) : log[i].seq = seq[d]
    BY <1>0, <2>1 DEF WritesAreLogged
  <2>3. isOpen
    BY <2>1 DEF EngineInv, StoppedIsEmpty
  <2>4. /\ acked \subseteq acked' /\ Len(log) <= Len(log')
        /\ \A i \in 1..Len(log) : log'[i] = log[i]
        /\ nextSeq' >= nextSeq
    BY <2>1, <2>3, RunningLogGrows
  <2>5. seq'[d] < nextSeq'
    <3>1. nextSeq' \in Nat
      <4>1. WAL!WalInv'
        BY EngineStepsLog, LogNextInv DEF EngineInv
      <4>2. QED
        BY <4>1 DEF WAL!WalInv, WAL!WalTypeOK
    <3>2. QED
      BY <1>0, <2>1, <2>2, <2>4, <3>1
  <2>6. \E i \in 1..Len(log') : log'[i].seq = seq'[d]
    <3>1. PICK i \in 1..Len(log) : log[i].seq = seq[d]
      BY <2>2
    <3>2. Len(log') \in Nat /\ Len(log) \in Nat
      <4>1. WAL!WalInv'
        BY EngineStepsLog, LogNextInv DEF EngineInv
      <4>2. QED
        BY <1>0, <4>1 DEF WAL!WalInv, WAL!WalTypeOK
    <3>3. i \in 1..Len(log') /\ log'[i].seq = seq'[d]
      BY <2>1, <2>4, <3>1, <3>2
    <3>4. QED
      BY <3>3
  <2>7. QED
    BY <2>1, <2>2, <2>4, <2>5, <2>6
<1>4. QED
  BY <1>1, <1>3

\* A stopped process has no rows in memory and no call under way.
LEMMA EngineStopped ==
  ASSUME EngineInv, Next
  PROVE  StoppedIsEmpty'
<1>0. /\ StoppedIsEmpty /\ TypeOK
      /\ pc \in [Client -> {"idle", "append", "table", "publish", "lookup", "reply"}]
  BY DEF EngineInv, TypeOK
<1>1. CASE CrashEngine
  BY <1>1 DEF CrashEngine, StoppedIsEmpty, Table!EmptyTable, Each
<1>2. CASE OpenEngine
  BY <1>2 DEF OpenEngine, WAL!Open, StoppedIsEmpty
<1>3. CASE OpenEngineFails
  BY <1>0, <1>3
     DEF OpenEngineFails, WAL!OpenRefused, WAL!walVars, tableVars, clientVars, StoppedIsEmpty
<1>4. ASSUME NEW c \in Client, ClientNext(c)
      PROVE  StoppedIsEmpty'
  <2>1. isOpen
    <3>1. isOpen \/ pc[c] = "idle"
      BY <1>0 DEF StoppedIsEmpty
    <3>2. QED
      BY <1>4, <3>1 DEF ClientNext, InvokeWrite, LogWrite, LogWriteFails, TableWrite,
                        Publish, InvokeGet, Get, Reply
  <2>2. ~CrashEngine
    <3>1. CrashEngine => isOpen' = FALSE
      BY DEF CrashEngine, WAL!Crash
    <3>2. CASE LogWrite(c) \/ LogWriteFails(c)
      BY <2>1, <3>1, <3>2
         DEF LogWrite, LogWriteFails, WAL!AppendOk, WAL!AppendTorn, WAL!AppendUnsynced, walVars
    <3>3. CASE ~LogWrite(c) /\ ~LogWriteFails(c)
      BY <1>4, <2>1, <3>1, <3>3
         DEF ClientNext, InvokeWrite, TableWrite, Publish, InvokeGet, Get, Reply, walVars
    <3>4. QED
      BY <3>2, <3>3
  <2>3. isOpen'
    BY <2>1, <2>2, RunningLogGrows
  <2>4. QED
    BY <2>3 DEF StoppedIsEmpty
<1>5. QED
  BY <1>1, <1>2, <1>3, <1>4 DEF Next

\* Only a client whose write is logged puts an entry in the memtable.
LEMMA EngineLogFirst ==
  ASSUME EngineInv, Next
  PROVE  LogBeforeMemory'
<1>0. /\ LogBeforeMemory /\ WritesAreLogged /\ CallsInStep
      /\ data \in [Key -> Value \cup {Tombstone, Missing}]
  BY DEF EngineInv, TypeOK, Table!TableTypeOK
<1>1. CASE CrashEngine
  BY <1>1 DEF CrashEngine, LogBeforeMemory, Table!EmptyTable
<1>2. ASSUME ~CrashEngine PROVE acked \subseteq acked'
  BY <1>2, RunningLogGrows
<1>3. ASSUME NEW c \in Client, TableWrite(c) PROVE LogBeforeMemory'
  <2>1. PICK a \in acked : a.op = call[c]
    BY <1>0, <1>3 DEF TableWrite, WritesAreLogged
  <2>2. call[c].key \in Key
    BY <1>0, <1>3 DEF TableWrite, CallsInStep, InWrite, Mutation
  <2>3. data' = [data EXCEPT ![call[c].key] = call[c].val] /\ acked' = acked
    BY <1>3 DEF TableWrite, Table!Insert, Table!Put, walVars
  <2>4. QED
    BY <1>0, <2>1, <2>2, <2>3 DEF LogBeforeMemory
<1>4. ASSUME ~CrashEngine, \A c \in Client : ~TableWrite(c)
      PROVE  LogBeforeMemory'
  <2>1. data' = data
    BY <1>4 DEF Next, ClientNext, InvokeWrite, LogWrite, LogWriteFails, Publish, InvokeGet,
                Get, Reply, OpenEngine, OpenEngineFails, tableVars
  <2>2. QED
    BY <1>0, <1>2, <1>4, <2>1 DEF LogBeforeMemory
<1>5. QED
  BY <1>1, <1>3, <1>4

\* The sequence is set to the number of a logged write, or on opening to the number
\* of the last entry read.
LEMMA EngineSequence ==
  ASSUME EngineInv, Next
  PROVE  SequenceIsLogged'
<1>0. /\ SequenceIsLogged /\ WritesAreLogged /\ StoppedIsEmpty
      /\ seq \in [Client -> Nat] /\ sequence \in Nat
      /\ log \in Seq(WAL!Record) /\ Len(log) \in Nat /\ nextSeq \in Nat
  BY DEF EngineInv, TypeOK, WAL!WalTypeOK
<1>1. Len(log') \in Nat /\ nextSeq' \in Nat
  <2>1. WAL!WalInv'
    BY EngineStepsLog, LogNextInv DEF EngineInv
  <2>2. QED
    BY <2>1 DEF WAL!WalInv, WAL!WalTypeOK
<1>2. CASE CrashEngine
  BY <1>2 DEF CrashEngine, SequenceIsLogged
<1>3. CASE OpenEngine
  <2>1. PICK n \in WAL!ReplayEnds(log) : nextSeq' = WAL!LastSeq(log, n) + 1
    BY <1>3 DEF OpenEngine, WAL!Open
  <2>2. n \in 0..Len(log)
    BY <1>0, <2>1 DEF WAL!ReplayEnds, WAL!DecodedEnds, WAL!GarbledEnds
  <2>3. WAL!LastSeq(log, n) \in Nat
    <3>1. n # 0 => log[n] \in WAL!Record
      BY <1>0, <2>2
    <3>2. QED
      BY <3>1 DEF WAL!LastSeq, WAL!Record
  <2>4. log' = log /\ sequence' = nextSeq' - 1
    BY <1>3 DEF OpenEngine, WAL!Open
  <2>5. sequence' = WAL!LastSeq(log, n)
    BY <2>1, <2>3, <2>4
  <2>6. sequence' # 0 => \E i \in 1..Len(log') : log'[i].seq = sequence'
    BY <1>0, <2>2, <2>4, <2>5 DEF WAL!LastSeq
  <2>7. sequence' < nextSeq'
    BY <2>1, <2>3, <2>5
  <2>8. QED
    BY <2>6, <2>7 DEF SequenceIsLogged
<1>4. ASSUME NEW c \in Client, Publish(c) PROVE SequenceIsLogged'
  <2>1. seq[c] < nextSeq /\ (\E i \in 1..Len(log) : log[i].seq = seq[c])
    BY <1>0, <1>4 DEF Publish, WritesAreLogged
  <2>2. sequence' = seq[c] /\ log' = log /\ nextSeq' = nextSeq
    BY <1>4 DEF Publish, walVars
  <2>3. QED
    BY <2>1, <2>2 DEF SequenceIsLogged
<1>5. ASSUME ~CrashEngine, ~OpenEngine, \A c \in Client : ~Publish(c)
      PROVE  SequenceIsLogged'
  <2>1. sequence' = sequence
    BY <1>5 DEF Next, ClientNext, InvokeWrite, LogWrite, LogWriteFails, TableWrite,
                InvokeGet, Get, Reply, OpenEngineFails
  <2>2. isOpen' => isOpen
    BY <1>5 DEF Next, ClientNext, InvokeWrite, LogWrite, LogWriteFails, TableWrite,
                InvokeGet, Get, Reply, OpenEngineFails, WAL!OpenRefused, WAL!walVars, walVars,
                WAL!AppendOk, WAL!AppendTorn, WAL!AppendUnsynced
  <2>3. /\ Len(log) <= Len(log')
        /\ \A i \in 1..Len(log) : log'[i] = log[i]
        /\ isOpen => nextSeq' >= nextSeq
    BY <1>5, RunningLogGrows
  <2>4. SUFFICES ASSUME isOpen', sequence # 0
                 PROVE  /\ sequence < nextSeq'
                        /\ \E i \in 1..Len(log') : log'[i].seq = sequence
    BY <2>1 DEF SequenceIsLogged
  <2>5. sequence < nextSeq /\ (\E i \in 1..Len(log) : log[i].seq = sequence)
    BY <1>0, <2>2, <2>4 DEF SequenceIsLogged
  <2>6. sequence < nextSeq'
    BY <1>0, <1>1, <2>2, <2>3, <2>4, <2>5
  <2>7. PICK i \in 1..Len(log) : log[i].seq = sequence
    BY <2>5
  <2>8. i \in 1..Len(log') /\ log'[i].seq = sequence
    BY <1>0, <1>1, <2>3, <2>7
  <2>9. QED
    BY <2>6, <2>8
<1>6. QED
  BY <1>2, <1>3, <1>4, <1>5

\* Every step of the engine keeps its invariant.
LEMMA EngineNextInv == EngineInv /\ [Next]_vars => EngineInv'
<1> SUFFICES ASSUME EngineInv, [Next]_vars PROVE EngineInv'
  OBVIOUS
<1>1. WAL!WalInv'
  BY EngineStepsLog, LogNextInv DEF EngineInv
<1>2. CASE Next
  BY <1>1, <1>2, EngineType, EngineCalls, EngineWritesLogged, EngineStopped, EngineLogFirst,
     EngineSequence DEF EngineInv
<1>3. CASE UNCHANGED vars
  <2>1. /\ UNCHANGED log /\ UNCHANGED synced /\ UNCHANGED nextSeq /\ UNCHANGED isOpen
        /\ UNCHANGED acked /\ UNCHANGED data /\ UNCHANGED size /\ UNCHANGED sequence
        /\ UNCHANGED pc /\ UNCHANGED call /\ UNCHANGED seq /\ UNCHANGED answer
        /\ UNCHANGED crashes
    BY <1>3 DEF vars, walVars, tableVars, clientVars
  <2>2. TypeOK'
    BY <1>1, <2>1 DEF EngineInv, TypeOK, Table!TableTypeOK, WAL!WalInv
  <2>3. CallsInStep' /\ WritesAreLogged' /\ StoppedIsEmpty'
    BY <2>1 DEF EngineInv, CallsInStep, InWrite, WritesAreLogged, StoppedIsEmpty
  <2>4. LogBeforeMemory' /\ SequenceIsLogged'
    BY <2>1 DEF EngineInv, LogBeforeMemory, SequenceIsLogged
  <2>5. QED
    BY <1>1, <2>2, <2>3, <2>4 DEF EngineInv
<1>4. QED
  BY <1>2, <1>3

-----------------------------------------------------------------------------

\* The strengthened invariant of the engine.
THEOREM EngineInvariant == Spec => []EngineInv
<1>1. Init => EngineInv
  BY EngineInitInv
<1>2. EngineInv /\ [Next]_vars => EngineInv'
  BY EngineNextInv
<1>3. QED
  BY <1>1, <1>2, PTL DEF Spec

\* Type correctness of the engine with its log and its memtable.
THEOREM EngineTypeCorrect == Spec => []TypeOK
<1>1. EngineInv => TypeOK
  BY DEF EngineInv
<1>2. QED
  BY <1>1, EngineInvariant, PTL

\* The write-ahead rule, for any number of callers, rows, failures and crashes.
THEOREM LogFirst == Spec => []LogBeforeMemory
<1>1. EngineInv => LogBeforeMemory
  BY DEF EngineInv
<1>2. QED
  BY <1>1, EngineInvariant, PTL

\* The reported sequence is always the number of a record of the log.
THEOREM SequenceNamesARecord == Spec => []SequenceIsLogged
<1>1. EngineInv => SequenceIsLogged
  BY DEF EngineInv
<1>2. QED
  BY <1>1, EngineInvariant, PTL

\* The engine drives its log as WriteAheadLog allows, so what is proved of that
\* specification holds of the log inside the engine.
THEOREM EngineUsesLog == Spec => WAL!WalSpec
<1>1. Init => WAL!WalInit
  BY DEF Init
<1>2. EngineInv /\ [Next]_vars => [WAL!WalNext]_WAL!walVars
  BY EngineStepsLog
<1>3. QED
  BY <1>1, <1>2, EngineInvariant, PTL DEF Spec, WAL!WalSpec

-----------------------------------------------------------------------------
(* Refinement of KeyValueStore *)

\* The engine starts as an empty store.
LEMMA InitRefines == Init => KV!Init
<1> SUFFICES ASSUME Init PROVE KV!Init
  OBVIOUS
<1>1. materialize(Missing) = Missing
  BY DEF materialize
<1>2. Rows = [k \in Key |-> Missing]
  BY <1>1 DEF Init, Table!TableInit, Table!EmptyTable, Rows
<1>3. Answers = [c \in Client |-> None]
  BY DEF Init, Each, Answers
<1>4. QED
  BY <1>2, <1>3 DEF Init, Each, KV!Init

\* The steps of one call, each seen from the abstract store.
LEMMA CallRefines ==
  ASSUME EngineInv, NEW c \in Client, ClientNext(c)
  PROVE  KV!Next \/ UNCHANGED KV!vars
<1>0. /\ pc \in [Client -> {"idle", "append", "table", "publish", "lookup", "reply"}]
      /\ call \in [Client -> Call \cup {None}]
      /\ answer \in [Client -> Value \cup {Missing, None, Ok, Failed}]
      /\ data \in [Key -> Value \cup {Tombstone, Missing}]
      /\ CallsInStep
      /\ None \notin Call /\ Ok # None /\ Failed # None
  BY EngineAssumption
     DEF EngineAssumption, EngineInv, TypeOK, Table!TableTypeOK
<1>1. /\ pc[c] = "idle" <=> call[c] = None
      /\ pc[c] \in {"append", "table", "publish"} => call[c] \in Mutation
      /\ pc[c] = "lookup" => call[c] \in Lookup
      /\ pc[c] = "reply" <=> answer[c] # None
  BY <1>0 DEF CallsInStep, InWrite
<1>2. CASE InvokeWrite(c) \/ InvokeGet(c)
  <2>1. /\ call[c] = None /\ (\E q \in Call : call' = [call EXCEPT ![c] = q])
    BY <1>1, <1>2 DEF InvokeWrite, InvokeGet, Call
  <2>2. Rows' = Rows
    BY <1>2 DEF InvokeWrite, InvokeGet, tableVars, Rows
  <2>3. Answers' = Answers
    BY <1>0, <1>2 DEF InvokeWrite, InvokeGet, Goto, Answers
  <2>4. KV!Invoke(c)
    BY <2>1, <2>2, <2>3 DEF KV!Invoke
  <2>5. QED
    BY <2>4 DEF KV!Next
<1>3. CASE LogWrite(c)
  <2>1. Rows' = Rows /\ call' = call
    BY <1>3 DEF LogWrite, tableVars, Rows
  <2>2. Answers' = Answers
    BY <1>0, <1>3 DEF LogWrite, Goto, Answers
  <2>3. QED
    BY <2>1, <2>2 DEF KV!vars
<1>4. CASE LogWriteFails(c)
  <2>1. Rows' = Rows /\ call' = call
    BY <1>4 DEF LogWriteFails, tableVars, Rows
  <2>2. /\ Answers[c] = None /\ Answers' = [Answers EXCEPT ![c] = Failed]
    BY <1>0, <1>1, <1>4 DEF LogWriteFails, Goto, Answers
  <2>3. call[c] # None /\ call[c].kind # "get"
    BY <1>0, <1>1, <1>4 DEF LogWriteFails, Mutation
  <2>4. KV!Fail(c)
    BY <2>1, <2>2, <2>3 DEF KV!Fail, KV!Pending
  <2>5. QED
    BY <2>4 DEF KV!Next
<1>5. CASE TableWrite(c)
  <2> DEFINE k == call[c].key
             e == call[c].val
  <2>1. call[c] # None /\ call[c] \in Mutation
    BY <1>0, <1>1, <1>5 DEF TableWrite
  <2>2. /\ k \in Key
        /\ \/ call[c].kind = "insert" /\ e \in Value
           \/ call[c].kind = "delete" /\ e = Tombstone
    BY <2>1 DEF Mutation
  <2>3. data' = [data EXCEPT ![k] = e] /\ call' = call
    BY <1>5 DEF TableWrite, Table!Insert, Table!Put
  <2>4. materialize(e) = IF call[c].kind = "insert" THEN e ELSE Missing
    BY <2>2, EngineAssumption DEF EngineAssumption, materialize
  <2>5. Rows' = [Rows EXCEPT ![k] = IF call[c].kind = "insert" THEN e ELSE Missing]
    <3>1. Rows' = [x \in Key |-> materialize(data'[x])]
      BY DEF Rows, materialize
    <3>2. Rows = [x \in Key |-> materialize(data[x])]
      BY DEF Rows
    <3>3. \A x \in Key : data'[x] = IF x = k THEN e ELSE data[x]
      BY <1>0, <2>3
    <3>4. QED
      BY <2>2, <2>4, <3>1, <3>2, <3>3
  <2>6. Answers[c] = None /\ Answers' = [Answers EXCEPT ![c] = Ok]
    BY <1>0, <1>1, <1>5 DEF TableWrite, Goto, Answers
  <2>7. KV!Write(c)
    BY <2>1, <2>2, <2>3, <2>5, <2>6 DEF KV!Write, KV!Pending
  <2>8. QED
    BY <2>7 DEF KV!Next
<1>6. CASE Publish(c) \/ Reply(c)
  <2>1. Rows' = Rows /\ call' = [call EXCEPT ![c] = None]
    BY <1>6 DEF Publish, Reply, Finish, tableVars, Rows
  <2>2. Answers[c] # None
    BY <1>0, <1>1, <1>6 DEF Publish, Reply, Answers
  <2>3. Answers' = [Answers EXCEPT ![c] = None]
    BY <1>0, <1>6 DEF Publish, Reply, Finish, Goto, Answers
  <2>4. KV!Return(c)
    BY <2>1, <2>2, <2>3 DEF KV!Return
  <2>5. QED
    BY <2>4 DEF KV!Next
<1>7. CASE Get(c)
  <2>1. call[c] \in Lookup /\ call[c] # None
    BY <1>0, <1>1, <1>7 DEF Get
  <2>2. call[c].kind = "get" /\ call[c].key \in Key
    BY <2>1 DEF Lookup
  <2>3. Rows' = Rows /\ call' = call
    BY <1>7 DEF Get, tableVars, Rows
  <2>4. Rows[call[c].key] = materialize(data[call[c].key])
    BY <2>2 DEF Rows
  <2>5. Answers[c] = None /\ Answers' = [Answers EXCEPT ![c] = Rows[call[c].key]]
    BY <1>0, <1>1, <1>7, <2>4 DEF Get, Goto, Answers
  <2>6. KV!Read(c)
    BY <2>1, <2>2, <2>3, <2>5 DEF KV!Read, KV!Pending
  <2>7. QED
    BY <2>6 DEF KV!Next
<1>8. QED
  BY <1>2, <1>3, <1>4, <1>5, <1>6, <1>7 DEF ClientNext

\* Every step of the engine is a step of the store or changes nothing it shows.
LEMMA NextRefines ==
  ASSUME EngineInv, [Next]_vars
  PROVE  [KV!Next]_KV!vars
<1>1. ASSUME NEW c \in Client, ClientNext(c) PROVE KV!Next \/ UNCHANGED KV!vars
  BY <1>1, CallRefines
<1>2. CASE CrashEngine
  <2>1. Rows' = [k \in Key |-> Missing]
    <3>1. materialize(Missing) = Missing
      BY DEF materialize
    <3>2. data' = [k \in Key |-> Missing]
      BY <1>2 DEF CrashEngine, Table!EmptyTable
    <3>3. Rows' = [k \in Key |-> materialize(data'[k])]
      BY DEF Rows, materialize
    <3>4. QED
      BY <3>1, <3>2, <3>3
  <2>2. Answers' = [c \in Client |-> None] /\ call' = [c \in Client |-> None]
    BY <1>2 DEF CrashEngine, Each, Answers
  <2>3. KV!Lose
    BY <2>1, <2>2 DEF KV!Lose
  <2>4. QED
    BY <2>3 DEF KV!Next
<1>3. CASE OpenEngine \/ OpenEngineFails \/ UNCHANGED vars
  <2>1. data' = data /\ pc' = pc /\ call' = call /\ answer' = answer
    BY <1>3 DEF OpenEngine, OpenEngineFails, vars, tableVars, clientVars
  <2>2. QED
    BY <2>1 DEF KV!vars, Rows, Answers, materialize
<1>4. QED
  BY <1>1, <1>2, <1>3 DEF Next

\* Whatever the interleaving, the failures and the crashes, callers see a store
\* whose calls take effect one at a time and which forgets all rows at a crash.
THEOREM EngineIsLinearizable == Spec => Linearizable
<1>1. Init => KV!Init
  BY InitRefines
<1>2. EngineInv /\ [Next]_vars => [KV!Next]_KV!vars
  BY NextRefines
<1>3. QED
  BY <1>1, <1>2, EngineInvariant, PTL DEF Spec, Linearizable, KV!Spec
-----------------------------------------------------------------------------
(* Rows of one writer and the log *)

WritesAlone(c, k) == k \in KeysOf[c] /\ \A d \in Client : k \in KeysOf[d] => d = c

OfRow(k) == {a \in acked : a.op.key = k}

\* The last entry of the row in the log is v, or there is none.
LogSays(k, v) ==
  \/ OfRow(k) = {} /\ v = Missing
  \/ \E a \in OfRow(k) : a.op.val = v /\ \A b \in OfRow(k) : b.pos <= a.pos

Writing(c, k) == pc[c] = "table" /\ call[c].key = k

\* A write appended and not yet in the memtable is what the log says of its row.
RowsInv ==
  /\ \A c \in Client : InWrite(c) => call[c].key \in KeysOf[c]
  /\ crashes = 0 => \A k \in Key, c \in Client : WritesAlone(c, k) =>
       LogSays(k, IF Writing(c, k) THEN call[c].val ELSE data[k])

\* At the start neither the log nor the memtable has rows.
LEMMA RowsStart == Init => RowsInv
<1> SUFFICES ASSUME Init PROVE RowsInv
  OBVIOUS
<1>1. acked = {} /\ (\A k \in Key : data[k] = Missing) /\ \A c \in Client : pc[c] = "idle"
  BY DEF Init, WAL!WalInit, Table!TableInit, Table!EmptyTable, Each
<1> QED BY <1>1 DEF RowsInv, InWrite, LogSays, OfRow, Writing

\* A client writes the rows that are its own.
LEMMA WritersKeepRows ==
  ASSUME EngineInv, RowsInv, Next, NEW d \in Client, InWrite(d)'
  PROVE  call'[d].key \in KeysOf[d]
<1>0. /\ pc \in [Client -> {"idle", "append", "table", "publish", "lookup", "reply"}]
      /\ call \in [Client -> Call \cup {None}]
      /\ InWrite(d) => call[d].key \in KeysOf[d]
  BY DEF EngineInv, TypeOK, RowsInv
<1>1. ASSUME NEW c \in Client, InvokeWrite(c)
      PROVE  call'[d].key \in KeysOf[d]
  BY <1>0, <1>1 DEF InvokeWrite, Goto, InWrite
<1>2. ASSUME NEW c \in Client, LogWrite(c) \/ LogWriteFails(c) \/ TableWrite(c) \/ Get(c)
      PROVE  call'[d].key \in KeysOf[d]
  BY <1>0, <1>2 DEF LogWrite, LogWriteFails, TableWrite, Get, Goto, InWrite
<1>3. ASSUME NEW c \in Client, Publish(c) \/ InvokeGet(c) \/ Reply(c)
      PROVE  call'[d].key \in KeysOf[d]
  BY <1>0, <1>3 DEF Publish, InvokeGet, Reply, Finish, Goto, InWrite
<1>4. CASE CrashEngine
  BY <1>4 DEF CrashEngine, Each, InWrite
<1>5. CASE OpenEngine \/ OpenEngineFails
  BY <1>0, <1>5 DEF OpenEngine, OpenEngineFails, clientVars, InWrite
<1> QED BY <1>1, <1>2, <1>3, <1>4, <1>5 DEF Next, ClientNext

\* The entry a step appends is the last of its row; a step that appends none leaves what
\* the log says of each row.
LEMMA LastLogged ==
  ASSUME EngineInv, NEW op \in Mutation, WAL!AppendOk(op)
  PROVE  /\ LogSays(op.key, op.val)'
         /\ \A k, v : k # op.key => (LogSays(k, v)' <=> LogSays(k, v))
<1> DEFINE new == [pos |-> Len(log) + 1, seq |-> nextSeq, op |-> op]
<1>1. acked' = acked \cup {new} /\ new.pos = Len(log) + 1 /\ new.op = op
  BY DEF WAL!AppendOk
<1>2. Len(log) \in Nat /\ \A a \in acked : a.pos \in 1..Len(log)
  <2>1. Len(log) \in Nat
    BY DEF EngineInv, TypeOK, WAL!WalTypeOK
  <2>2. \A a \in acked : a.pos \in 1..Len(log)
    BY DEF EngineInv, WAL!WalInv, WAL!AckedOnFile
  <2> QED BY <2>1, <2>2
<1> HIDE DEF new
<1>3. new \in OfRow(op.key)' /\ \A b \in OfRow(op.key)' : b.pos <= new.pos
  BY <1>1, <1>2 DEF OfRow
<1>4. \A k : k # op.key => OfRow(k)' = OfRow(k)
  BY <1>1 DEF OfRow
<1> QED BY <1>1, <1>3, <1>4 DEF LogSays

\* What the step of any client does to a row that client d alone writes.
LEMMA RowsKept ==
  ASSUME EngineInv, RowsInv, Next, crashes' = 0,
         NEW k \in Key, NEW d \in Client, WritesAlone(d, k)
  PROVE  LogSays(k, IF Writing(d, k) THEN call[d].val ELSE data[k])'
<1>0. /\ pc \in [Client -> {"idle", "append", "table", "publish", "lookup", "reply"}]
      /\ call \in [Client -> Call \cup {None}]
      /\ data \in [Key -> Value \cup {Tombstone, Missing}]
      /\ crashes \in Nat /\ CallsInStep
      /\ \A c \in Client : InWrite(c) => call[c].key \in KeysOf[c]
  BY EngineAssumption DEF EngineInv, TypeOK, RowsInv, Table!TableTypeOK, EngineAssumption
<1>1. ~CrashEngine /\ crashes = 0
  <2>1. ~CrashEngine
    BY <1>0 DEF CrashEngine
  <2>2. crashes' = crashes
    BY <2>1 DEF Next, ClientNext, InvokeWrite, LogWrite, LogWriteFails, TableWrite, Publish,
                InvokeGet, Get, Reply, OpenEngine, OpenEngineFails
  <2> QED BY <2>1, <2>2
<1> DEFINE entry == IF Writing(d, k) THEN call[d].val ELSE data[k]
<1>2. LogSays(k, entry)
  BY <1>1 DEF RowsInv
<1>3. ASSUME acked' = acked, entry' = entry
      PROVE  LogSays(k, entry)'
  BY <1>2, <1>3 DEF LogSays, OfRow
<1>4. ASSUME NEW c \in Client, LogWrite(c)
      PROVE  LogSays(k, entry)'
  <2>1. /\ call[c] \in Mutation /\ WAL!AppendOk(call[c]) /\ InWrite(c)
        /\ call' = call /\ data' = data /\ pc' = [pc EXCEPT ![c] = "table"] /\ pc[c] = "append"
    BY <1>0, <1>4 DEF LogWrite, CallsInStep, InWrite, Goto, tableVars
  <2>2. /\ LogSays(call[c].key, call[c].val)'
        /\ \A v : k # call[c].key => (LogSays(k, v)' <=> LogSays(k, v))
    BY <2>1, LastLogged
  <2>3. CASE call[c].key = k
    <3>1. d = c
      BY <2>1, <2>3, <1>0 DEF WritesAlone
    <3>2. entry' = call[c].val
      BY <3>1, <2>1, <2>3, <1>0 DEF Writing
    <3>3. LogSays(k, call[c].val)'
      BY <2>1, <2>2, <2>3 DEF LogSays, OfRow
    <3> QED BY <3>2, <3>3, <2>1 DEF LogSays
  <2>4. CASE call[c].key # k
    <3>1. entry' = entry
      BY <2>1, <2>4, <1>0 DEF Writing
    <3> QED BY <3>1, <2>2, <2>4, <1>2 DEF LogSays
  <2> QED BY <2>3, <2>4
<1>5. ASSUME NEW c \in Client, LogWriteFails(c)
      PROVE  LogSays(k, entry)'
  <2>1. acked' = acked
    BY <1>5 DEF LogWriteFails, WAL!AppendTorn, WAL!AppendUnsynced, walVars
  <2>2. entry' = entry
    BY <1>0, <1>5 DEF LogWriteFails, Goto, Writing, tableVars
  <2> QED BY <2>1, <2>2, <1>3
<1>6. ASSUME NEW c \in Client, TableWrite(c)
      PROVE  LogSays(k, entry)'
  <2>1. /\ pc[c] = "table" /\ pc' = [pc EXCEPT ![c] = "publish"] /\ call' = call /\ acked' = acked
        /\ data' = [data EXCEPT ![call[c].key] = call[c].val] /\ InWrite(c)
    BY <1>6 DEF TableWrite, Goto, Table!Insert, Table!Put, walVars, InWrite
  <2>2. entry' = entry
    <3>1. CASE call[c].key = k
      <4>1. d = c
        BY <2>1, <3>1, <1>0 DEF WritesAlone
      <4> QED BY <4>1, <3>1, <2>1, <1>0 DEF Writing
    <3>2. CASE call[c].key # k
      BY <3>2, <2>1, <1>0 DEF Writing
    <3> QED BY <3>1, <3>2
  <2> QED BY <2>1, <2>2, <1>3
<1>7. ASSUME NEW c \in Client, InvokeWrite(c) \/ InvokeGet(c) \/ Get(c)
      PROVE  LogSays(k, entry)'
  <2>1. acked' = acked /\ data' = data
    BY <1>7 DEF InvokeWrite, InvokeGet, Get, walVars, tableVars
  <2>2. entry' = entry
    BY <2>1, <1>0, <1>7 DEF InvokeWrite, InvokeGet, Get, Goto, Writing
  <2> QED BY <2>1, <2>2, <1>3
<1>8. ASSUME NEW c \in Client, Publish(c) \/ Reply(c)
      PROVE  LogSays(k, entry)'
  <2>1. acked' = acked /\ data' = data
    BY <1>8 DEF Publish, Reply, walVars, tableVars
  <2>2. entry' = entry
    BY <2>1, <1>0, <1>8 DEF Publish, Reply, Finish, Goto, Writing
  <2> QED BY <2>1, <2>2, <1>3
<1>9. CASE OpenEngine \/ OpenEngineFails
  <2>1. acked' = acked
    BY <1>9 DEF OpenEngine, OpenEngineFails, WAL!Open, WAL!OpenRefused, WAL!walVars
  <2>2. entry' = entry
    BY <1>9 DEF OpenEngine, OpenEngineFails, clientVars, tableVars, Writing
  <2> QED BY <2>1, <2>2, <1>3
<1> QED BY <1>1, <1>4, <1>5, <1>6, <1>7, <1>8, <1>9 DEF Next, ClientNext

\* The place of an entry in the file tells which entry it is, so the log says one thing
\* of each row.
LEMMA LogSaysOne ==
  ASSUME EngineInv, NEW k, NEW v, LogSays(k, v)
  PROVE  v = LoggedEntry(k)
<1>1. CASE OfRow(k) = {}
  BY <1>1 DEF LogSays, LoggedEntry, OfRow
<1>2. CASE OfRow(k) # {}
  <2>1. PICK a \in OfRow(k) : a.op.val = v /\ \A b \in OfRow(k) : b.pos <= a.pos
    BY <1>2 DEF LogSays
  <2> DEFINE e == CHOOSE x \in OfRow(k) : \A b \in OfRow(k) : b.pos <= x.pos
  <2>2. e \in OfRow(k) /\ \A b \in OfRow(k) : b.pos <= e.pos
    BY <2>1
  <2>3. LoggedEntry(k) = e.op.val
    BY <1>2 DEF LoggedEntry, OfRow
  <2> HIDE DEF e
  <2>4. a \in acked /\ e \in acked /\ a.pos \in Nat /\ e.pos \in Nat
    BY <2>1, <2>2 DEF OfRow, EngineInv, TypeOK, WAL!WalTypeOK, WAL!Ack
  <2>5. a.pos = e.pos
    BY <2>1, <2>2, <2>4
  <2>6. /\ log[a.pos] = [seq |-> a.seq, op |-> a.op, whole |-> TRUE]
        /\ log[e.pos] = [seq |-> e.seq, op |-> e.op, whole |-> TRUE]
    BY <2>4 DEF EngineInv, WAL!WalInv, WAL!AckedOnFile
  <2>7. a.op = e.op
    BY <2>5, <2>6
  <2> QED BY <2>1, <2>3, <2>7
<1> QED BY <1>1, <1>2

\* Until the first crash a row of one writer, if none is under way, holds what the log
\* says last of it, however the other clients' appends and insertions pass each other.
THEOREM SoleWritersMatchLog == Spec => []OwnRowsMatchLog
<1>1. Init => RowsInv
  BY RowsStart
<1>2. EngineInv /\ RowsInv /\ [Next]_vars => RowsInv'
  <2> SUFFICES ASSUME EngineInv, RowsInv, [Next]_vars PROVE RowsInv'
    OBVIOUS
  <2>1. CASE Next
    <3>1. \A c \in Client : InWrite(c)' => call'[c].key \in KeysOf[c]
      BY <2>1, WritersKeepRows
    <3>2. ASSUME crashes' = 0, NEW k \in Key, NEW c \in Client, WritesAlone(c, k)
          PROVE  LogSays(k, IF Writing(c, k) THEN call[c].val ELSE data[k])'
      BY <2>1, <3>2, RowsKept
    <3> QED BY <3>1, <3>2 DEF RowsInv, WritesAlone
  <2>2. CASE UNCHANGED vars
    BY <2>2 DEF vars, walVars, tableVars, clientVars, RowsInv, InWrite, WritesAlone, LogSays,
                OfRow, Writing
  <2> QED BY <2>1, <2>2
<1>3. EngineInv /\ RowsInv => OwnRowsMatchLog
  <2> SUFFICES ASSUME EngineInv, RowsInv, isOpen, crashes = 0,
                      NEW k \in Key, NEW w \in Client, Writers(k) = {w}, ~BeingWritten(k)
               PROVE  data[k] = LoggedEntry(k)
    BY DEF OwnRowsMatchLog, MatchesLog
  <2>1. WritesAlone(w, k)
    BY DEF WritesAlone, Writers
  <2>2. ~Writing(w, k)
    BY DEF Writing, BeingWritten
  <2>3. LogSays(k, data[k])
    BY <2>1, <2>2 DEF RowsInv
  <2> QED BY <2>3, LogSaysOne
<1> QED BY <1>1, <1>2, <1>3, EngineInvariant, PTL DEF Spec
==============================================================================
