------------------------ MODULE WriteAheadLogProofs ------------------------
(***************************************************************************)
(* Proofs about WriteAheadLog.  WalInv is inductive; what a client or a    *)
(* restart relies on follows from it.                                      *)
(***************************************************************************)
EXTENDS WriteAheadLog, SequenceTheorems, TLAPS

\* What a crash leaves: a prefix of the file that holds the synced part, its records
\* unchanged except that the last may be torn, and then it was not synced.
LEMMA SurvivorsFacts ==
  ASSUME NEW f \in Seq(Record), NEW n \in 0..Len(f), NEW g \in Survivors(f, n)
  PROVE  /\ g \in Seq(Record)
         /\ Len(g) \in n..Len(f)
         /\ \A i \in 1..Len(g) : /\ g[i].seq = f[i].seq
                                 /\ g[i].op = f[i].op
                                 /\ i < Len(g) \/ i <= n => g[i] = f[i]
                                 /\ g[i].whole => f[i].whole
<1>1. CASE \E k \in n..Len(f) : g = SubSeq(f, 1, k)
  <2>1. PICK k \in n..Len(f) : g = SubSeq(f, 1, k)
    BY <1>1
  <2>2. /\ g \in Seq(Record)
        /\ Len(g) = k
        /\ \A i \in 1..k : g[i] = f[i]
    BY <2>1
  <2>3. QED
    BY <2>2
<1>2. CASE \E k \in n..(Len(f) - 1) :
             g = Append(SubSeq(f, 1, k), [f[k + 1] EXCEPT !.whole = FALSE])
  <2>1. PICK k \in n..(Len(f) - 1) :
          g = Append(SubSeq(f, 1, k), [f[k + 1] EXCEPT !.whole = FALSE])
    BY <1>2
  <2> DEFINE t == [f[k + 1] EXCEPT !.whole = FALSE]
             s == SubSeq(f, 1, k)
  <2>2. /\ t \in Record
        /\ t.seq = f[k + 1].seq
        /\ t.op = f[k + 1].op
        /\ t.whole = FALSE
    <3>1. k + 1 \in 1..Len(f) /\ f[k + 1] \in Record
      OBVIOUS
    <3>2. QED
      BY <3>1 DEF Record
  <2>3. /\ s \in Seq(Record)
        /\ Len(s) = k
        /\ \A i \in 1..k : s[i] = f[i]
    OBVIOUS
  <2> HIDE DEF t, s
  <2>4. g = Append(s, t)
    BY <2>1 DEF s, t
  <2>5. /\ g \in Seq(Record)
        /\ Len(g) = k + 1
        /\ g[k + 1] = t
        /\ \A i \in 1..k : g[i] = f[i]
    BY <2>2, <2>3, <2>4
  <2>6. QED
    BY <2>2, <2>5
<1>3. QED
  BY <1>1, <1>2 DEF Survivors

\* The initial file is empty.
LEMMA WalInitInv == WalInit => WalInv
<1> SUFFICES ASSUME WalInit PROVE WalInv
  OBVIOUS
<1>1. WalTypeOK
  <2>1. log \in Seq(Record) /\ Len(log) = 0
    BY DEF WalInit
  <2>2. synced = 0 /\ nextSeq = 1 /\ isOpen \in BOOLEAN /\ acked \subseteq Ack
    BY DEF WalInit
  <2>3. QED
    BY <2>1, <2>2, WalAssumption DEF WalAssumption, WalTypeOK
<1>2. AckedOnFile /\ AckedAreSynced /\ PrefixInSeqOrder
  BY DEF WalInit, AckedOnFile, AckedAreSynced, PrefixInSeqOrder
<1>3. NextSeqAboveLog /\ NextSeqIsFresh
  BY DEF WalInit, NextSeqAboveLog, NextSeqIsFresh
<1>4. QED
  BY <1>1, <1>2, <1>3 DEF WalInv

\* Appending a record r leaves the earlier ones in place, and only a clean file has
\* a clean prefix that includes r.
LEMMA AppendFacts ==
  ASSUME WalTypeOK, NEW r \in Record, NEW N \in Nat, N = Len(log),
         log' = Append(log, r)
  PROVE  /\ log' \in Seq(Record)
         /\ Len(log') = N + 1
         /\ log'[N + 1] = r
         /\ \A i \in 1..N : log'[i] = log[i]
         /\ \A j \in 1..N : CleanUpTo(j)' => CleanUpTo(j)
         /\ CleanUpTo(N + 1)' =>
              /\ Clean
              /\ \A i \in 1..N : log[i].whole
         /\ Clean' => CleanUpTo(N + 1)'
<1>1. /\ log' \in Seq(Record)
      /\ Len(log') = N + 1
      /\ log'[N + 1] = r
      /\ \A i \in 1..N : log'[i] = log[i]
  BY DEF WalTypeOK
<1>2. N \in Nat /\ N = Len(log)
  OBVIOUS
<1>3. \A j \in 1..N : CleanUpTo(j)' => CleanUpTo(j)
  BY <1>1, <1>2 DEF CleanUpTo
<1>4. CleanUpTo(N + 1)' => /\ Clean
                                  /\ \A i \in 1..N : log[i].whole
  BY <1>1, <1>2 DEF CleanUpTo, Clean
<1>5. Clean' => CleanUpTo(N + 1)'
  BY <1>1, <1>2 DEF CleanUpTo, Clean
<1>6. QED
  BY <1>1, <1>3, <1>4, <1>5

\* What an append may do to the invariant, in its three outcomes.
LEMMA AppendInv ==
  ASSUME WalInv, NEW op \in Op, NEW N \in Nat, N = Len(log),
         AppendOk(op) \/ AppendTorn(op) \/ AppendUnsynced(op)
  PROVE  WalInv'
<1>0. /\ WalTypeOK /\ N \in Nat /\ N = Len(log) /\ nextSeq \in Nat \ {0}
      /\ isOpen = TRUE /\ isOpen' = TRUE /\ N < MaxLog /\ MaxLog \in Nat
  <2>1. WalTypeOK
    BY DEF WalInv
  <2>2. CanWrite /\ isOpen' = isOpen
    BY DEF AppendOk, AppendTorn, AppendUnsynced
  <2>3. isOpen /\ Len(log) < MaxLog
    BY <2>2 DEF CanWrite
  <2>4. isOpen = TRUE
    BY <2>1, <2>3 DEF WalTypeOK
  <2>5. QED
    BY <2>1, <2>2, <2>3, <2>4, WalAssumption DEF WalAssumption, WalTypeOK
<1>1. PICK w \in BOOLEAN : log' = Append(log, NextRecord(op, w))
  BY DEF AppendOk, AppendTorn, AppendUnsynced
<1> DEFINE r == NextRecord(op, w)
<1>2. r \in Record /\ r.seq = nextSeq /\ r.op = op /\ r.whole = w
  BY <1>0 DEF NextRecord, Record
<1>3. /\ log' \in Seq(Record)
      /\ Len(log') = N + 1
      /\ log'[N + 1] = r
      /\ \A i \in 1..N : log'[i] = log[i]
      /\ \A j \in 1..N : CleanUpTo(j)' => CleanUpTo(j)
      /\ CleanUpTo(N + 1)' => Clean /\ (\A i \in 1..N : log[i].whole)
      /\ Clean' => CleanUpTo(N + 1)'
  BY <1>0, <1>1, <1>2, AppendFacts
<1> DEFINE new == [pos |-> N + 1, seq |-> nextSeq, op |-> op]
<1>4. \/ /\ acked' = acked /\ nextSeq' = nextSeq /\ synced' = synced
      \/ /\ w = TRUE /\ acked' = acked \cup {new} /\ nextSeq' = nextSeq + 1
         /\ synced' = IF SyncOnWrite THEN N + 1 ELSE synced
  <2>1. AppendOk(op) => w = TRUE
    <3> SUFFICES ASSUME AppendOk(op) PROVE w = TRUE
      OBVIOUS
    <3> DEFINE q == NextRecord(op, TRUE)
    <3>1. log' = Append(log, q)
      BY DEF AppendOk
    <3>2. q \in Record /\ q.whole = TRUE
      BY <1>0 DEF NextRecord, Record
    <3>3. log \in Seq(Record)
      BY <1>0 DEF WalTypeOK
    <3>4. r.whole = w /\ log'[N + 1] = r
      BY <1>2, <1>3
    <3> HIDE DEF q, r
    <3>5. log'[N + 1] = q
      BY <3>1, <3>2, <3>3, <1>0
    <3>6. QED
      BY <3>2, <3>4, <3>5
  <2>2. QED
    BY <2>1 DEF AppendOk, AppendTorn, AppendUnsynced
<1> HIDE DEF r, new
<1>5. new \in Ack /\ new.pos = N + 1 /\ new.seq = nextSeq /\ new.op = op
  BY <1>0 DEF new, Ack
<1>6. \A a \in acked : /\ a.pos \in 1..N /\ a.seq \in Nat /\ a \in Ack
                       /\ log[a.pos] = [seq |-> a.seq, op |-> a.op, whole |-> TRUE]
  BY <1>0 DEF WalInv, AckedOnFile, WalTypeOK, Ack
<1>7. WalTypeOK'
  <2>1. synced \in 0..N /\ acked \subseteq Ack
    BY <1>0 DEF WalTypeOK
  <2>2. QED
    BY <1>0, <1>3, <1>4, <1>5, <2>1 DEF WalTypeOK
<1>8. AckedOnFile'
  <2> SUFFICES ASSUME NEW a \in acked'
               PROVE  /\ a.pos \in 1..(N + 1)
                      /\ log'[a.pos] = [seq |-> a.seq, op |-> a.op, whole |-> TRUE]
    BY <1>3 DEF AckedOnFile
  <2>1. CASE a \in acked
    BY <2>1, <1>0, <1>3, <1>6
  <2>2. CASE a = new /\ w = TRUE
    BY <2>2, <1>0, <1>3, <1>5 DEF r, NextRecord
  <2>3. QED
    BY <2>1, <2>2, <1>4
<1>9. AckedAreSynced'
  <2> SUFFICES ASSUME SyncOnWrite, NEW a \in acked'
               PROVE  a.pos <= synced'
    BY DEF AckedAreSynced
  <2>1. synced \in 0..N
    BY <1>0 DEF WalTypeOK
  <2>2. CASE a \in acked
    <3>1. a.pos <= synced /\ a.pos \in 1..N
      BY <2>2, <1>6 DEF AckedAreSynced, WalInv
    <3>2. synced' = synced \/ synced' = N + 1
      BY <1>4
    <3>3. QED
      BY <3>1, <3>2, <2>1, <1>0
  <2>3. CASE a = new /\ synced' = N + 1
    BY <2>3, <1>5, <1>0
  <2>4. QED
    BY <2>2, <2>3, <1>4
<1>10. PrefixInSeqOrder'
  <2> SUFFICES ASSUME NEW j \in 1..(N + 1), CleanUpTo(j)'
               PROVE  /\ \A i \in 1..(j - 1) : log'[i].seq <= log'[j].seq
                      /\ \A a \in acked' : a.pos < j => a.seq < log'[j].seq
    BY <1>3 DEF PrefixInSeqOrder
  <2>1. CASE j \in 1..N
    <3>1. /\ \A i \in 1..(j - 1) : log[i].seq <= log[j].seq
          /\ \A a \in acked : a.pos < j => a.seq < log[j].seq
      BY <2>1, <1>3 DEF WalInv, PrefixInSeqOrder
    <3>2. \A a \in acked' : a.pos < j => a \in acked
      BY <2>1, <1>4, <1>5, <1>0
    <3>3. QED
      BY <2>1, <3>1, <3>2, <1>0, <1>3
  <2>2. CASE j = N + 1
    <3>1. Clean /\ (\A i \in 1..N : log[i].whole)
      BY <2>2, <1>3
    <3>2. \A i \in 1..N : log[i].seq <= nextSeq
      BY <3>1, <1>0 DEF WalInv, NextSeqAboveLog
    <3>3. \A a \in acked : a.seq < nextSeq
      BY <3>1, <1>0 DEF WalInv, NextSeqIsFresh
    <3>4. \A a \in acked' : a.pos < j => a \in acked
      BY <2>2, <1>4, <1>5, <1>0
    <3>5. QED
      BY <2>2, <3>2, <3>3, <3>4, <1>0, <1>2, <1>3
  <2>3. QED
    BY <2>1, <2>2, <1>0
<1>11. NextSeqAboveLog' /\ NextSeqIsFresh'
  <2> SUFFICES ASSUME Clean'
               PROVE  /\ \A i \in 1..(N + 1) : log'[i].whole => log'[i].seq <= nextSeq'
                      /\ \A a \in acked' : a.seq < nextSeq'
    BY <1>3 DEF NextSeqAboveLog, NextSeqIsFresh
  <2>1. Clean
    BY <1>3
  <2>2. /\ \A i \in 1..N : log[i].whole => log[i].seq <= nextSeq
        /\ \A a \in acked : a.seq < nextSeq
    BY <2>1, <1>0 DEF WalInv, NextSeqAboveLog, NextSeqIsFresh
  <2>3. nextSeq' >= nextSeq /\ nextSeq' \in Nat
    BY <1>0, <1>4
  <2>4. \A i \in 1..N : log[i].seq \in Nat
    <3>1. \A i \in 1..N : log[i] \in Record
      BY <1>0 DEF WalTypeOK
    <3>2. QED
      BY <3>1 DEF Record
  <2>5. \A i \in 1..(N + 1) : log'[i].whole => log'[i].seq <= nextSeq'
    BY <2>2, <2>3, <2>4, <1>0, <1>2, <1>3
  <2>6. \A a \in acked' : a.seq < nextSeq'
    <3> SUFFICES ASSUME NEW a \in acked' PROVE a.seq < nextSeq'
      OBVIOUS
    <3>1. CASE a \in acked
      <4>1. a.seq \in Nat /\ a.seq < nextSeq
        BY <3>1, <2>2, <1>6
      <4>2. QED
        BY <4>1, <2>3, <1>0
    <3>2. CASE a = new /\ nextSeq' = nextSeq + 1
      BY <3>2, <1>0, <1>5
    <3>3. QED
      BY <3>1, <3>2, <1>4
  <2>7. QED
    BY <2>5, <2>6
<1>12. QED
  BY <1>7, <1>8, <1>9, <1>10, <1>11 DEF WalInv

\* Whatever entry open() takes for the last one of a clean file, the number it
\* resumes at is above every number in the file.
LEMMA OpenInv ==
  ASSUME WalInv, Open
  PROVE  WalInv'
<1>0. /\ WalTypeOK /\ AckedOnFile /\ AckedAreSynced /\ PrefixInSeqOrder
      /\ log' = log /\ synced' = synced /\ acked' = acked /\ isOpen' = TRUE
  BY DEF WalInv, Open
<1>1. PICK n \in ReplayEnds(log) : nextSeq' = LastSeq(log, n) + 1
  BY DEF Open
<1>2. n \in 0..Len(log) /\ Len(log) \in Nat
  BY <1>0 DEF ReplayEnds, DecodedEnds, GarbledEnds, WalTypeOK
<1>3. \A i \in 1..Len(log) : log[i] \in Record /\ log[i].seq \in Nat
  <2>1. \A i \in 1..Len(log) : log[i] \in Record
    BY <1>0 DEF WalTypeOK
  <2>2. QED
    BY <2>1 DEF Record
<1>4. LastSeq(log, n) \in Nat
  BY <1>2, <1>3 DEF LastSeq
<1>5. WalTypeOK'
  BY <1>0, <1>1, <1>4 DEF WalTypeOK
<1>6. AckedOnFile' /\ AckedAreSynced' /\ PrefixInSeqOrder'
  BY <1>0 DEF AckedOnFile, AckedAreSynced, PrefixInSeqOrder, CleanUpTo
<1>7. ASSUME Clean
      PROVE  /\ \A i \in 1..Len(log) : log[i].whole => i <= n
             /\ \A i \in 1..Len(log) : log[i].whole => log[i].seq <= LastSeq(log, n)
             /\ \A a \in acked : a.seq <= LastSeq(log, n)
  <2>1. \A i \in 1..(Len(log) - 1) : log[i].whole
    BY <1>7 DEF Clean
  <2>2. n \notin GarbledEnds(log)
    BY <2>1 DEF GarbledEnds
  <2>3. n < Len(log) => ~log[n + 1].whole
    BY <1>1, <2>2 DEF ReplayEnds, DecodedEnds
  <2>4. \A i \in 1..Len(log) : log[i].whole => i <= n
    <3> SUFFICES ASSUME NEW i \in 1..Len(log), log[i].whole, i > n PROVE FALSE
      BY <1>2
    <3>1. n + 1 = Len(log)
      BY <2>1, <2>3, <1>2
    <3>2. QED
      BY <3>1, <2>3, <1>2
  <2>5. n # 0 => CleanUpTo(n)
    BY <1>2, <1>7 DEF CleanUpTo, Clean
  <2>6. \A i \in 1..n : log[i].seq <= LastSeq(log, n)
    <3> SUFFICES ASSUME NEW i \in 1..n PROVE log[i].seq <= log[n].seq
      BY <1>2 DEF LastSeq
    <3>1. CleanUpTo(n) /\ n \in 1..Len(log) /\ log[n].seq \in Nat
      BY <2>5, <1>2, <1>3
    <3>2. i < n => log[i].seq <= log[n].seq
      BY <3>1, <1>0, <1>2 DEF PrefixInSeqOrder
    <3>3. QED
      BY <3>1, <3>2, <1>2
  <2>7. \A i \in 1..Len(log) : log[i].whole => log[i].seq <= LastSeq(log, n)
    BY <2>4, <2>6, <1>2
  <2>8. \A a \in acked : a.seq <= LastSeq(log, n)
    <3> SUFFICES ASSUME NEW a \in acked PROVE a.seq <= LastSeq(log, n)
      OBVIOUS
    <3>1. /\ a.pos \in 1..Len(log)
          /\ log[a.pos] = [seq |-> a.seq, op |-> a.op, whole |-> TRUE]
      BY <1>0 DEF AckedOnFile
    <3>2. log[a.pos].whole /\ log[a.pos].seq = a.seq
      BY <3>1
    <3>3. QED
      BY <3>1, <3>2, <2>7
  <2>9. QED
    BY <2>4, <2>7, <2>8
<1>8. NextSeqAboveLog' /\ NextSeqIsFresh'
  <2> SUFFICES ASSUME Clean
               PROVE  /\ \A i \in 1..Len(log) : log[i].whole => log[i].seq <= nextSeq'
                      /\ \A a \in acked : a.seq < nextSeq'
    BY <1>0 DEF NextSeqAboveLog, NextSeqIsFresh, Clean
  <2>1. \A a \in acked : a.seq \in Nat
    BY <1>0 DEF WalTypeOK, Ack
  <2>2. QED
    BY <1>1, <1>3, <1>4, <1>7, <2>1
<1>9. QED
  BY <1>5, <1>6, <1>8 DEF WalInv

\* A crash cuts or tears only what was not synced, and lapses what it cut.
LEMMA CrashInv ==
  ASSUME WalInv, Crash
  PROVE  WalInv'
<1>0. /\ WalTypeOK /\ AckedOnFile /\ AckedAreSynced /\ PrefixInSeqOrder
      /\ isOpen' = FALSE /\ nextSeq' = nextSeq /\ synced' = Len(log')
      /\ acked' = {a \in acked : a.pos <= synced}
      /\ log' \in Survivors(log, synced)
  BY DEF WalInv, Crash
<1>1. log \in Seq(Record) /\ synced \in 0..Len(log) /\ Len(log) <= MaxLog
  BY <1>0 DEF WalTypeOK
<1>2. /\ log' \in Seq(Record)
      /\ Len(log') \in synced..Len(log)
      /\ \A i \in 1..Len(log') : /\ log'[i].seq = log[i].seq
                                 /\ log'[i].op = log[i].op
                                 /\ i < Len(log') \/ i <= synced => log'[i] = log[i]
                                 /\ log'[i].whole => log[i].whole
  BY <1>0, <1>1, SurvivorsFacts
<1>3. \A a \in acked : a \in Ack /\ a.pos \in Nat
  BY <1>0 DEF WalTypeOK, Ack
<1>4. WalTypeOK'
  <2>1. Len(log') <= MaxLog /\ Len(log') \in Nat
    BY <1>1, <1>2, WalAssumption DEF WalAssumption
  <2>2. acked' \subseteq Ack /\ isOpen' \in BOOLEAN
    BY <1>0, <1>3
  <2>3. QED
    BY <1>0, <1>2, <2>1, <2>2 DEF WalTypeOK
<1>5. AckedOnFile'
  <2> SUFFICES ASSUME NEW a \in acked'
               PROVE  /\ a.pos \in 1..Len(log')
                      /\ log'[a.pos] = [seq |-> a.seq, op |-> a.op, whole |-> TRUE]
    BY DEF AckedOnFile
  <2>1. /\ a \in acked /\ a.pos <= synced
        /\ a.pos \in 1..Len(log)
        /\ log[a.pos] = [seq |-> a.seq, op |-> a.op, whole |-> TRUE]
    BY <1>0 DEF AckedOnFile
  <2>2. a.pos \in 1..Len(log')
    BY <1>1, <1>2, <2>1
  <2>3. QED
    BY <1>2, <2>1, <2>2
<1>6. AckedAreSynced'
  BY <1>0, <1>1, <1>2, <1>3 DEF AckedAreSynced
<1>7. PrefixInSeqOrder'
  <2> SUFFICES ASSUME NEW j \in 1..Len(log'), CleanUpTo(j)'
               PROVE  /\ \A i \in 1..(j - 1) : log'[i].seq <= log'[j].seq
                      /\ \A a \in acked' : a.pos < j => a.seq < log'[j].seq
    BY DEF PrefixInSeqOrder
  <2>1. j \in 1..Len(log) /\ Len(log') <= Len(log) /\ Len(log') \in Nat
    BY <1>1, <1>2
  <2>2. CleanUpTo(j)
    BY <1>2, <2>1 DEF CleanUpTo
  <2>3. /\ \A i \in 1..(j - 1) : log[i].seq <= log[j].seq
        /\ \A a \in acked : a.pos < j => a.seq < log[j].seq
    BY <1>0, <2>1, <2>2 DEF PrefixInSeqOrder
  <2>4. \A i \in 1..j : log'[i].seq = log[i].seq
    BY <1>2, <2>1
  <2>5. QED
    BY <1>0, <2>1, <2>3, <2>4
<1>8. NextSeqAboveLog' /\ NextSeqIsFresh'
  BY <1>0 DEF NextSeqAboveLog, NextSeqIsFresh
<1>9. QED
  BY <1>4, <1>5, <1>6, <1>7, <1>8 DEF WalInv

\* Syncing and refused opens change nothing the invariant reads but how much of the
\* file is on stable storage.
LEMMA SyncInv ==
  ASSUME WalInv, Sync \/ UNCHANGED walVars
  PROVE  WalInv'
<1>1. /\ log' = log /\ acked' = acked /\ nextSeq' = nextSeq /\ isOpen' = isOpen
      /\ synced' = synced \/ synced' = Len(log)
  BY DEF Sync, walVars
<1>2. WalTypeOK /\ AckedOnFile /\ AckedAreSynced
  BY DEF WalInv
<1>3. WalTypeOK'
  BY <1>1, <1>2 DEF WalTypeOK
<1>4. AckedAreSynced'
  <2> SUFFICES ASSUME SyncOnWrite, NEW a \in acked PROVE a.pos <= synced'
    BY <1>1 DEF AckedAreSynced
  <2>1. a.pos \in 1..Len(log) /\ a.pos <= synced
    BY <1>2 DEF AckedOnFile, AckedAreSynced
  <2>2. QED
    BY <1>1, <2>1
<1>5. AckedOnFile' /\ PrefixInSeqOrder' /\ NextSeqAboveLog' /\ NextSeqIsFresh'
  BY <1>1 DEF WalInv, AckedOnFile, PrefixInSeqOrder, NextSeqAboveLog, NextSeqIsFresh,
              CleanUpTo, Clean
<1>6. QED
  BY <1>3, <1>4, <1>5 DEF WalInv

\* Every step of the log keeps the invariant.
LEMMA WalNextInv == WalInv /\ [WalNext]_walVars => WalInv'
<1> SUFFICES ASSUME WalInv, [WalNext]_walVars PROVE WalInv'
  OBVIOUS
<1>1. CASE Open
  BY <1>1, OpenInv
<1>2. CASE OpenRefused \/ Sync \/ UNCHANGED walVars
  BY <1>2, SyncInv DEF OpenRefused
<1>3. CASE \E op \in Op : AppendOk(op) \/ AppendTorn(op) \/ AppendUnsynced(op)
  <2>1. Len(log) \in Nat
    BY DEF WalInv, WalTypeOK
  <2>2. QED
    BY <1>3, <2>1, AppendInv
<1>4. CASE Crash
  BY <1>4, CrashInv
<1>5. QED
  BY <1>1, <1>2, <1>3, <1>4 DEF WalNext

-----------------------------------------------------------------------------

\* The strengthened invariant of the write-ahead log.
THEOREM WalInvariant == WalSpec => []WalInv
<1>1. WalInit => WalInv
  BY WalInitInv
<1>2. WalInv /\ [WalNext]_walVars => WalInv'
  BY WalNextInv
<1>3. QED
  BY <1>1, <1>2, PTL DEF WalSpec

\* Type correctness, whatever writes, syncs and machines fail.
THEOREM WalTypeCorrect == WalSpec => []WalTypeOK
<1>1. WalInv => WalTypeOK
  BY DEF WalInv
<1>2. QED
  BY <1>1, WalInvariant, PTL

\* What append() acknowledged stays in the file, whole, where it was written.
THEOREM AckedStayOnFile == WalSpec => []AckedOnFile
<1>1. WalInv => AckedOnFile
  BY DEF WalInv
<1>2. QED
  BY <1>1, WalInvariant, PTL

\* With sync_on_write no crash makes an acknowledgement lapse.
THEOREM AckedOutliveCrashes == WalSpec => AckedSurvive
<1>1. WalInv /\ [WalNext]_walVars => [SyncOnWrite => acked \subseteq acked']_walVars
  <2> SUFFICES ASSUME WalInv, [WalNext]_walVars, SyncOnWrite, NEW a \in acked
               PROVE  a \in acked'
    OBVIOUS
  <2>1. CASE Crash
    BY <2>1 DEF Crash, WalInv, AckedAreSynced
  <2>2. CASE \E op \in Op : AppendOk(op) \/ AppendTorn(op) \/ AppendUnsynced(op)
    BY <2>2 DEF AppendOk, AppendTorn, AppendUnsynced
  <2>3. CASE Open \/ OpenRefused \/ Sync \/ UNCHANGED walVars
    BY <2>3 DEF Open, OpenRefused, Sync, walVars
  <2>4. QED
    BY <2>1, <2>2, <2>3 DEF WalNext
<1>2. QED
  BY <1>1, WalInvariant, PTL DEF WalSpec, AckedSurvive

\* A clean log never hands an acknowledged number out again, restarts included.
THEOREM NumbersAreFresh == WalSpec => []NextSeqIsFresh
<1>1. WalInv => NextSeqIsFresh
  BY DEF WalInv
<1>2. QED
  BY <1>1, WalInvariant, PTL

\* In a clean file the acknowledged entries are numbered in the order of the file.
THEOREM AckedAreOrdered == WalSpec => []AckedInSeqOrder
<1>1. WalInv => AckedInSeqOrder
  <2> SUFFICES ASSUME WalInv, Clean, NEW a \in acked, NEW b \in acked, a.pos < b.pos
               PROVE  a.seq < b.seq
    BY DEF AckedInSeqOrder
  <2>1. /\ b.pos \in 1..Len(log)
        /\ log[b.pos] = [seq |-> b.seq, op |-> b.op, whole |-> TRUE]
        /\ Len(log) \in Nat
    BY DEF WalInv, AckedOnFile, WalTypeOK
  <2>2. CleanUpTo(b.pos)
    BY <2>1 DEF Clean, CleanUpTo
  <2>3. a.seq < log[b.pos].seq
    BY <2>1, <2>2 DEF WalInv, PrefixInSeqOrder
  <2>4. QED
    BY <2>1, <2>3
<1>2. QED
  BY <1>1, WalInvariant, PTL

\* Replaying a clean file succeeds and returns every acknowledged entry.
THEOREM CleanLogsReplay == WalSpec => []CleanLogReplays
<1>1. WalInv => CleanLogReplays
  <2> SUFFICES ASSUME WalInv, Clean
               PROVE  /\ ~ReplayMayFail(log)
                      /\ \A n \in ReplayEnds(log) : \A a \in acked : a.pos <= n
    BY DEF CleanLogReplays
  <2>0. Len(log) \in Nat
    BY DEF WalInv, WalTypeOK
  <2>1. /\ \A i \in 1..(Len(log) - 1) : log[i].whole
        /\ \A i \in 1..Len(log) : log[i].op \notin Oversized
    BY DEF Clean
  <2>2. ~ReplayMayFail(log)
    BY <2>0, <2>1 DEF ReplayMayFail
  <2>3. ASSUME NEW n \in ReplayEnds(log), NEW a \in acked PROVE a.pos <= n
    <3>1. /\ a.pos \in 1..Len(log)
          /\ log[a.pos] = [seq |-> a.seq, op |-> a.op, whole |-> TRUE]
      BY DEF WalInv, AckedOnFile
    <3>2. log[a.pos].whole
      BY <3>1
    <3>3. n \in 0..Len(log) /\ (n < Len(log) => ~log[n + 1].whole)
      BY <2>0, <2>1, <2>3 DEF ReplayEnds, DecodedEnds, GarbledEnds
    <3>4. n < Len(log) => n + 1 = Len(log)
      BY <2>0, <2>1, <3>3
    <3>5. QED
      BY <2>0, <3>1, <3>2, <3>3, <3>4
  <2>4. QED
    BY <2>2, <2>3
<1>2. QED
  BY <1>1, WalInvariant, PTL
=============================================================================
