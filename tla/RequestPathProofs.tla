-------------------------- MODULE RequestPathProofs --------------------------
(***************************************************************************)
(* Proof that RequestPath implements ReferenceService: whatever is lost,   *)
(* late, repeated or restarted, an attempt is carried out at most once and *)
(* an answer is one that an attempt of its call was given.  And that what  *)
(* the detector keeps of a concept is of one piece.                        *)
(***************************************************************************)
EXTENDS RequestPath, SequenceLemmas

\* A request on its way was not carried out yet, is of an attempt the SDK has made, and is
\* the only one of that attempt.
OnceEach ==
  /\ \A m \in wire : /\ m.n \notin done[m.id]
                     /\ m.n <= attempt[m.id]
                     /\ phase[m.id] = "sending" => m.n # attempt[m.id]
  /\ \A m, o \in wire : m.id = o.id /\ m.n = o.n => m = o
  /\ \A i \in Ids : \A n \in done[i] : /\ n <= attempt[i]
                                       /\ phase[i] = "sending" => n # attempt[i]

\* A response on its way back is what an attempt of its call found.
RepliesWereSeen == \A i \in Ids : \A b \in Batch :
  reply[i] = [ok |-> TRUE, batch |-> b] => b \in seen[i]

RunningHaveNoResult == \A i \in Ids : phase[i] # "ended" => result[i] = {}

PathInv == PathTypeOK /\ OnceEach /\ RepliesWereSeen /\ RunningHaveNoResult

\* g is f with one more element.
Extends(g, f, n, e, S) == /\ g \in [1..(n + 1) -> S]
                          /\ g[n + 1] = e
                          /\ \A i \in 1..n : g[i] = f[i]

LEMMA AppendExtends ==
  ASSUME NEW S, NEW n \in Nat, NEW f \in [1..n -> S], NEW e \in S
  PROVE  Extends(Append(f, e), f, n, e, S)
<1>1. f \in Seq(S)
  OBVIOUS
<1>2. Len(f) = n
  OBVIOUS
<1>3. Append(f, e) \in Seq(S) /\ Len(Append(f, e)) = n + 1
  BY <1>1, <1>2
<1>4. Append(f, e) \in [1..(n + 1) -> S]
  <2>1. ASSUME NEW g \in Seq(S) PROVE g \in [1..Len(g) -> S]
    OBVIOUS
  <2> QED BY <1>3, <2>1
<1>5. Append(f, e)[n + 1] = e /\ \A i \in 1..n : Append(f, e)[i] = f[i]
  BY <1>1, <1>2
<1> QED BY <1>4, <1>5 DEF Extends

LEMMA PathConstants ==
  ASSUME PathTypeOK
  PROVE  /\ Len(calls) \in Nat /\ MaxCalls \in Nat /\ Retries \in Nat \ {0}
         /\ NoReference \notin Batch /\ NoReference \notin Reference
         /\ \A b \in Batch : NoReply # [ok |-> TRUE, batch |-> b]
<1>1. Len(calls) \in Nat
  BY DEF PathTypeOK
<1>2. MaxCalls \in Nat /\ Retries \in Nat \ {0}
  BY PathAssumption DEF PathAssumption
<1>3. NoReference \notin Batch /\ NoReference \notin Reference
  BY DriftAssumption DEF DriftAssumption
<1>4. \A b \in Batch : [ok |-> TRUE, batch |-> b] \in [ok : {TRUE}, batch : Batch]
  OBVIOUS
<1>5. NoReply \notin [ok : {TRUE}, batch : Batch]
  BY PathAssumption DEF PathAssumption
<1> QED BY <1>1, <1>2, <1>3, <1>4, <1>5

LEMMA CallFields ==
  ASSUME PathTypeOK, NEW i \in Ids
  PROVE  /\ calls[i] \in Call /\ calls[i].concept \in Concept /\ calls[i].batch \in Batch
         /\ calls[i].kind \in {"register", "check"} /\ calls[i].at \in Routes
<1>1. calls[i] \in Call
  BY DEF PathTypeOK, Ids
<1>2. calls[i] \in [sdk : {"python", "typescript"}, at : Routes,
                    kind : {"register", "check"}, concept : Concept, batch : Batch]
  BY <1>1, PathAssumption DEF PathAssumption
<1> QED BY <1>1, <1>2

LEMMA WireFields ==
  ASSUME PathTypeOK, NEW m \in wire
  PROVE  /\ m \in Request /\ m.id \in Ids /\ m.n \in 1..Retries /\ m.at \in Routes
BY DEF PathTypeOK, Request

LEMMA PathBegins == PathInit => PathInv
<1> SUFFICES ASSUME PathInit PROVE PathInv
  OBVIOUS
<1>1. Ids = {}
  BY DEF PathInit, Ids
<1>2. DriftTypeOK
  BY DEF PathInit, DriftTypeOK, Unregistered
<1>3. PathTypeOK
  BY <1>1, <1>2, PathAssumption DEF PathAssumption, PathInit, PathTypeOK
<1> QED BY <1>1, <1>3 DEF PathInit, PathInv, OnceEach, RepliesWereSeen, RunningHaveNoResult

LEMMA MakeKeeps ==
  ASSUME PathInv, NEW q \in Call, Make(q)
  PROVE  PathInv'
<1>1. PathTypeOK
  BY DEF PathInv
<1>2. PICK k : k = Len(calls)
  OBVIOUS
<1> k \in Nat
  BY <1>1, <1>2, PathConstants
<1>3. /\ calls' \in Seq(Call) /\ Len(calls') = k + 1 /\ Len(calls') <= MaxCalls
      /\ Ids = 1..k /\ Ids' = 1..(k + 1)
  BY <1>1, <1>2, PathConstants DEF PathTypeOK, Make, Ids
<1>4. /\ attempt' \in [Ids' -> 1..Retries] /\ \A i \in Ids : attempt'[i] = attempt[i]
      /\ phase' \in [Ids' -> {"sending", "waiting", "ended"}]
      /\ \A i \in Ids : phase'[i] = phase[i]
  <2>1. /\ attempt \in [1..k -> 1..Retries] /\ 1 \in 1..Retries
        /\ phase \in [1..k -> {"sending", "waiting", "ended"}]
    BY <1>1, <1>3, PathConstants DEF PathTypeOK
  <2>2 Extends(Append(attempt, 1), attempt, k, 1, 1..Retries)
    BY <2>1, AppendExtends, Zenon
  <2>3 Extends(Append(phase, "sending"), phase, k, "sending", {"sending", "waiting", "ended"})
    BY <2>1, AppendExtends, Zenon
  <2> QED BY <1>3, <2>2, <2>3 DEF Make, Extends
<1>5. /\ reply' \in [Ids' -> Reply] /\ \A i \in Ids : reply'[i] = reply[i]
      /\ reply'[k + 1] = NoReply
  <2>1. NoReply \in Reply /\ reply \in [1..k -> Reply]
    BY <1>1, <1>3 DEF Reply, PathTypeOK
  <2>2 Extends(Append(reply, NoReply), reply, k, NoReply, Reply)
    BY <2>1, AppendExtends, Zenon
  <2> QED BY <1>3, <2>2 DEF Make, Extends
<1>6. /\ result' \in [Ids' -> (SUBSET Batch) \cup {Failed}]
      /\ \A i \in Ids : result'[i] = result[i]
      /\ result'[k + 1] = {}
  <2>1. {} \in (SUBSET Batch) \cup {Failed} /\ result \in [1..k -> (SUBSET Batch) \cup {Failed}]
    BY <1>1, <1>3 DEF PathTypeOK
  <2>2 Extends(Append(result, {}), result, k, {}, (SUBSET Batch) \cup {Failed})
    BY <2>1, AppendExtends, Zenon
  <2> QED BY <1>3, <2>2 DEF Make, Extends
<1>7. /\ done' \in [Ids' -> SUBSET (1..Retries)] /\ \A i \in Ids : done'[i] = done[i]
      /\ done'[k + 1] = {}
  <2>1. {} \in SUBSET (1..Retries) /\ done \in [1..k -> SUBSET (1..Retries)]
    BY <1>1, <1>3 DEF PathTypeOK
  <2>2 Extends(Append(done, {}), done, k, {}, SUBSET (1..Retries))
    BY <2>1, AppendExtends, Zenon
  <2> QED BY <1>3, <2>2 DEF Make, Extends
<1>8. /\ seen' \in [Ids' -> SUBSET (Batch \cup {NoReference})]
      /\ \A i \in Ids : seen'[i] = seen[i]
  <2>1. /\ {} \in SUBSET (Batch \cup {NoReference})
        /\ seen \in [1..k -> SUBSET (Batch \cup {NoReference})]
    BY <1>1, <1>3 DEF PathTypeOK
  <2>2 Extends(Append(seen, {}), seen, k, {}, SUBSET (Batch \cup {NoReference}))
    BY <2>1, AppendExtends, Zenon
  <2> QED BY <1>3, <2>2 DEF Make, Extends
<1>9. references' = references /\ wire' = wire
  BY DEF Make
<1>10. \A m \in wire : m.id \in Ids /\ m.id \in Ids'
  BY <1>1, <1>2, <1>3, WireFields
<1>11. PathTypeOK'
  <2>1. DriftTypeOK'
    BY <1>1, <1>9 DEF PathTypeOK, DriftTypeOK
  <2>2. wire' \subseteq Request /\ \A m \in wire' : m.id \in Ids'
    BY <1>1, <1>9, <1>10 DEF PathTypeOK
  <2> QED BY <1>3, <1>4, <1>5, <1>6, <1>7, <1>8, <2>1, <2>2 DEF PathTypeOK, Reply
<1>12. \A i \in Ids' : i \in Ids \/ i = k + 1
  BY <1>2, <1>3
<1>13. OnceEach'
  BY <1>4, <1>7, <1>9, <1>10, <1>12 DEF PathInv, OnceEach
<1>14. RepliesWereSeen'
  <2>1. \A b \in Batch : reply'[k + 1] # [ok |-> TRUE, batch |-> b]
    BY <1>1, <1>5, PathConstants, Zenon
  <2> QED BY <1>5, <1>8, <1>12, <2>1 DEF PathInv, RepliesWereSeen
<1>15. RunningHaveNoResult'
  BY <1>4, <1>6, <1>12 DEF PathInv, RunningHaveNoResult
<1> QED BY <1>11, <1>13, <1>14, <1>15 DEF PathInv

LEMMA SendKeeps ==
  ASSUME PathInv, NEW i \in Ids, Send(i)
  PROVE  PathInv'
<1>1. PathTypeOK /\ i \in 1..MaxCalls
  BY PathConstants DEF PathInv, PathTypeOK, Ids
<1>2. PICK r : r = [id |-> i, n |-> attempt[i], at |-> calls[i].at]
  OBVIOUS
<1>3. r \in Request /\ r.id = i /\ r.n = attempt[i]
  BY <1>1, <1>2, CallFields DEF PathTypeOK, Request
<1>4. /\ wire' = wire \cup {r} /\ phase[i] = "sending"
      /\ phase' = [phase EXCEPT ![i] = "waiting"]
      /\ UNCHANGED <<references, calls, attempt, reply, result, done, seen>> /\ Ids' = Ids
  BY <1>2 DEF Send, history, Ids
<1>5. /\ phase' \in [Ids -> {"sending", "waiting", "ended"}]
      /\ phase'[i] = "waiting" /\ \A j \in Ids : j # i => phase'[j] = phase[j]
  BY <1>1, <1>4 DEF PathTypeOK
<1>6. PathTypeOK'
  BY <1>1, <1>3, <1>4, <1>5 DEF PathTypeOK, DriftTypeOK
<1>7. OnceEach'
  <2>1. r.n \notin done[i] /\ \A m \in wire : ~(m.id = i /\ m.n = r.n)
    BY <1>3, <1>4 DEF PathInv, OnceEach
  <2>2. \A m \in wire : m.id \in Ids
    BY <1>1, WireFields
  <2>3. attempt[i] <= attempt[i]
    BY <1>1 DEF PathTypeOK
  <2> QED BY <1>3, <1>4, <1>5, <2>1, <2>2, <2>3 DEF PathInv, OnceEach
<1>8. RepliesWereSeen' /\ RunningHaveNoResult'
  BY <1>4, <1>5 DEF PathInv, RepliesWereSeen, RunningHaveNoResult
<1> QED BY <1>6, <1>7, <1>8 DEF PathInv

LEMMA RaiseKeeps ==
  ASSUME PathInv, NEW i \in Ids, NEW broken \in BOOLEAN, phase[i] # "ended", Raise(i, broken)
  PROVE  PathInv'
<1>1. PathTypeOK
  BY DEF PathInv
<1>2. /\ reply' = [reply EXCEPT ![i] = NoReply]
      /\ UNCHANGED <<references, calls, wire, done, seen>> /\ Ids' = Ids
  BY DEF Raise, history, Ids
<1>3. /\ reply' \in [Ids -> Reply] /\ reply'[i] = NoReply
      /\ \A j \in Ids : j # i => reply'[j] = reply[j]
  BY <1>1, <1>2 DEF PathTypeOK, Reply
<1>4. RepliesWereSeen'
  <2>1. \A b \in Batch : reply'[i] # [ok |-> TRUE, batch |-> b]
    BY <1>1, <1>3, PathConstants, Zenon
  <2> QED BY <1>2, <1>3, <2>1 DEF PathInv, RepliesWereSeen
<1>5. \A m \in wire : m.id \in Ids /\ m.n \in 1..Retries
  BY <1>1, WireFields
<1>6. CASE Repeat(i, broken)
  <2>1. /\ attempt' = [attempt EXCEPT ![i] = attempt[i] + 1]
        /\ phase' = [phase EXCEPT ![i] = "sending"]
        /\ result' = result
    BY <1>6 DEF Raise
  <2>2. attempt[i] \in 1..Retries /\ attempt[i] < Retries /\ Retries \in Nat
    BY <1>1, <1>6, PathConstants DEF PathTypeOK, Repeat
  <2>3. /\ attempt' \in [Ids -> 1..Retries] /\ attempt'[i] = attempt[i] + 1
        /\ \A j \in Ids : j # i => attempt'[j] = attempt[j]
        /\ phase' \in [Ids -> {"sending", "waiting", "ended"}] /\ phase'[i] = "sending"
        /\ \A j \in Ids : j # i => phase'[j] = phase[j]
    BY <1>1, <2>1, <2>2 DEF PathTypeOK
  <2>4. PathTypeOK'
    BY <1>1, <1>2, <1>3, <2>1, <2>3 DEF PathTypeOK, DriftTypeOK, Reply
  <2>5. OnceEach'
    <3>1. \A n \in 1..Retries : n <= attempt[i] => n <= attempt[i] + 1 /\ n # attempt[i] + 1
      BY <2>2
    <3>2. \A j \in Ids : done[j] \subseteq 1..Retries
      BY <1>1 DEF PathTypeOK
    <3>3. \A m \in wire : /\ m.n \notin done'[m.id]
                          /\ m.n <= attempt'[m.id]
                          /\ phase'[m.id] = "sending" => m.n # attempt'[m.id]
      BY <1>2, <1>5, <2>3, <3>1 DEF PathInv, OnceEach
    <3>4. \A j \in Ids : \A n \in done[j] : /\ n <= attempt'[j]
                                            /\ phase'[j] = "sending" => n # attempt'[j]
      BY <2>3, <3>1, <3>2 DEF PathInv, OnceEach
    <3> QED BY <1>2, <3>3, <3>4 DEF PathInv, OnceEach
  <2>6. RunningHaveNoResult'
    BY <1>2, <2>1, <2>3 DEF PathInv, RunningHaveNoResult
  <2> QED BY <1>4, <2>4, <2>5, <2>6 DEF PathInv
<1>7. CASE ~Repeat(i, broken)
  <2>1. /\ phase' = [phase EXCEPT ![i] = "ended"]
        /\ result' = [result EXCEPT ![i] = Failed]
        /\ attempt' = attempt
    BY <1>7 DEF Raise
  <2>2. /\ phase' \in [Ids -> {"sending", "waiting", "ended"}] /\ phase'[i] = "ended"
        /\ \A j \in Ids : j # i => phase'[j] = phase[j]
    BY <1>1, <2>1 DEF PathTypeOK
  <2>3. /\ result' \in [Ids -> (SUBSET Batch) \cup {Failed}]
        /\ \A j \in Ids : j # i => result'[j] = result[j]
    BY <1>1, <2>1 DEF PathTypeOK
  <2>4. PathTypeOK'
    BY <1>1, <1>2, <1>3, <2>1, <2>2, <2>3 DEF PathTypeOK, DriftTypeOK, Reply
  <2>5. OnceEach'
    BY <1>2, <1>5, <2>1, <2>2 DEF PathInv, OnceEach
  <2>6. RunningHaveNoResult'
    BY <1>2, <2>2, <2>3 DEF PathInv, RunningHaveNoResult
  <2> QED BY <1>4, <2>4, <2>5, <2>6 DEF PathInv
<1> QED BY <1>6, <1>7

\* A response that is returned was given to an attempt of the call.
LEMMA ReturnFacts ==
  ASSUME PathInv, NEW i \in Ids, Return(i), reply[i].ok
  PROVE  \E b \in Batch : /\ b \in seen[i] /\ b # NoReference
                          /\ result' = [result EXCEPT ![i] = {b}]
<1>1. reply[i] \in Reply /\ reply[i] # NoReply
  BY DEF PathInv, PathTypeOK, Return
<1>2. reply[i] \in [ok : {TRUE}, batch : Batch]
  <2>1. [ok |-> FALSE].ok = FALSE
    OBVIOUS
  <2> QED BY <1>1, <2>1 DEF Reply
<1>3. PICK b \in Batch : reply[i] = [ok |-> TRUE, batch |-> b] /\ reply[i].batch = b
  BY <1>2
<1>4. b \in seen[i]
  BY <1>3 DEF PathInv, RepliesWereSeen
<1>5. NoReference \notin Batch
  BY DriftAssumption DEF DriftAssumption
<1> QED BY <1>3, <1>4, <1>5 DEF Return

LEMMA ReturnKeeps ==
  ASSUME PathInv, NEW i \in Ids, Return(i), reply[i].ok
  PROVE  PathInv'
<1>1. PathTypeOK
  BY DEF PathInv
<1>2. PICK b \in Batch : result' = [result EXCEPT ![i] = {b}]
  BY ReturnFacts
<1>3. /\ phase' = [phase EXCEPT ![i] = "ended"]
      /\ UNCHANGED <<references, calls, attempt, reply, wire, done, seen>> /\ Ids' = Ids
  BY DEF Return, history, Ids
<1>4. /\ phase' \in [Ids -> {"sending", "waiting", "ended"}] /\ phase'[i] = "ended"
      /\ \A j \in Ids : j # i => phase'[j] = phase[j]
  BY <1>1, <1>3 DEF PathTypeOK
<1>5. /\ result' \in [Ids -> (SUBSET Batch) \cup {Failed}]
      /\ \A j \in Ids : j # i => result'[j] = result[j]
  BY <1>1, <1>2 DEF PathTypeOK
<1>6. PathTypeOK'
  BY <1>1, <1>3, <1>4, <1>5 DEF PathTypeOK, DriftTypeOK
<1>7. OnceEach'
  <2>1. \A m \in wire : m.id \in Ids
    BY <1>1, WireFields
  <2> QED BY <1>3, <1>4, <2>1 DEF PathInv, OnceEach
<1>8. RepliesWereSeen' /\ RunningHaveNoResult'
  BY <1>3, <1>4, <1>5 DEF PathInv, RepliesWereSeen, RunningHaveNoResult
<1> QED BY <1>6, <1>7, <1>8 DEF PathInv

\* A response changes no other call's, and adds only what it says.
LEMMA RespondedFacts ==
  ASSUME PathTypeOK, NEW m \in wire, NEW answer \in Reply
  PROVE  /\ Responded(m, answer) \in [Ids -> Reply]
         /\ \A i \in Ids : \/ Responded(m, answer)[i] = reply[i]
                           \/ i = m.id /\ Responded(m, answer)[i] = answer
<1>1. reply \in [Ids -> Reply] /\ m.id \in Ids
  BY WireFields DEF PathTypeOK
<1>2. CASE phase[m.id] = "waiting" /\ attempt[m.id] = m.n
  BY <1>1, <1>2 DEF Responded
<1>3. CASE ~(phase[m.id] = "waiting" /\ attempt[m.id] = m.n)
  BY <1>1, <1>3 DEF Responded
<1> QED BY <1>2, <1>3

LEMMA DispatchKeeps ==
  ASSUME PathInv, NEW m \in wire, dispatch(m)
  PROVE  PathInv'
<1>1. PathTypeOK
  BY DEF PathInv
<1>2. PICK r : r = [id |-> m.id, n |-> m.n, at |-> "detector"]
  OBVIOUS
<1>3. r \in Request /\ r.id = m.id /\ r.n = m.n /\ m.id \in Ids
  BY <1>1, <1>2, WireFields DEF Request, Routes
<1>4. /\ wire' = (wire \ {m}) \cup {r} \/ wire' = wire \ {m}
      /\ UNCHANGED <<references, calls, attempt, phase, result, done, seen>> /\ Ids' = Ids
  BY <1>2 DEF dispatch, callVars, history, Ids
<1>5. [ok |-> FALSE] \in Reply /\ \A b : [ok |-> FALSE] # [ok |-> TRUE, batch |-> b]
  <2>1. \A b : [ok |-> FALSE].ok = FALSE /\ [ok |-> TRUE, batch |-> b].ok = TRUE
    OBVIOUS
  <2> QED BY <2>1 DEF Reply
<1>6. /\ reply' \in [Ids -> Reply]
      /\ \A i \in Ids : reply'[i] = reply[i] \/ reply'[i] = [ok |-> FALSE]
  <2>1. CASE reply' = reply
    BY <1>1, <2>1 DEF PathTypeOK
  <2>2. CASE reply' = Responded(m, [ok |-> FALSE])
    BY <1>1, <1>5, <2>2, RespondedFacts
  <2> QED BY <2>1, <2>2 DEF dispatch
<1>7. PathTypeOK'
  <2>1. wire' \subseteq Request /\ \A o \in wire' : o.id \in Ids
    BY <1>1, <1>3, <1>4 DEF PathTypeOK
  <2> QED BY <1>1, <1>4, <1>6, <2>1 DEF PathTypeOK, DriftTypeOK, Reply
<1>8. OnceEach'
  BY <1>3, <1>4 DEF PathInv, OnceEach
<1>9. RepliesWereSeen'
  BY <1>4, <1>5, <1>6 DEF PathInv, RepliesWereSeen
<1>10. RunningHaveNoResult'
  BY <1>4 DEF PathInv, RunningHaveNoResult
<1> QED BY <1>7, <1>8, <1>9, <1>10 DEF PathInv

-----------------------------------------------------------------------------

\* What checks compare with: the reference of the abstract service.
Compared == [c \in Concept |-> IF Known(c) THEN references[c].embeddings ELSE NoReference]

LEMMA RegisterFacts ==
  ASSUME DriftTypeOK, NEW c \in Concept, NEW b \in Batch, register_reference(c, b)
  PROVE  DriftTypeOK' /\ Compared' = [Compared EXCEPT ![c] = b]
<1>1. PICK r : r = [embeddings |-> b, mean |-> <<b>>, count |-> Size[b]]
  OBVIOUS
<1>2. r \in Reference /\ r.embeddings = b /\ r # NoReference
  <2>1. Size[b] \in Nat /\ <<b>> \in Seq(Batch) /\ NoReference \notin Reference
    BY DriftAssumption DEF DriftAssumption
  <2>2. r \in Reference /\ r.embeddings = b
    BY <1>1, <2>1 DEF Reference
  <2> QED BY <2>1, <2>2
<1>3. /\ references' = [references EXCEPT ![c] = r]
      /\ references \in [Concept -> Reference \cup {NoReference}]
  BY <1>1 DEF register_reference, DriftTypeOK
<1>4. /\ references' \in [Concept -> Reference \cup {NoReference}]
      /\ references'[c] = r /\ \A d \in Concept : d # c => references'[d] = references[d]
  BY <1>2, <1>3
<1> QED BY <1>2, <1>4 DEF DriftTypeOK, Compared, Known

LEMMA UpdateFacts ==
  ASSUME DriftTypeOK, NEW c \in Concept, NEW b \in Batch, update_reference(c, b)
  PROVE  /\ DriftTypeOK'
         /\ \/ Compared' = Compared
            \/ Compared[c] = NoReference /\ Compared' = [Compared EXCEPT ![c] = b]
<1>1. CASE ~Known(c)
  <2>1. Compared[c] = NoReference
    BY <1>1 DEF Compared
  <2> QED BY <1>1, <2>1, RegisterFacts DEF update_reference
<1>2. CASE Known(c)
  <2>1. PICK o : o = references[c]
    OBVIOUS
  <2>2. PICK r : r = [embeddings |-> o.embeddings, mean |-> Append(o.mean, b),
                      count |-> o.count + Size[b]]
    OBVIOUS
  <2>3. o \in Reference /\ NoReference \notin Reference /\ Size[b] \in Nat
    BY <1>2, <2>1, DriftAssumption DEF DriftAssumption, DriftTypeOK, Known
  <2>4. o.embeddings \in Batch /\ o.mean \in Seq(Batch) /\ o.count \in Nat
    BY <2>3 DEF Reference
  <2>5. r \in Reference /\ r.embeddings = o.embeddings
    <3>1. Append(o.mean, b) \in Seq(Batch) /\ o.count + Size[b] \in Nat
      BY <2>3, <2>4
    <3> QED BY <2>2, <2>4, <3>1 DEF Reference
  <2>6. /\ references' = [references EXCEPT ![c] = r]
        /\ references \in [Concept -> Reference \cup {NoReference}]
    BY <1>2, <2>1, <2>2 DEF update_reference, DriftTypeOK
  <2>7. /\ references' \in [Concept -> Reference \cup {NoReference}]
        /\ references'[c] = r /\ \A d \in Concept : d # c => references'[d] = references[d]
    BY <2>5, <2>6
  <2>8. r # NoReference
    BY <2>3, <2>5
  <2>9. \A d \in Concept : Compared'[d] = Compared[d]
    BY <1>2, <2>1, <2>5, <2>7, <2>8 DEF Compared, Known
  <2> QED BY <2>7, <2>9 DEF DriftTypeOK, Compared
<1> QED BY <1>1, <1>2

\* What a request finds or puts there, and answers.
LEMMA HandleFacts ==
  ASSUME PathTypeOK, NEW m \in wire, Handle(m)
  PROVE  \E b \in Batch \cup {NoReference} :
           /\ seen' = [seen EXCEPT ![m.id] = @ \cup {b}]
           /\ reply' = Responded(m, IF b \in Batch THEN [ok |-> TRUE, batch |-> b]
                                   ELSE [ok |-> FALSE])
           /\ DriftTypeOK'
           /\ IF calls[m.id].kind = "register"
              THEN /\ b = calls[m.id].batch
                   /\ Compared' = [Compared EXCEPT ![calls[m.id].concept] = b]
              ELSE b = Compared[calls[m.id].concept] /\ references' = references
<1>1. PICK c, b : c = calls[m.id].concept /\ b = calls[m.id].batch
  OBVIOUS
<1>2. c \in Concept /\ b \in Batch /\ DriftTypeOK /\ NoReference \notin Batch
  BY <1>1, WireFields, CallFields, PathConstants DEF PathTypeOK
<1>3. CASE calls[m.id].kind = "register"
  <2>1. /\ register_reference(c, b)
        /\ reply' = Responded(m, [ok |-> TRUE, batch |-> b])
        /\ seen' = [seen EXCEPT ![m.id] = @ \cup {b}]
    BY <1>1, <1>3 DEF Handle
  <2>2. DriftTypeOK' /\ Compared' = [Compared EXCEPT ![c] = b]
    BY <1>2, <2>1, RegisterFacts
  <2> QED BY <1>1, <1>2, <1>3, <2>1, <2>2
<1>4. CASE calls[m.id].kind # "register"
  <2>1. PICK found : found = Compared[c]
    OBVIOUS
  <2>2. CASE Known(c)
    <3>1. check_drift(c).ok = TRUE /\ check_drift(c).compared = found
      BY <1>2, <2>1, <2>2 DEF check_drift, Compared
    <3>2. found \in Batch
      <4>1. references[c] \in Reference
        BY <1>2, <2>2 DEF DriftTypeOK, Known
      <4> QED BY <1>2, <2>1, <2>2, <4>1 DEF Compared, Reference
    <3>3. /\ reply' = Responded(m, [ok |-> TRUE, batch |-> found])
          /\ seen' = [seen EXCEPT ![m.id] = @ \cup {found}]
          /\ references' = references
      BY <1>1, <1>4, <3>1 DEF Handle
    <3>4. DriftTypeOK'
      BY <1>2, <3>3 DEF DriftTypeOK
    <3> QED BY <1>1, <1>4, <2>1, <3>2, <3>3, <3>4
  <2>3. CASE ~Known(c)
    <3>1. check_drift(c).ok = FALSE /\ found = NoReference
      BY <1>2, <2>1, <2>3 DEF check_drift, Compared
    <3>2. /\ reply' = Responded(m, [ok |-> FALSE])
          /\ seen' = [seen EXCEPT ![m.id] = @ \cup {found}]
          /\ references' = references
      BY <1>1, <1>4, <3>1 DEF Handle
    <3>3. DriftTypeOK'
      BY <1>2, <3>2 DEF DriftTypeOK
    <3> QED BY <1>1, <1>2, <1>4, <2>1, <3>1, <3>2, <3>3
  <2> QED BY <2>2, <2>3
<1> QED BY <1>3, <1>4

LEMMA HandleKeeps ==
  ASSUME PathInv, NEW m \in wire, Handle(m)
  PROVE  PathInv'
<1>1. PathTypeOK
  BY DEF PathInv
<1>2. m \in Request /\ m.id \in Ids /\ m.n \in 1..Retries
  BY <1>1, WireFields
<1>3. PICK b \in Batch \cup {NoReference} :
        /\ seen' = [seen EXCEPT ![m.id] = @ \cup {b}]
        /\ reply' = Responded(m, IF b \in Batch THEN [ok |-> TRUE, batch |-> b]
                                ELSE [ok |-> FALSE])
        /\ DriftTypeOK'
  BY <1>1, HandleFacts
<1>4. /\ wire' = wire \ {m} /\ done' = [done EXCEPT ![m.id] = @ \cup {m.n}]
      /\ UNCHANGED <<calls, attempt, phase, result>> /\ Ids' = Ids
  BY DEF Handle, callVars, Ids
<1>5. /\ done' \in [Ids -> SUBSET (1..Retries)] /\ done'[m.id] = done[m.id] \cup {m.n}
      /\ \A i \in Ids : i # m.id => done'[i] = done[i]
  BY <1>1, <1>2, <1>4 DEF PathTypeOK
<1>6. /\ seen' \in [Ids -> SUBSET (Batch \cup {NoReference})]
      /\ \A i \in Ids : seen[i] \subseteq seen'[i]
      /\ b \in seen'[m.id]
  BY <1>1, <1>2, <1>3 DEF PathTypeOK
<1>7. PICK answer : answer = IF b \in Batch THEN [ok |-> TRUE, batch |-> b] ELSE [ok |-> FALSE]
  OBVIOUS
<1>8. answer \in Reply /\ \A a \in Batch : answer = [ok |-> TRUE, batch |-> a] => a = b
  <2>1. \A a, x : [ok |-> FALSE].ok = FALSE /\ [ok |-> TRUE, batch |-> a].ok = TRUE
                 /\ ([ok |-> TRUE, batch |-> a] = [ok |-> TRUE, batch |-> x] => a = x)
    OBVIOUS
  <2>2. CASE b \in Batch
    BY <1>7, <2>1, <2>2 DEF Reply
  <2>3. CASE b \notin Batch
    BY <1>7, <2>1, <2>3 DEF Reply
  <2> QED BY <2>2, <2>3
<1>9. /\ reply' \in [Ids -> Reply]
      /\ \A i \in Ids : reply'[i] = reply[i] \/ (i = m.id /\ reply'[i] = answer)
  <2>1. reply' = Responded(m, answer)
    BY <1>3, <1>7
  <2> QED BY <1>1, <1>8, <2>1, RespondedFacts
<1>10. PathTypeOK'
  <2>1. wire' \subseteq Request /\ \A o \in wire' : o.id \in Ids
    BY <1>1, <1>4 DEF PathTypeOK
  <2> QED BY <1>1, <1>3, <1>4, <1>5, <1>6, <1>9, <2>1 DEF PathTypeOK, Reply
<1>11. OnceEach'
  <2>1. \A o \in wire' : o.n \notin done'[o.id]
    <3> SUFFICES ASSUME NEW o \in wire' PROVE o.n \notin done'[o.id]
      OBVIOUS
    <3>1. o \in wire /\ o # m /\ o.n \notin done[o.id] /\ ~(o.id = m.id /\ o.n = m.n)
      BY <1>4 DEF PathInv, OnceEach
    <3>2. o.id \in Ids
      BY <1>1, <3>1, WireFields
    <3> QED BY <1>5, <3>1, <3>2
  <2>2. \A i \in Ids : \A n \in done'[i] : /\ n <= attempt[i]
                                           /\ phase[i] = "sending" => n # attempt[i]
    BY <1>2, <1>5 DEF PathInv, OnceEach
  <2> QED BY <1>4, <2>1, <2>2 DEF PathInv, OnceEach
<1>12. RepliesWereSeen'
  BY <1>4, <1>6, <1>8, <1>9 DEF PathInv, RepliesWereSeen
<1>13. RunningHaveNoResult'
  BY <1>4 DEF PathInv, RunningHaveNoResult
<1> QED BY <1>10, <1>11, <1>12, <1>13 DEF PathInv

LEMMA DetectorKeeps ==
  ASSUME PathInv, Restart \/ \E c \in Concept, b \in Batch : Update(c, b)
  PROVE  PathInv'
<1>1. PathTypeOK
  BY DEF PathInv
<1>2. /\ wire' \subseteq wire /\ UNCHANGED <<calls, attempt, phase, reply, result, done, seen>>
      /\ Ids' = Ids
  BY DEF Restart, Update, callVars, history, Ids
<1>3. DriftTypeOK'
  <2>1. CASE Restart
    BY <2>1 DEF Restart, Unregistered, DriftTypeOK
  <2>2. CASE \E c \in Concept, b \in Batch : Update(c, b)
    BY <1>1, <2>2, UpdateFacts DEF Update, PathTypeOK
  <2> QED BY <2>1, <2>2
<1>4. PathTypeOK'
  BY <1>1, <1>2, <1>3 DEF PathTypeOK
<1> QED BY <1>2, <1>4 DEF PathInv, OnceEach, RepliesWereSeen, RunningHaveNoResult

\* The SDK's steps: a request is sent, a response returned, or an exception raised.
LEMMA ProgressSteps ==
  ASSUME NEW i \in Ids, Progress(i)
  PROVE  \/ Send(i)
         \/ Return(i) /\ reply[i].ok
         \/ phase[i] # "ended" /\ \E broken \in BOOLEAN : Raise(i, broken)
<1>1. CASE Return(i) /\ ~reply[i].ok
  BY <1>1 DEF Return
<1>2. CASE \E broken \in BOOLEAN : Refuse(i, broken) \/ GiveUp(i, broken)
  BY <1>2 DEF Refuse, GiveUp
<1> QED BY <1>1, <1>2 DEF Progress

LEMMA PathStep == PathInv /\ [PathNext]_pathVars => PathInv'
<1> SUFFICES ASSUME PathInv, [PathNext]_pathVars PROVE PathInv'
  OBVIOUS
<1>1. CASE UNCHANGED pathVars
  BY <1>1 DEF pathVars, PathInv, PathTypeOK, DriftTypeOK, OnceEach, RepliesWereSeen,
     RunningHaveNoResult, Ids
<1>2. ASSUME NEW i \in Ids, Progress(i) PROVE PathInv'
  BY <1>2, ProgressSteps, SendKeeps, ReturnKeeps, RaiseKeeps
<1> QED BY <1>1, <1>2, MakeKeeps, DispatchKeeps, HandleKeeps, DetectorKeeps DEF PathNext

\* What is on its way, to the detector or back, fits what was done and seen so far.
THEOREM PathInvariant == PathSpec => []PathInv
  BY PathBegins, PathStep, PTL DEF PathSpec

\* The calls, the requests on their way and the detector's references keep their types.
THEOREM PathTypeCorrect == PathSpec => []PathTypeOK
<1>1. PathInv => PathTypeOK
  BY DEF PathInv
<1> QED BY <1>1, PathInvariant, PTL

\* The attempts a call may still make, and what is left of the one it makes.
ToGo(i) == 3 * (Retries - attempt[i])
           + (IF phase[i] = "sending" THEN 2 ELSE IF phase[i] = "waiting" THEN 1 ELSE 0)

\* No step of anybody sets a call back, and its own steps bring it forward.
GoesForward ==
  \A i \in Ids : /\ ToGo(i) \in Nat /\ ToGo(i)' \in Nat /\ ToGo(i)' <= ToGo(i)
                 /\ Progress(i) => ToGo(i)' < ToGo(i)

LEMMA ToGoIsNat ==
  ASSUME PathTypeOK, NEW i \in Ids
  PROVE  ToGo(i) \in Nat
<1>1. Retries \in Nat /\ attempt[i] \in 1..Retries
  BY PathConstants DEF PathTypeOK
<1>2. PICK n \in Nat : n = Retries - attempt[i]
  BY <1>1
<1> QED BY <1>2 DEF ToGo

\* A call's own step brings it forward, whatever it is, and no other call with it.
LEMMA ProgressLowers ==
  ASSUME PathTypeOK, NEW i \in Ids, Progress(i)
  PROVE  /\ ToGo(i)' < ToGo(i)
         /\ \A j \in Ids : j # i => attempt'[j] = attempt[j] /\ phase'[j] = phase[j]
         /\ Ids' = Ids
<1>1. /\ Retries \in Nat /\ attempt[i] \in 1..Retries
      /\ attempt \in [Ids -> 1..Retries] /\ phase \in [Ids -> {"sending", "waiting", "ended"}]
  BY PathConstants DEF PathTypeOK
<1>2. PICK n \in Nat : n = Retries - attempt[i]
  BY <1>1
<1>3. CASE Send(i)
  <2>1. attempt' = attempt /\ calls' = calls /\ phase' = [phase EXCEPT ![i] = "waiting"]
        /\ phase[i] = "sending"
    BY <1>3 DEF Send
  <2> QED BY <1>1, <1>2, <2>1 DEF ToGo, Ids
<1>4. CASE Return(i) /\ reply[i].ok
  <2>1. attempt' = attempt /\ calls' = calls /\ phase' = [phase EXCEPT ![i] = "ended"]
        /\ phase[i] = "waiting"
    BY <1>4 DEF Return
  <2> QED BY <1>1, <1>2, <2>1 DEF ToGo, Ids
<1>5. ASSUME phase[i] # "ended", NEW broken \in BOOLEAN, Raise(i, broken)
      PROVE  /\ ToGo(i)' < ToGo(i)
             /\ \A j \in Ids : j # i => attempt'[j] = attempt[j] /\ phase'[j] = phase[j]
             /\ Ids' = Ids
  <2>1. calls' = calls
    BY <1>5 DEF Raise
  <2>2. phase[i] \in {"sending", "waiting"}
    BY <1>1, <1>5
  <2>3. CASE Repeat(i, broken)
    <3>1. attempt' = [attempt EXCEPT ![i] = @ + 1] /\ phase' = [phase EXCEPT ![i] = "sending"]
      BY <1>5, <2>3 DEF Raise
    <3>2. attempt'[i] = attempt[i] + 1 /\ phase'[i] = "sending"
      BY <1>1, <3>1
    <3>3. ToGo(i)' = 3 * (n - 1) + 2
      BY <1>1, <1>2, <3>2 DEF ToGo
    <3>4. 3 * (n - 1) + 2 < ToGo(i)
      BY <1>2, <2>2 DEF ToGo
    <3> QED BY <1>1, <2>1, <3>1, <3>3, <3>4 DEF Ids
  <2>4. CASE ~Repeat(i, broken)
    <3>1. attempt' = attempt /\ phase' = [phase EXCEPT ![i] = "ended"]
      BY <1>5, <2>4 DEF Raise
    <3> QED BY <1>1, <1>2, <2>1, <2>2, <3>1 DEF ToGo, Ids
  <2> QED BY <2>3, <2>4
<1> QED BY <1>3, <1>4, <1>5, ProgressSteps

\* Why every call returns, once the loop of its SDK and the timer of the gateway's client
\* run: no late answer, repeated request or restart gives it further attempts.
THEOREM CallsGoForward == PathSpec => [][GoesForward]_pathVars
<1>1. ASSUME PathTypeOK, PathTypeOK', [PathNext]_pathVars PROVE [GoesForward]_pathVars
  <2> SUFFICES ASSUME PathNext, NEW i \in Ids
               PROVE  /\ ToGo(i) \in Nat /\ ToGo(i)' \in Nat /\ ToGo(i)' <= ToGo(i)
                      /\ Progress(i) => ToGo(i)' < ToGo(i)
    BY <1>1 DEF GoesForward
  <2>1. ToGo(i) \in Nat
    BY <1>1, ToGoIsNat
  <2>2. CASE Progress(i)
    <3>1. ToGo(i)' < ToGo(i) /\ Ids' = Ids
      BY <1>1, <2>2, ProgressLowers
    <3>2. ToGo(i)' \in Nat
      <4>1. /\ Retries \in Nat /\ attempt'[i] \in 1..Retries
        BY <1>1, <3>1, PathConstants DEF PathTypeOK
      <4>2. PICK n \in Nat : n = Retries - attempt'[i]
        BY <4>1
      <4> QED BY <4>2 DEF ToGo
    <3> QED BY <2>1, <3>1, <3>2
  <2>3. CASE ~Progress(i)
    <3>1. i \in Ids' /\ attempt'[i] = attempt[i] /\ phase'[i] = phase[i]
      <4>1. ASSUME NEW q \in Call, Make(q)
            PROVE  i \in Ids' /\ attempt'[i] = attempt[i] /\ phase'[i] = phase[i]
        <5>1. PICK k \in Nat : k = Len(calls)
          BY <1>1, PathConstants
        <5>2. Ids = 1..k /\ Ids' = 1..(k + 1)
          BY <1>1, <4>1, <5>1 DEF Make, Ids, PathTypeOK
        <5>3. /\ attempt \in [1..k -> 1..Retries] /\ 1 \in 1..Retries
              /\ phase \in [1..k -> {"sending", "waiting", "ended"}]
          BY <1>1, <5>2, PathConstants DEF PathTypeOK
        <5>4. Extends(Append(attempt, 1), attempt, k, 1, 1..Retries)
          BY <5>3, AppendExtends, Zenon
        <5>5. Extends(Append(phase, "sending"), phase, k, "sending", {"sending", "waiting", "ended"})
          BY <5>3, AppendExtends, Zenon
        <5> QED BY <4>1, <5>2, <5>4, <5>5 DEF Make, Extends
      <4>2. ASSUME NEW j \in Ids, Progress(j)
            PROVE  i \in Ids' /\ attempt'[i] = attempt[i] /\ phase'[i] = phase[i]
        BY <1>1, <2>3, <4>2, ProgressLowers
      <4>3. CASE \/ \E m \in wire : dispatch(m) \/ Handle(m)
                 \/ \E c \in Concept, b \in Batch : Update(c, b)
                 \/ Restart
        BY <4>3 DEF dispatch, Handle, Update, Restart, callVars, Ids
      <4> QED BY <4>1, <4>2, <4>3 DEF PathNext
    <3>2. ToGo(i)' = ToGo(i)
      BY <3>1 DEF ToGo
    <3> QED BY <2>1, <2>3, <3>2
  <2> QED BY <2>2, <2>3
<1> QED BY <1>1, PathTypeCorrect, PTL DEF PathSpec

-----------------------------------------------------------------------------

LEMMA StepsArePromised ==
  ASSUME PathInv, PathInv', [PathNext]_pathVars
  PROVE  [Promise!ServiceNext]_(Promise!serviceVars)
<1>1. PathTypeOK /\ Promise!Ids = Ids
  BY DEF PathInv, Promise!Ids, Ids
<1>2. ASSUME UNCHANGED <<calls, done, seen, result>>, Compared' = Compared
      PROVE  UNCHANGED Promise!serviceVars
  BY <1>2 DEF Promise!serviceVars, Compared
<1>3. ASSUME UNCHANGED references PROVE Compared' = Compared
  BY <1>3 DEF Compared, Known
<1>4. CASE UNCHANGED pathVars
  BY <1>2, <1>3, <1>4 DEF pathVars
<1>5. ASSUME NEW q \in Call, Make(q) PROVE Promise!Make
  <2>1. Compared' = Compared
    BY <1>3, <1>5 DEF Make
  <2> QED BY <1>5, <2>1 DEF Make, Promise!Make, Compared
<1>6. ASSUME NEW i \in Ids, Send(i) PROVE UNCHANGED Promise!serviceVars
  BY <1>2, <1>3, <1>6 DEF Send, history
<1>7. ASSUME NEW i \in Ids, Return(i), reply[i].ok PROVE Promise!Succeed(i)
  <2>1. PICK b \in Batch : /\ b \in seen[i] /\ b # NoReference
                           /\ result' = [result EXCEPT ![i] = {b}]
    BY <1>7, ReturnFacts
  <2>2. result[i] = {}
    BY <1>7 DEF Return, PathInv, RunningHaveNoResult
  <2>3. UNCHANGED <<calls, done, seen>> /\ Compared' = Compared
    BY <1>3, <1>7 DEF Return, history
  <2> QED BY <2>1, <2>2, <2>3 DEF Promise!Succeed, Compared
<1>8. ASSUME NEW i \in Ids, NEW broken \in BOOLEAN, phase[i] # "ended", Raise(i, broken)
      PROVE  Promise!Fail(i) \/ UNCHANGED Promise!serviceVars
  <2>1. UNCHANGED <<calls, done, seen>> /\ Compared' = Compared
    BY <1>3, <1>8 DEF Raise, history
  <2>2. CASE Repeat(i, broken)
    BY <1>2, <1>8, <2>1, <2>2 DEF Raise
  <2>3. CASE ~Repeat(i, broken)
    <3>1. result' = [result EXCEPT ![i] = Failed]
      BY <1>8, <2>3 DEF Raise
    <3>2. result[i] = {}
      BY <1>8 DEF PathInv, RunningHaveNoResult
    <3> QED BY <2>1, <3>1, <3>2 DEF Promise!Fail, Compared
  <2> QED BY <2>2, <2>3
<1>9. ASSUME NEW m \in wire, dispatch(m) PROVE UNCHANGED Promise!serviceVars
  BY <1>2, <1>3, <1>9 DEF dispatch, callVars, history
<1>10. ASSUME NEW m \in wire, Handle(m) PROVE Promise!CarryOut(m.id, m.n)
  <2>1. PICK b \in Batch \cup {NoReference} :
          /\ seen' = [seen EXCEPT ![m.id] = @ \cup {b}]
          /\ IF calls[m.id].kind = "register"
             THEN /\ b = calls[m.id].batch
                  /\ Compared' = [Compared EXCEPT ![calls[m.id].concept] = b]
             ELSE b = Compared[calls[m.id].concept] /\ references' = references
    BY <1>1, <1>10, HandleFacts
  <2>2. m.n \in (1..Retries) \ done[m.id]
    BY <1>1, WireFields DEF PathInv, OnceEach
  <2>3. /\ done' = [done EXCEPT ![m.id] = @ \cup {m.n}]
        /\ UNCHANGED <<calls, result>>
    BY <1>10 DEF Handle, callVars
  <2>4. CASE calls[m.id].kind = "register"
    BY <2>1, <2>2, <2>3, <2>4 DEF Promise!CarryOut, Compared
  <2>5. CASE calls[m.id].kind # "register"
    <3>1. Compared' = Compared
      BY <1>3, <2>1, <2>5
    <3> QED BY <2>1, <2>2, <2>3, <2>5, <3>1 DEF Promise!CarryOut, Compared
  <2> QED BY <2>4, <2>5
<1>11. ASSUME NEW c \in Concept, NEW b \in Batch, Update(c, b)
       PROVE  Promise!Found \/ UNCHANGED Promise!serviceVars
  <2>1. UNCHANGED <<calls, done, seen, result>> /\ update_reference(c, b) /\ DriftTypeOK
    BY <1>1, <1>11 DEF Update, callVars, history, PathTypeOK
  <2>2. CASE Compared' = Compared
    BY <1>2, <2>1, <2>2
  <2>3. CASE Compared[c] = NoReference /\ Compared' = [Compared EXCEPT ![c] = b]
    BY <2>1, <2>3 DEF Promise!Found, Compared
  <2> QED BY <2>1, <2>2, <2>3, UpdateFacts
<1>12. ASSUME Restart PROVE Promise!Forget
  <2>1. Compared' = [c \in Concept |-> NoReference]
    BY <1>12 DEF Restart, Unregistered, Compared, Known
  <2> QED BY <1>12, <2>1 DEF Restart, callVars, history, Promise!Forget, Compared
<1>13. ASSUME NEW i \in Ids, Progress(i) PROVE [Promise!ServiceNext]_(Promise!serviceVars)
  BY <1>1, <1>6, <1>7, <1>8, <1>13, ProgressSteps DEF Promise!ServiceNext
<1>14. ASSUME NEW m \in wire, Handle(m) PROVE Promise!ServiceNext
  BY <1>1, <1>10, <1>14, WireFields DEF Promise!ServiceNext
<1> QED BY <1>4, <1>5, <1>9, <1>11, <1>12, <1>13, <1>14 DEF PathNext, Promise!ServiceNext

\* Whatever is lost, late or repeated, for any number of calls and attempts and through
\* any restarts of the detector, applications get what ReferenceService promises.
THEOREM PathKeepsPromise == PathSpec => KeepsPromise
<1>1. PathInit => Promise!ServiceInit
  BY DEF PathInit, Unregistered, Known, Promise!ServiceInit
<1>2. PathInv /\ PathInv' /\ [PathNext]_pathVars => [Promise!ServiceNext]_(Promise!serviceVars)
  BY StepsArePromised
<1> QED BY <1>1, <1>2, PathInvariant, PTL DEF PathSpec, KeepsPromise, Promise!ServiceSpec
-----------------------------------------------------------------------------
(* The references of the detector *)

\* How many embeddings went into a mean.
Total(s) == FoldLeft(LAMBDA n, b : n + Size[b], 0, s)

TotalsTo(f, s, n) ==
  f = [D \in SUBSET (1..n) |-> IF D = {} THEN 0 ELSE f[D \ {Max(D)}] + Size[s[Max(D)]]]

LEMMA TotalExists ==
  ASSUME NEW s \in Seq(Batch)
  PROVE  \E f : TotalsTo(f, s, Len(s)) /\ Total(s) = f[1..Len(s)]
<1>1. PICK n \in Nat : n = Len(s) /\ DOMAIN s = 1..n
  OBVIOUS
<1>2. \E f : TotalsTo(f, s, n)
  <2> DEFINE G == [p \in Nat \X Batch |-> p[1] + Size[p[2]]]
  <2>1. G \in [Nat \X Batch -> Nat] /\ \A t \in Nat, b \in Batch : G[<<t, b>>] = t + Size[b]
    BY DriftAssumption
  <2>2. 0 \in Nat
    OBVIOUS
  <2> HIDE DEF G
  <2>3. PICK f \in [SUBSET (1..n) -> Nat] : FoldsBy(f, G, 0, s, n)
    <3>1. \A m \in 0..Len(s) : \E f \in [SUBSET (1..m) -> Nat] : FoldsBy(f, G, 0, s, m)
      BY <2>1, <2>2, FoldExists
    <3>2. n \in 0..Len(s)
      BY <1>1
    <3> QED BY <3>1, <3>2
  <2>4. ASSUME NEW D \in SUBSET (1..n)
        PROVE  f[D] = IF D = {} THEN 0 ELSE f[D \ {Max(D)}] + Size[s[Max(D)]]
    <3> SUFFICES ASSUME D # {} PROVE f[D] = f[D \ {Max(D)}] + Size[s[Max(D)]]
      BY <2>3 DEF FoldsBy
    <3>1. Max(D) \in 1..n
      BY MaxIsGreatest
    <3>2. s[Max(D)] \in Batch
      BY <1>1, <3>1
    <3>3. f[D \ {Max(D)}] \in Nat
      BY <2>3
    <3> QED BY <2>1, <2>3, <3>2, <3>3 DEF FoldsBy
  <2>5. TotalsTo(f, s, n)
    BY <2>3, <2>4 DEF TotalsTo
  <2> QED BY <2>5
<1>3. Total(s) = (CHOOSE f : TotalsTo(f, s, n))[1..n]
  BY <1>1 DEF Total, FoldLeft, MapThenFoldSet, TotalsTo
<1> QED BY <1>1, <1>2, <1>3

LEMMA TotalOfNone == Total(<<>>) = 0
<1>1. PICK s : s = <<>>
  OBVIOUS
<1>2. s \in Seq(Batch) /\ Len(s) = 0 /\ 1..0 = {}
  BY <1>1
<1>3. PICK f : TotalsTo(f, s, 0) /\ Total(s) = f[1..0]
  BY <1>2, TotalExists
<1>4. f[{}] = 0
  BY <1>3 DEF TotalsTo
<1> QED BY <1>1, <1>2, <1>3, <1>4

\* A batch more adds its size.
LEMMA TotalOfMore ==
  ASSUME NEW s \in Seq(Batch), NEW x \in Batch
  PROVE  Total(Append(s, x)) = Total(s) + Size[x]
<1>1. PICK r : r = Append(s, x)
  OBVIOUS
<1>2. PICK n \in Nat : n = Len(s)
  OBVIOUS
<1>3. r \in Seq(Batch) /\ Len(r) = n + 1 /\ r[n + 1] = x /\ \A i \in 1..n : r[i] = s[i]
  BY <1>1, <1>2
<1>4. PICK f : TotalsTo(f, s, n) /\ Total(s) = f[1..n]
  BY <1>2, TotalExists
<1>5. PICK g : TotalsTo(g, r, n + 1) /\ Total(r) = g[1..(n + 1)]
  BY <1>3, TotalExists
<1>6. \A k \in 1..(n + 1) : g[1..k] = g[1..(k - 1)] + Size[r[k]]
  <2> SUFFICES ASSUME NEW k \in 1..(n + 1) PROVE g[1..k] = g[1..(k - 1)] + Size[r[k]]
    OBVIOUS
  <2>1. 1..k \in SUBSET (1..(n + 1)) /\ 1..k # {} /\ Max(1..k) = k /\ (1..k) \ {k} = 1..(k - 1)
    <3>1. PICK o \in Nat : o = n + 1
      OBVIOUS
    <3>2. k \in 1..o
      BY <3>1
    <3> QED BY <3>1, <3>2, FirstPlaces
  <2> QED BY <1>5, <2>1 DEF TotalsTo
<1>7. \A k \in 1..n : f[1..k] = f[1..(k - 1)] + Size[s[k]]
  <2> SUFFICES ASSUME NEW k \in 1..n PROVE f[1..k] = f[1..(k - 1)] + Size[s[k]]
    OBVIOUS
  <2>1. 1..k \in SUBSET (1..n) /\ 1..k # {} /\ Max(1..k) = k /\ (1..k) \ {k} = 1..(k - 1)
    BY FirstPlaces
  <2> QED BY <1>4, <2>1 DEF TotalsTo
<1>8. g[1..0] = f[1..0]
  <2>1. 1..0 = {}
    OBVIOUS
  <2> QED BY <1>4, <1>5, <2>1 DEF TotalsTo
<1>9. \A k \in 1..n : g[1..(k - 1)] = f[1..(k - 1)] => g[1..k] = f[1..k]
  <2>1. \A k \in 1..n : k \in 1..(n + 1) /\ r[k] = s[k]
    BY <1>3
  <2> QED BY <1>6, <1>7, <2>1
<1>10. g[1..n] = f[1..n]
  BY <1>8, <1>9, FoldsAgree
<1>11. n + 1 \in 1..(n + 1) /\ (n + 1) - 1 = n
  OBVIOUS
<1>12. g[1..(n + 1)] = g[1..n] + Size[x]
  BY <1>3, <1>6, <1>11
<1> QED BY <1>1, <1>4, <1>5, <1>10, <1>12

\* One batch.
LEMMA TotalOfOne == \A b \in Batch : Total(<<b>>) = Size[b]
<1> SUFFICES ASSUME NEW b \in Batch PROVE Total(<<b>>) = Size[b]
  OBVIOUS
<1>1. Size[b] \in Nat
  BY DriftAssumption
<1>2. PICK s : s = <<>>
  OBVIOUS
<1>3. s \in Seq(Batch) /\ Append(s, b) = <<b>>
  BY <1>2
<1>4. Total(Append(s, b)) = 0 + Size[b]
  BY <1>2, <1>3, TotalOfMore, TotalOfNone
<1> QED BY <1>1, <1>3, <1>4

\* A reference whose mean begins with the embeddings and is of as many as it counts.
Whole(r) == /\ Len(r.mean) >= 1 /\ r.mean[1] = r.embeddings
            /\ r.count = Total(r.mean)

AllAreWhole == \A c \in Concept : Known(c) => Whole(references[c])

LEMMA RegisteredAreWhole ==
  ASSUME DriftTypeOK, AllAreWhole, NEW c \in Concept, NEW b \in Batch, register_reference(c, b)
  PROVE  AllAreWhole'
<1>1. PICK r : r = [embeddings |-> b, mean |-> <<b>>, count |-> Size[b]]
  OBVIOUS
<1>2. Whole(r)
  <2>1. Total(<<b>>) = Size[b]
    BY TotalOfOne
  <2>2. Len(<<b>>) = 1 /\ <<b>>[1] = b
    OBVIOUS
  <2>3. r.embeddings = b /\ r.mean = <<b>> /\ r.count = Size[b]
    BY <1>1
  <2> QED BY <2>1, <2>2, <2>3 DEF Whole
<1>3. references'[c] = r /\ \A d \in Concept : d # c => references'[d] = references[d]
  BY <1>1 DEF register_reference, DriftTypeOK
<1> QED BY <1>2, <1>3 DEF AllAreWhole, Known, Whole

LEMMA UpdatedAreWhole ==
  ASSUME DriftTypeOK, AllAreWhole, NEW c \in Concept, NEW b \in Batch, update_reference(c, b)
  PROVE  AllAreWhole'
<1>1. CASE ~Known(c)
  BY <1>1, RegisteredAreWhole DEF update_reference
<1>2. CASE Known(c)
  <2>1. PICK o : o = references[c]
    OBVIOUS
  <2>2. PICK r : r = [embeddings |-> o.embeddings, mean |-> Append(o.mean, b),
                      count |-> o.count + Size[b]]
    OBVIOUS
  <2>3. o \in Reference /\ Whole(o)
    BY <1>2, <2>1 DEF DriftTypeOK, AllAreWhole, Known
  <2>4. o.embeddings \in Batch /\ o.mean \in Seq(Batch) /\ o.count \in Nat
    BY <2>3 DEF Reference
  <2>5. PICK s : s = o.mean
    OBVIOUS
  <2>6. /\ s \in Seq(Batch) /\ Len(s) >= 1 /\ s[1] = o.embeddings /\ o.count = Total(s)
        /\ Len(Append(s, b)) >= 1 /\ Append(s, b)[1] = s[1]
    BY <2>3, <2>4, <2>5 DEF Whole
  <2>7. Total(Append(s, b)) = Total(s) + Size[b]
    BY <2>6, TotalOfMore
  <2>8. Whole(r)
    <3>1. r.embeddings = o.embeddings /\ r.mean = Append(s, b) /\ r.count = o.count + Size[b]
      BY <2>2, <2>5
    <3> QED BY <2>6, <2>7, <3>1 DEF Whole
  <2>9. references'[c] = r /\ \A d \in Concept : d # c => references'[d] = references[d]
    BY <1>2, <2>1, <2>2 DEF update_reference, DriftTypeOK
  <2> QED BY <2>8, <2>9 DEF AllAreWhole, Known, Whole
<1> QED BY <1>1, <1>2

LEMMA WholeStep ==
  ASSUME PathTypeOK, AllAreWhole, [PathNext]_pathVars
  PROVE  AllAreWhole'
<1>1. DriftTypeOK
  BY DEF PathTypeOK
<1>2. ASSUME UNCHANGED references PROVE AllAreWhole'
  BY <1>2 DEF AllAreWhole, Known, Whole
<1>3. CASE UNCHANGED pathVars
  BY <1>2, <1>3 DEF pathVars
<1>4. ASSUME NEW q \in Call, Make(q) PROVE AllAreWhole'
  BY <1>2, <1>4 DEF Make
<1>5. ASSUME NEW i \in Ids, Progress(i) PROVE AllAreWhole'
  BY <1>2, <1>5, ProgressSteps DEF Send, Return, Raise
<1>6. ASSUME NEW m \in wire, dispatch(m) PROVE AllAreWhole'
  BY <1>2, <1>6 DEF dispatch
<1>7. ASSUME NEW m \in wire, Handle(m) PROVE AllAreWhole'
  <2>1. calls[m.id].concept \in Concept /\ calls[m.id].batch \in Batch
    BY WireFields, CallFields
  <2>2. CASE calls[m.id].kind = "register"
    <3>1. register_reference(calls[m.id].concept, calls[m.id].batch)
      BY <1>7, <2>2 DEF Handle
    <3> QED BY <1>1, <2>1, <3>1, RegisteredAreWhole
  <2>3. CASE calls[m.id].kind # "register"
    BY <1>2, <1>7, <2>3 DEF Handle
  <2> QED BY <2>2, <2>3
<1>8. ASSUME NEW c \in Concept, NEW b \in Batch, Update(c, b) PROVE AllAreWhole'
  BY <1>1, <1>8, UpdatedAreWhole DEF Update
<1>9. CASE Restart
  BY <1>9 DEF Restart, Unregistered, AllAreWhole, Known
<1> QED BY <1>3, <1>4, <1>5, <1>6, <1>7, <1>8, <1>9 DEF PathNext

\* Whoever registers and updates in whatever order, and however often the detector is
\* started anew, the mean of a reference begins with the embeddings that checks compare
\* with, and its count is that of the batches in the mean.
THEOREM ReferencesStayWhole == PathSpec => []ReferencesAreWhole
<1>1. PathInit => AllAreWhole
  BY DEF PathInit, Unregistered, AllAreWhole, Known
<1>2. PathTypeOK /\ AllAreWhole /\ [PathNext]_pathVars => AllAreWhole'
  BY WholeStep
<1>3. AllAreWhole => ReferencesAreWhole
  BY DEF AllAreWhole, Whole, ReferencesAreWhole, Total
<1> QED BY <1>1, <1>2, <1>3, PathTypeCorrect, PTL DEF PathSpec
=============================================================================
