------------------------------ MODULE RequestPath ------------------------------
(***************************************************************************)
(* A call of an application on its way to the drift detector: the retry    *)
(* loop of the SDK (client.py, client.ts), the gateway's handlers and HTTP *)
(* client, cdf-unified for /v1/data, and the detector, with requests that  *)
(* are lost or late, and a detector that restarts.                         *)
(*                                                                         *)
(* A request that nobody waits for any more may still be carried out: the  *)
(* detector does not notice that its client has gone.  One that is lost or *)
(* cancelled is one that is never carried out.                             *)
(***************************************************************************)
EXTENDS DriftDetector

CONSTANTS Call,          \* the calls that applications make
          RetriesErrors, \* the SDKs that repeat a call after an error response too
          Retries,       \* attempts per call (retries)
          Failed,        \* the result of a call that failed
          NoReply,       \* no response yet
          MaxCalls       \* bound: calls made

Routes == {"detector", "unified"} \* /v1/drift/*, /v1/data

ASSUME PathAssumption ==
  /\ Call \subseteq [sdk : {"python", "typescript"}, at : Routes,
                     kind : {"register", "check"}, concept : Concept, batch : Batch]
  /\ RetriesErrors \subseteq {"python", "typescript"}
  /\ Retries \in Nat \ {0} /\ MaxCalls \in Nat
  /\ NoReply \notin [ok : {TRUE}, batch : Batch] \cup {[ok |-> FALSE]}

VARIABLES calls,   \* the calls made, in order
          attempt, \* per call, the turn of the SDK's loop it is in
          phase,   \* per call: the SDK is about to send, waits for the gateway, or ended
          reply,   \* per call, the response on its way back through the gateway
          wire,    \* the requests on their way, or held, past the gateway
          result,  \* per call, what it returned: {} while it runs
          done,    \* history: per call, the attempts that the detector carried out
          seen     \* history: per call, the batches it found or put there

callVars == <<calls, attempt, phase>>
history == <<done, seen>>
pathVars == <<references, calls, attempt, phase, reply, wire, result, done, seen>>

Ids == 1..Len(calls)
Request == [id : 1..MaxCalls, n : 1..Retries, at : Routes]
Reply == [ok : {TRUE}, batch : Batch] \cup {[ok |-> FALSE], NoReply}

PathTypeOK ==
  /\ DriftTypeOK
  /\ calls \in Seq(Call) /\ Len(calls) <= MaxCalls
  /\ attempt \in [Ids -> 1..Retries]
  /\ phase \in [Ids -> {"sending", "waiting", "ended"}]
  /\ reply \in [Ids -> Reply]
  /\ wire \subseteq Request /\ \A m \in wire : m.id \in Ids
  /\ result \in [Ids -> (SUBSET Batch) \cup {Failed}]
  /\ done \in [Ids -> SUBSET (1..Retries)]
  /\ seen \in [Ids -> SUBSET (Batch \cup {NoReference})]

PathInit ==
  /\ references = Unregistered
  /\ calls = <<>> /\ attempt = <<>> /\ phase = <<>> /\ reply = <<>> /\ wire = {}
  /\ result = <<>> /\ done = <<>> /\ seen = <<>>

Make(q) ==
  /\ Len(calls) < MaxCalls
  /\ calls' = Append(calls, q) /\ attempt' = Append(attempt, 1)
  /\ phase' = Append(phase, "sending") /\ reply' = Append(reply, NoReply)
  /\ result' = Append(result, {}) /\ done' = Append(done, {}) /\ seen' = Append(seen, {})
  /\ UNCHANGED <<references, wire>>

\* The same check in the gateway's handler and in validate of cdf-unified.
Valid(q) == q.kind = "register" => Size[q.batch] >= 2

-----------------------------------------------------------------------------
\* The SDK and the gateway

\* The gateway forwards the request.
Send(i) ==
  /\ phase[i] = "sending"
  /\ calls[i].at = "detector" => Valid(calls[i])
  /\ wire' = wire \cup {[id |-> i, n |-> attempt[i], at |-> calls[i].at]}
  /\ phase' = [phase EXCEPT ![i] = "waiting"]
  /\ UNCHANGED <<references, calls, attempt, reply, result, history>>

\* Bug: the loop runs once more than it should.
Repeat_OneMore(i, broken) == attempt[i] <= Retries /\ (broken \/ calls[i].sdk \in RetriesErrors)

\* How the loop of the SDK goes on after an exception: broken when no response came.
Repeat(i, broken) == attempt[i] < Retries /\ (broken \/ calls[i].sdk \in RetriesErrors)

Raise(i, broken) ==
  /\ reply' = [reply EXCEPT ![i] = NoReply]
  /\ IF Repeat(i, broken)
     THEN /\ attempt' = [attempt EXCEPT ![i] = @ + 1]
          /\ phase' = [phase EXCEPT ![i] = "sending"]
          /\ UNCHANGED result
     ELSE /\ phase' = [phase EXCEPT ![i] = "ended"]
          /\ result' = [result EXCEPT ![i] = Failed]
          /\ UNCHANGED attempt
  /\ UNCHANGED <<references, calls, wire, history>>

\* The gateway is not reached, or responds itself: 400, 401, 429.
Refuse(i, broken) == phase[i] = "sending" /\ Raise(i, broken)

\* Bug: the client of the gateway has no time limit, and notices lost connections only.
GiveUp_Untimed(i, broken) ==
  /\ phase[i] = "waiting"
  /\ \E m \in wire : m.id = i /\ m.n = attempt[i]
  /\ Raise(i, broken)

\* Bug: at its time limit the gateway's client sends the request again.
GiveUp_Resends(i, broken) ==
  /\ phase[i] = "waiting"
  /\ wire' = wire \cup {[id |-> i, n |-> attempt[i], at |-> calls[i].at]}
  /\ UNCHANGED <<references, callVars, reply, result, history>>

\* The gateway's time limit (502), or the caller's connection breaks; the request goes on.
GiveUp(i, broken) == phase[i] = "waiting" /\ Raise(i, broken)

\* The response reaches the caller: the downstream's error is a 502.
Return(i) ==
  /\ phase[i] = "waiting" /\ reply[i] # NoReply
  /\ IF reply[i].ok
     THEN /\ phase' = [phase EXCEPT ![i] = "ended"]
          /\ result' = [result EXCEPT ![i] = {reply[i].batch}]
          /\ UNCHANGED <<references, calls, attempt, reply, wire, history>>
     ELSE Raise(i, FALSE)

-----------------------------------------------------------------------------
\* Past the gateway

\* Only the attempt that is waited for gets a response.
Responded(m, answer) ==
  IF phase[m.id] = "waiting" /\ attempt[m.id] = m.n
  THEN [reply EXCEPT ![m.id] = answer] ELSE reply

\* cdf-unified validates the request and passes it on.
dispatch(m) ==
  /\ m.at = "unified"
  /\ IF Valid(calls[m.id])
     THEN /\ wire' = (wire \ {m}) \cup {[id |-> m.id, n |-> m.n, at |-> "detector"]}
          /\ UNCHANGED reply
     ELSE /\ wire' = wire \ {m}
          /\ reply' = Responded(m, [ok |-> FALSE])
  /\ UNCHANGED <<references, callVars, result, history>>

\* The detector carries a request out, whether or not somebody waits for it, and responds
\* with the batch it compared with or registered.
Handle(m) ==
  LET q == calls[m.id]
      answer == check_drift(q.concept)
      found == IF answer.ok THEN answer.compared ELSE NoReference
  IN
  /\ m.at = "detector"
  /\ wire' = wire \ {m}
  /\ done' = [done EXCEPT ![m.id] = @ \cup {m.n}]
  /\ IF q.kind = "register"
     THEN /\ register_reference(q.concept, q.batch)
          /\ reply' = Responded(m, [ok |-> TRUE, batch |-> q.batch])
          /\ seen' = [seen EXCEPT ![m.id] = @ \cup {q.batch}]
     ELSE /\ reply' = Responded(m, IF answer.ok THEN [ok |-> TRUE, batch |-> found]
                                   ELSE [ok |-> FALSE])
          /\ seen' = [seen EXCEPT ![m.id] = @ \cup {found}]
          /\ UNCHANGED references
  /\ UNCHANGED <<callVars, result>>

\* Another client calls the detector itself: the gateway has no route for updates.
Update(c, b) ==
  /\ Known(c) => Len(references[c].mean) < MaxMeans
  /\ update_reference(c, b)
  /\ UNCHANGED <<callVars, reply, wire, result, history>>

\* The detector's process is started anew.
Restart ==
  /\ references' = Unregistered
  /\ wire' = {m \in wire : m.at = "unified"}
  /\ UNCHANGED <<callVars, reply, result, history>>

-----------------------------------------------------------------------------

Progress(i) == \/ Send(i) \/ Return(i)
               \/ \E broken \in BOOLEAN : Refuse(i, broken) \/ GiveUp(i, broken)

PathNext ==
  \/ \E q \in Call : Make(q)
  \/ \E i \in Ids : Progress(i)
  \/ \E m \in wire : dispatch(m) \/ Handle(m)
  \/ \E c \in Concept, b \in Batch : Update(c, b)
  \/ Restart

\* The SDK's loop runs and the client's timer goes off; nothing is assumed of the services
\* behind the gateway.
PathSpec == /\ PathInit /\ [][PathNext]_pathVars
            /\ \A i \in 1..MaxCalls : WF_pathVars(i \in Ids /\ Progress(i))

-----------------------------------------------------------------------------

Promise == INSTANCE ReferenceService WITH
  reference <- [c \in Concept |-> IF Known(c) THEN references[c].embeddings ELSE NoReference]

\* Lost and late requests, retries and restarts included, applications can count on what
\* ReferenceService says: an attempt is carried out at most once, a call that succeeds was
\* carried out since it was made, and its answer is from the reference of such a moment,
\* not from one that an attempt of another call found.
KeepsPromise == Promise!ServiceSpec

\* Every call returns, whatever happens behind the gateway: the time limit of the gateway's
\* client (clients.go:40) and the bounded loop of the SDK (client.py:55) see to that.
EveryCallReturns ==
  \A i \in 1..MaxCalls : (i \in Ids) ~> (i \in Ids /\ phase[i] = "ended")
=============================================================================
