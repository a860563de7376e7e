--------------------------- MODULE ReferenceService ---------------------------
(***************************************************************************)
(* What an application may count on when it calls the drift endpoints      *)
(* through an SDK.  A call is carried out at most once per attempt.  A     *)
(* call that succeeds has been carried out since it was made, and a check  *)
(* answers from the reference of a moment since then.  A call that fails   *)
(* may have been carried out too, and may be later, after newer calls.     *)
(***************************************************************************)
EXTENDS Integers, Sequences

CONSTANTS Concept, Batch, NoReference,
          Call,    \* the calls: records with a kind, a concept and a batch
          Retries, \* attempts per call
          Failed   \* the result of a call that failed

VARIABLES reference, \* per concept, the batch that checks compare with
          calls,     \* the calls made, in order
          done,      \* per call, the attempts that were carried out
          seen,      \* per call, the results they had
          result     \* per call, Failed, or a set: empty until it succeeds

serviceVars == <<reference, calls, done, seen, result>>

Ids == 1..Len(calls)

ServiceInit ==
  /\ reference = [c \in Concept |-> NoReference]
  /\ calls = <<>> /\ done = <<>> /\ seen = <<>> /\ result = <<>>

Make ==
  /\ \E q \in Call : calls' = Append(calls, q)
  /\ done' = Append(done, {}) /\ seen' = Append(seen, {}) /\ result' = Append(result, {})
  /\ UNCHANGED reference

\* At any time, whether or not somebody still waits for it.
CarryOut(i, n) ==
  /\ n \in (1..Retries) \ done[i]
  /\ done' = [done EXCEPT ![i] = @ \cup {n}]
  /\ IF calls[i].kind = "register"
     THEN /\ reference' = [reference EXCEPT ![calls[i].concept] = calls[i].batch]
          /\ seen' = [seen EXCEPT ![i] = @ \cup {calls[i].batch}]
     ELSE /\ seen' = [seen EXCEPT ![i] = @ \cup {reference[calls[i].concept]}]
          /\ UNCHANGED reference
  /\ UNCHANGED <<calls, result>>

\* With what an attempt of its own was answered; a check of a concept without reference
\* does not succeed.
Succeed(i) ==
  /\ result[i] = {}
  /\ \E b \in seen[i] \ {NoReference} : result' = [result EXCEPT ![i] = {b}]
  /\ UNCHANGED <<reference, calls, done, seen>>

Fail(i) ==
  /\ result[i] = {}
  /\ result' = [result EXCEPT ![i] = Failed]
  /\ UNCHANGED <<reference, calls, done, seen>>

\* The first update of a concept, which is not made through the service.
Found ==
  /\ \E c \in Concept, b \in Batch :
       reference[c] = NoReference /\ reference' = [reference EXCEPT ![c] = b]
  /\ UNCHANGED <<calls, done, seen, result>>

Forget ==
  /\ reference' = [c \in Concept |-> NoReference]
  /\ UNCHANGED <<calls, done, seen, result>>

ServiceNext ==
  \/ Make \/ Found \/ Forget
  \/ \E i \in Ids : \/ \E n \in 1..Retries : CarryOut(i, n)
                    \/ Succeed(i) \/ Fail(i)

ServiceSpec == ServiceInit /\ [][ServiceNext]_serviceVars
=============================================================================
