------------------------------- MODULE MCRequest -------------------------------
(* Instance: one concept; the Python SDK calls the drift endpoints and the      *)
(* TypeScript SDK calls /v1/data; one of the batches is too small to register.  *)
EXTENDS RequestPath, TLC

CONSTANTS c1, b1, b2

MCConcept == {c1}
MCBatch == {b1, b2}
MCSize == b1 :> 2 @@ b2 :> 1

\* Only the kind, and not the batch, of a check matters to the reference.
MCCall == {q \in [sdk : {"python", "typescript"}, at : Routes, kind : {"register", "check"},
                  concept : MCConcept, batch : MCBatch] :
             /\ q.kind = "check" => q.batch = b1
             /\ q.at = IF q.sdk = "python" THEN "detector" ELSE "unified"}
MCRetriesErrors == {"typescript"}
=============================================================================
