---------------------------- MODULE DriftDetector ----------------------------
(***************************************************************************)
(* The references kept by ai-services/drift-detector/main.py, in memory    *)
(* and gone when the process ends.  A handler awaits nothing between its   *)
(* first and last access to them, so it is one step.                       *)
(*                                                                         *)
(* The statistics are left out: a check is known by the batches it         *)
(* compares with and by the reference mean it reports.                     *)
(***************************************************************************)
EXTENDS Integers, Sequences, SequencesExt, FiniteSets

CONSTANTS Concept,
          Batch,       \* lists of embeddings
          Size,        \* how many embeddings a batch has, at least one
          NoReference, \* no reference for a concept
          MaxMeans     \* bound: batches in a mean

Reference == [embeddings : Batch,   \* what checks compare with
              mean : Seq(Batch),    \* the batches averaged, the oldest first
              count : Nat]

ASSUME DriftAssumption == /\ Size \in [Batch -> Nat \ {0}]
                          /\ NoReference \notin Batch \cup Reference
                          /\ MaxMeans \in Nat

VARIABLE references \* _reference_distributions

DriftTypeOK == references \in [Concept -> Reference \cup {NoReference}]

Unregistered == [c \in Concept |-> NoReference]

Known(c) == references[c] # NoReference

\* Bug: the count and the mean go on from the reference that was there.
register_reference_Merged(c, b) ==
  references' = [references EXCEPT ![c] =
    [embeddings |-> b, mean |-> IF Known(c) THEN Append(@.mean, b) ELSE <<b>>, count |-> Size[b]]]

register_reference(c, b) ==
  references' = [references EXCEPT ![c] =
    [embeddings |-> b, mean |-> <<b>>, count |-> Size[b]]]

\* What check_drift answers: the batch it compared with and the mean it reports, or an
\* error for an unknown concept.
check_drift(c) ==
  IF Known(c)
  THEN [ok |-> TRUE, compared |-> references[c].embeddings, mean |-> references[c].mean]
  ELSE [ok |-> FALSE]

\* The embeddings stay.
update_reference(c, b) ==
  IF Known(c)
  THEN references' = [references EXCEPT ![c] =
         [embeddings |-> @.embeddings, mean |-> Append(@.mean, b), count |-> @.count + Size[b]]]
  ELSE register_reference(c, b)

-----------------------------------------------------------------------------

\* However registrations and updates follow one another, the mean of a reference starts from
\* the embeddings that checks compare with, and its count is that of the batches in the
\* mean.  Updates reach these two and not the embeddings, as UpdatesAreCompared shows.
ReferencesAreWhole ==
  \A c \in Concept : Known(c) =>
    /\ references[c].mean[1] = references[c].embeddings
    /\ references[c].count = FoldLeft(LAMBDA n, b : n + Size[b], 0, references[c].mean)

\* update-reference is to "Update reference distribution with new data" (main.py:224): a
\* check compares with all the batches that went into the mean it reports.
UpdatesAreCompared ==
  \A c \in Concept : LET answer == check_drift(c)
                     IN  answer.ok => ToSet(answer.mean) \subseteq {answer.compared}
=============================================================================
