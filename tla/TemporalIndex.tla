---------------------------- MODULE TemporalIndex ----------------------------
(***************************************************************************)
(* The bitemporal index of crates/cdf-temporal/src/lib.rs, with the bounds *)
(* of crates/cdf-common/src/temporal.rs: two ordered maps from times to    *)
(* the sequence numbers recorded for them, and four kinds of query.        *)
(*                                                                         *)
(* A version gets its bounds, transaction time included, before it is      *)
(* inserted, and versions may be inserted in another order than they got   *)
(* them.  Times are numbers: only their order is looked at.                *)
(***************************************************************************)
EXTENDS Integers, Sequences, SequencesExt, FiniteSetsExt, Iterators

CONSTANTS LastInstant, \* bound: the times
          MaxVersions  \* bound: versions

ASSUME TemporalAssumption == LastInstant \in Nat /\ MaxVersions \in Nat

Instant == 0..LastInstant
Forever == LastInstant + 1 \* the end of a version still valid

VARIABLES present,           \* the system clock
          prepared,           \* versions with bounds, not inserted yet
          versions,          \* history: what was inserted, in order
          valid_time_index, transaction_index

temporalVars == <<present, prepared, versions, valid_time_index, transaction_index>>

Bounds == [valid_time_start : Instant, valid_time_end : Instant \cup {Forever},
           transaction_time : Instant]

Version == [bounds : Bounds, seq : 1..MaxVersions]

TemporalTypeOK ==
  /\ present \in Instant
  /\ prepared \subseteq Version
  /\ versions \in Seq(Version)
  /\ valid_time_index \in [Instant -> Seq(1..MaxVersions)]
  /\ transaction_index \in [Instant -> Seq(1..MaxVersions)]

Unindexed == [t \in Instant |-> <<>>]

TemporalInit ==
  /\ present = 0
  /\ prepared = {} /\ versions = <<>>
  /\ valid_time_index = Unindexed /\ transaction_index = Unindexed

Taken == Cardinality(prepared) + Len(versions)

\* TemporalBounds::new: valid from now on; with_valid_range: as the caller says, an end
\* before the start included.
BoundsOf(start, end) ==
  [valid_time_start |-> start, valid_time_end |-> end, transaction_time |-> present]

Prepare ==
  /\ Taken < MaxVersions
  /\ \E start \in Instant, end \in Instant \cup {Forever} :
       prepared' = prepared \cup {[bounds |-> BoundsOf(start, end), seq |-> Taken + 1]}
  /\ UNCHANGED <<present, versions, valid_time_index, transaction_index>>

\* Bug: both maps are filled under the same time.
insert_OneTime(v) ==
  /\ v \in prepared
  /\ prepared' = prepared \ {v}
  /\ versions' = Append(versions, v)
  /\ valid_time_index' =
       [valid_time_index EXCEPT ![v.bounds.valid_time_start] = Append(@, v.seq)]
  /\ transaction_index' =
       [transaction_index EXCEPT ![v.bounds.valid_time_start] = Append(@, v.seq)]
  /\ UNCHANGED present

insert(v) ==
  /\ v \in prepared
  /\ prepared' = prepared \ {v}
  /\ versions' = Append(versions, v)
  /\ valid_time_index' =
       [valid_time_index EXCEPT ![v.bounds.valid_time_start] = Append(@, v.seq)]
  /\ transaction_index' =
       [transaction_index EXCEPT ![v.bounds.transaction_time] = Append(@, v.seq)]
  /\ UNCHANGED present

ClockAdvances ==
  /\ present < LastInstant
  /\ present' = present + 1
  /\ UNCHANGED <<prepared, versions, valid_time_index, transaction_index>>

TemporalNext == Prepare \/ (\E v \in prepared : insert(v)) \/ ClockAdvances

TemporalSpec == TemporalInit /\ [][TemporalNext]_temporalVars

-----------------------------------------------------------------------------
(* Queries *)

\* range(..=t), flattened: the numbers under the times up to t.
UpTo(index, t) == FlattenSeq([i \in 1..(t + 1) |-> index[i - 1]])

\* Bug: the range is open at its end.
query_as_of_valid_Open(t) == UpTo(valid_time_index, t - 1)

query_as_of_valid(t) == UpTo(valid_time_index, t)

query_as_of_transaction(t) == UpTo(transaction_index, t)

query_current ==
  LET used == {u \in Instant : transaction_index[u] # <<>>}
  IN  IF used = {} THEN <<>> ELSE transaction_index[Max(used)]

query_bitemporal(v, t) == Filter(query_as_of_transaction(t), ToSet(query_as_of_valid(v)))

valid_contains(b, t) == b.valid_time_start <= t /\ t < b.valid_time_end

-----------------------------------------------------------------------------
(* Properties *)

SeqsOf(P(_)) == {v.seq : v \in {w \in ToSet(versions) : P(w.bounds)}}

RecordedAt(s) == (CHOOSE v \in ToSet(versions) : v.seq = s).bounds.transaction_time

\* A bitemporal query finds each version once, exactly those that began by the valid
\* time and were recorded by the transaction time, in the order of their records.
BitemporalIsExact ==
  \A v, t \in Instant :
    LET found == query_bitemporal(v, t)
        Known(b) == b.valid_time_start <= v /\ b.transaction_time <= t
    IN  /\ ToSet(found) = SeqsOf(Known)
        /\ IsInjective(found)
        /\ \A i, j \in DOMAIN found : i < j => RecordedAt(found[i]) <= RecordedAt(found[j])

\* The past as it was recorded does not change: once no version with an earlier
\* transaction time is waiting, every answer about an earlier time is final.
PastIsFinal ==
  [][\A t, v \in Instant :
       t < present /\ (\A w \in prepared : t < w.bounds.transaction_time) =>
         /\ query_as_of_transaction(t)' = query_as_of_transaction(t)
         /\ query_bitemporal(v, t)' = query_bitemporal(v, t)]_temporalVars

\* "Return sequence numbers that were valid at the given valid-time t" (lib.rs:55), of
\* versions that are valid at some time.
FoundAreValid ==
  \A v \in ToSet(versions), t \in Instant :
    v.bounds.valid_time_start < v.bounds.valid_time_end /\ v.seq \in ToSet(query_as_of_valid(t)) =>
      valid_contains(v.bounds, t)
=============================================================================
