-------------------------- MODULE MCStorageParts --------------------------
(* The parts of a storage node on their own: the log under faults, its         *)
(* rotation, the memtable with its scans, and the bitemporal index.  One of    *)
(* them takes the steps of a behaviour and the others stay as they began.      *)
EXTENDS WriteAheadLog, WalRotation, TableScan, TemporalIndex, TLC

VARIABLE part

allVars == <<part, walVars, rotationVars, vars, temporalVars>>

\* Names of which one begins another, and ids that a name may hold.
MCTables == {<<1>>, <<1, 1>>, <<2>>}
MCRowIds == {<<0>>, <<1>>}
MCKeys == {t \o <<0>> \o i : t \in MCTables, i \in MCRowIds}

\* Writers are only compared for equality.
Symmetric == Permutations(Writer)

MCInit ==
  /\ part \in {"log", "rotation", "memtable", "temporal"}
  /\ WalInit /\ RotationInit /\ Init /\ TemporalInit

MCNext ==
  \/ part = "log" /\ WalNext /\ UNCHANGED <<part, rotationVars, vars, temporalVars>>
  \/ part = "rotation" /\ RotationNext /\ UNCHANGED <<part, walVars, vars, temporalVars>>
  \/ part = "memtable" /\ Next /\ UNCHANGED <<part, walVars, rotationVars, temporalVars>>
  \/ part = "temporal" /\ TemporalNext /\ UNCHANGED <<part, walVars, rotationVars, vars>>

\* Type correctness of the parts.
NodeTypeOK == WalTypeOK /\ RotationTypeOK /\ TypeOK /\ TemporalTypeOK

MCSpec == MCInit /\ [][MCNext]_allVars
=============================================================================
