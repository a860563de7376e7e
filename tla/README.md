# A verification model of the Cognitive Data Fabric

TLA+ modules that model the parts of this repository whose behaviour is hardest
to see from its tests, configurations that model-check them with TLC on small
instances, and proofs that TLAPS checks for every value of the constants.
`PROJECT.json` lists the runs, the mutations each property detects, the source
lines every definition stands for, and the theorems.

## The system

The repository is a data platform of several processes and libraries:

| Component | Code | State | Operations | Talks to |
| --- | --- | --- | --- | --- |
| Write-ahead log | `crates/cdf-storage/src/wal.rs` | a file of length-prefixed records, `next_seq`, a handle | open, append, sync, replay, rotate | the file system |
| MemTable | `crates/cdf-storage/src/memtable.rs` | a locked map of encoded keys, an atomic size | insert, get, scan, at_capacity, drain | |
| Storage engine | `crates/cdf-storage/src/engine.rs`, `main.rs` | the two above, an atomic sequence | open, insert, get, delete, scan_table | log, memtable |
| Segments, compaction | `segment.rs`, `compact.rs` | | not implemented | |
| Graph index | `crates/cdf-graph/src/lib.rs` | edges, their compressed copy, a stale flag | add_node, add_edge, refresh, get_neighbors, bfs, shortest_path | |
| Vector index | `crates/cdf-vector/src/hnsw.rs` | layered proximity graph, entry point | insert, search, remove | |
| Temporal index | `crates/cdf-temporal/src/lib.rs` | two ordered maps from times to sequence numbers | insert, four queries | |
| Access lists | `crates/cdf-auth/src/acl.rs` | a vector of grants with expiry times | grant, revoke, check, build_permissions | the clock |
| Tokens | `crates/cdf-auth/src/jwt.rs` | a secret and an address per service | generate, verify, refresh | the clock |
| Roles and policies | `crates/cdf-auth/src/rbac.rs`, `lib.rs` | roles of a principal, a list of rules | with_role, resolve_roles, add_rule, evaluate | the clock |
| Gateway | `cmd/cdf-gateway/*.go` | token buckets, API keys, counters | rate limit, authenticate, forward | router, unified, embed, drift, meta |
| Unified service | `cmd/cdf-unified/*.go` | a counter | validate, dispatch | embed, drift, router |
| Router | `cmd/cdf-router/main.go` | shard map, filled at the start | parse, route | |
| Meta service | `cmd/cdf-meta/main.go` | members, schemas | none is reachable | |
| Drift detector | `ai-services/drift-detector/main.py` | references per concept, in memory | register, check, update | |
| Embedding service | `ai-services/embed-service/main.py` | lazily loaded models | embed | |
| SDKs | `sdk/*` | a session | calls with retries | gateway |

A request goes from an SDK (which retries on timeouts) through the gateway's
rate limiter and authentication, over HTTP with a timeout to the unified service
or the router, and from there to the AI services. The storage node is a library
and a process of its own: its `main.rs` opens the engine and serves nothing yet,
so its callers are the concurrent tasks of whoever embeds the engine.

Where the behaviour is hard:

- **concurrency**: callers of the engine interleave between the log, the
  memtable and the sequence; inserts race a drain of the memtable; entries of an
  access list expire while a summary of them is built;
- **failure**: writes, syncs and renames that fail part of the way, a crash of
  the machine that keeps any prefix of what was not synced, a restart; requests
  that are lost or late, and a detector that forgets;
- **retries**: three attempts of an SDK, over a gateway that gives up after 10 s
  while the services behind it go on;
- **staleness**: the graph's compressed copy against its edge list, a reference's
  embeddings against its mean;
- **time**: the refill of the token buckets; the last moment of a grant, a token
  or a version.

What makes each component correct, all of it stated in a module (and, where
marked †, proved for every value of the constants):

- log: acknowledged entries stay on file† and outlive crashes†; as long as the file
  is clean (no interior torn record and no oversized one) they are numbered in file
  order†, are replayed†, and their numbers are not handed out again†;
- rotation: the files hold gapless runs of numbers†, which follow the appends
  between restarts†;
- memtable: no insert is lost to a drain†, the size lags by an entry per writer at
  most†, a scan finds exactly its table's rows before any other, if no name holds a
  zero byte†;
- engine: it behaves as an atomic store that forgets its rows in a crash†, its memory
  never runs ahead of its log†, the sequence names a record†, a row with one writer is
  what the log says until the first crash†;
- graph: lookups do not depend on when the copy was rebuilt†; searches find
  exactly the shortest paths† and end;
- vector index: every node stays reachable while the index grows†, a wide beam is
  exact†, nothing removed is found†, calls end;
- temporal index: a query finds exactly what had begun and was recorded by its times†,
  versions that have ended included, and the recorded past is final†;
- limiter: no window exceeds the limit†, no refusal short of it†;
- access lists: a revoked question stays denied†, only grants allow†, a revocation
  takes no entry that did not grant what it revokes†, though it takes such an entry
  whole, a summary lies between two checks†;
- tokens: a lapsed session is over for good†, refreshes keep whom it is for†;
- roles and policies: resolving roles once is enough†, a rule added later never
  overrules an earlier one†;
- requests: an attempt takes effect at most once†, a success was carried out since
  the call was made†, every call returns;
- drift detector: the mean of a reference begins with the embeddings it was registered
  with, and its count is that of the batches in the mean†; updates reach these two and
  not the embeddings.

## Modules

| Module | Models | Checked by | Proofs |
| --- | --- | --- | --- |
| `WriteAheadLog` | `wal.rs` without rotate | `storage_parts`, `wal_torn` | `WriteAheadLogProofs` |
| `WalRotation` | rotate and the files it leaves | `storage_parts`, `rotation_path` | `StoragePartsProofs` |
| `MemTable`, `ConcurrentMemTable` | `memtable.rs`; writers racing a drain | `storage_parts` | `StoragePartsProofs` |
| `TableScan` | encoded keys, `scan`, `scan_table` | `storage_parts` | `StoragePartsProofs` |
| `TemporalIndex` | the bitemporal index | `storage_parts`, `temporal_end` | `StoragePartsProofs` |
| `KeyValueStore` | what the engine promises (abstract) | through `StorageEngine` | |
| `StorageEngine` | `engine.rs` over `WriteAheadLog` and `MemTable` | `engine`, `engine_restart` (`MCStorageEngine`) | `StorageEngineProofs` |
| `CsrGraph` | the edge list, its copy, lookups | `indexes` | `IndexesProofs` |
| `GraphSearch` | bfs and shortest_path | `indexes` | `GraphSearchProofs` |
| `Hnsw` | the vector index | `indexes`, `hnsw_entry` | `IndexesProofs` |
| `RateLimiter` | the gateway's token buckets | `admission` | `AdmissionProofs` |
| `AccessLists` | `acl.rs` | `admission`, `revoke_actions` | `AdmissionProofs` |
| `Tokens` | `jwt.rs` | `admission` | `AdmissionProofs` |
| `Policies` | `rbac.rs`, the rules of `lib.rs` | `admission` | `AdmissionProofs` |
| `DriftDetector` | references of the drift detector | `request`, `drift_update` | `RequestPathProofs` |
| `Iterators` | `filter` of the standard library (external) | through its users | `SequenceLemmas` |
| `ReferenceService` | what callers of the drift endpoints may count on (abstract) | through `RequestPath` | |
| `RequestPath` | SDK, gateway, unified service and detector, for one call and its retries | `request` (`MCRequest`) | `RequestPathProofs` |

`MCStorageParts`, `MCAdmission` and `MCIndexes` each extend several modules that
share no state. A variable `part`, chosen initially, says which of them takes the
steps of a behaviour; the others stay as they began. The states of such a run are
the sum and not the product of its parts, and every property is about one part. A
behaviour of `MCSpec` is one of each part's own specification, so a theorem about a
part holds of the whole.
Their type invariants are joined in one (`NodeTypeOK`, `AdmissionTypeOK`,
`IndexesTypeOK`).

Operators named `X_Y` beside an operator `X` (`Open_Truncates`, `Refilled_Whole`,
...) are mutations: the form `X` would take with a plausible bug. No specification
uses them; each property is shown to fail when its mutation takes the place of `X`.

### WriteAheadLog

`log` is the file: a sequence of records, each whole or torn. `synced` counts the
records on stable storage, `nextSeq` is `next_seq`, `acked` is a history of the
appends that returned `Ok`. `AppendOk`, `AppendTorn` and `AppendUnsynced` are the
three ways append ends: both writes and the sync succeed; a write stops inside
the prefix or the body; the sync fails. In the last two `next_seq` stays while
the file has grown. A write that fails before any byte changes nothing. `Crash`
keeps any prefix of the file that includes what was synced, with the last record
possibly torn (`Survivors`, the file system's part).

Replay stops quietly at the end of the file, and a torn record at the end counts
as that. A torn record that other bytes follow takes its missing bytes from them,
so replay may stop there, decode a mixture, or fail: `ReplayEnds` and
`ReplayMayFail` are the sets of possible outcomes and `Open` chooses one. What is
left out is a mixture that decodes under another number than the torn record's,
which takes a record torn inside its first eight bytes and bytes after it that
happen to decode. `Oversized` are the operations beyond replay's 64 MB limit.

`Clean` says that no interior record is torn and none is oversized. The
properties about numbers and replays hold of clean files. A file with an oversized
entry is refused by every later open; what a torn record does to those behind it is
shown by the run `wal_torn` (see Findings).

### WalRotation

Here appends succeed and the subject is the files. `fs` maps paths to records,
`handle` names the path that *now* holds the file the handle has open: on a
rename the handle goes with the file. `Rotate` reopens, then renames, as the code
does, and the archive's name is the last number. `written`, `openedAt` and the
rank in a record are history.

### MemTable, ConcurrentMemTable

`MemTable` holds the operations; `Reserve` (the `fetch_add` before the lock) and
`Put` (the write under the lock) are apart because a drain may come between.
`ConcurrentMemTable` interleaves writers with a drain. The engine does not drain
its memtable yet; the interleaving is the one `drain`'s contract invites.
`SizeLag`, the strengthening the proof needs, is in `StoragePartsProofs`.

### TableScan

Keys are sequences of bytes in the order of `Vec<u8>`; `encode` puts a zero byte between
the table's name and the id. Names are assumed to hold no zero byte (`ScanAssumption`),
which the engine, that takes any `&str`, does not ask for: the keys of a table named
`a\0b` lie among those of `a`. `scan_table` asks the map for the keys in order
(`InOrder`) from `name \o <<0>>` on and **not** up to any bound, so rows of tables whose
names come later are returned as well, unless a row of their id came before: `seen` is a
set of ids alone. `OwnRowsComeFirst` states what the code does guarantee: the first rows
of an answer are exactly the live rows of the table, one may stop there, and an id is
returned once. A deleted row does not enter `seen`, so the row of a later table with its
id is returned in its place. `Push` is one turn of its loop, and `scan_table` the fold
of it over the keys. Since a scan copies the map under its lock, it is an operator of a
state.

### TemporalIndex

`Prepare` takes a version's transaction time from the clock; `insert` puts it into
both maps, later and in any order, which is how versions of concurrent writers
arrive. The caller's start and end are taken as they come, an end before the start
included. The clock is assumed not to go back. The end of a version's validity is not
in the index: `query_as_of_valid` returns what *began* by the time it is asked for
(finding `temporal_end`). `BitemporalIsExact` states what the two maps together
do answer, in number and order, and `PastIsFinal` that answers about a time
before the present do not change once nothing recorded then is waiting.
`query_current` returns the entries of the newest transaction time only, and not
one per row, whatever its name suggests.

### KeyValueStore, StorageEngine

`StorageEngine` instantiates the log and the memtable and adds the steps of the
callers, split where the code gives up atomicity: `LogWrite` (append under the
log's lock), `TableWrite` (the memtable), `Publish` (the store to `sequence` and
the return), `Get` (the lookup under the map's lock). `LogWriteFails` is a failed
encoding or append. `CrashEngine` drops everything in memory, `OpenEngine`
replays the log for its last number only. `main.rs` sets `wal_sync: true`.
`KeyValueStore` is a map with atomic calls that forgets all rows at `Lose`: less
than the documentation promises, and what the code does. The refinement mapping
shows the rows without tombstones, and takes a write for done once the memtable
is written.

Left out: the flush (`trigger_flush` only logs), frozen memtables and segments
(never filled); `scan_table` is in `TableScan`. A crash is possible only while the log is open:
one during `open` has no effect beyond those of the crash before it.

### CsrGraph, GraphSearch

Nodes are numbers, as ids are ordered; properties of edges follow them unread.
`SortByFrom` and `Build` are the two halves of `ensure_csr`; `find_row` stands
for the binary search, which `CsrIsSorted` justifies. `GraphSearch` takes the
neighbors of each node as given and runs one loop iteration per step; a queue
entry is its path, and `marked` is `visited`, a name the vector index has as
well. `bfs` does not expand a path of `max_depth` edges while `shortest_path`
does, so it finds targets one step further: `TargetIsFound` states what it does.

### Hnsw

An insertion and a search both walk the layers from `current_level` down: above
its floor (the new node's level, or 0) a call looks for an entry with a beam of
one, below it the beam is `ef_construction` or `max(ef, k)` wide. One step expands
one candidate (`Expand`) or ends a layer (`Descend`, `Connect`, `Answer`). A node
pushes all its new neighbors and evicts the farthest result after each, which
leaves the `ef` nearest of them all; `Nearest` is that set, one of several where
vectors tie. `Panic` is the failing `expect` of `search_layer`; it comes first in a
call, so the index is as before. `current_level` is the level of the first node
for good: nodes of higher levels keep their upper layers empty.

`EveryLayerIsReachable` and `SearchIsExact` are stated of an index that only grew.
A removed node may cut off others, and a repeated id gets new links that do not
replace the old ones; `FoundAreLive` and `CallsEnd` hold of those too.

### RateLimiter

Time is in ticks, levels are in fractions of a token so that one tick adds `Rate`
of them: the arithmetic is exact where the code's is `float64`. `Allow` and
`Deny` are the outcomes of `allow` under its mutex; both bring the bucket up to
date. `granted` and `denied` are history. The key is whatever the middleware
passes, an API key header or an address. `RefusalsAreFair` joins
`DeniedOnlyAtLimit` (a refused request would have exceeded the limit in some
window) and `RetryAfterSuffices` (the `Retry-After` of a second is enough).

### AccessLists

The vector of entries is a set: no answer depends on their order or on an entry being
there twice. `check` reads the clock once; `build_permissions` reads it once per entry,
and `Summarise` is one entry's turn, in any order, with ticks of the clock between them.
Entries do not change while a summary is built, since it borrows them. `revoked` is the
history that `RevokedIsDenied` needs. A revoked action drops the **whole** entry and
with it the other actions it granted, where the API's documentation revokes one of two
(finding `revoke_actions`). `RevokeIsLocal` states what is left: who loses a permission
had it from no entry but those that granted what was revoked, so no other principal,
resource or grant is touched. A summary files a table by its name without the namespace,
so `SummaryWithinWindow` compares names. `conditions` are stored and evaluated nowhere
(`README.md:258` promises conditional rules).

### Tokens

Nothing is kept of a token but the token itself, so `tokens` only grows; a refresh
does not withdraw the token it was given, and `refresh_ttl` is not read. Services
may share secrets and issuer and audience, or either, and each has a `token_ttl` of its
own. A session is a login and all
tokens refreshed from it (`origin`); `LapsedForGood` is about all of them at once,
for each service and its own configuration. The leeway of `decode` counts
for refreshes as well, so a session can be carried on after its expiry and within
the leeway, and is over for good later.

### Policies

A principal is its roles; rules are the one of the repository and any that an
application may add. `BusinessHoursRule` compares the hour in UTC whatever
timezone it names, and one whose start is after its end always denies; the
instance has one of each. Custom roles are stored and never resolved. `Admin`
does not imply `Service`, the lowest rank, although the README calls the roles a
hierarchy in which "higher implies lower" (`README.md:238`): `ResolvedOnce` states the
closure that does hold, with ranks that never rise.

### DriftDetector, ReferenceService, RequestPath

`DriftDetector` holds the three handlers; each accesses the references without an
`await` in between, so it is one step. Its statistics are left out: a check is
known by the batch it compared with and the mean it reports. `ReferencesAreWhole` is
about the mean and the count, which an update changes together; the embeddings stay
those of the registration, and only their place at the head of the mean is claimed.

`RequestPath` follows a call: the SDK's loop (`attempt`, `phase`), the gateway's
checks and HTTP client, the unified service for `/v1/data`, and the detector.
Every method of an SDK goes through one loop, which is what is modelled, with the
calls it carries to the drift endpoints; the SDKs have no methods of their own for
these. The Python client repeats a call when no response came, the TypeScript
client after an error response too. `GiveUp` is the gateway's time limit or a
broken connection: the request goes on in `wire` and may be handled long after, or
never, which is what a lost request is. The gateway does not send again. A late
response reaches nobody (`Responded`). `Restart` empties the detector and drops
what it had accepted. Updates come from elsewhere: the gateway has no route for
them.

`ReferenceService` is what all that amounts to: attempts are carried out at most
once each, in any order with other calls and even after their call failed; a
success was carried out since the call was made, and its answer is what one of its
attempts found. The mapping takes the embeddings for the reference; `Handle` maps
to `CarryOut`, a successful `Return` to `Succeed`, a `Raise` that ends the call to
`Fail`, the first `Update` of a concept to `Found`, `Restart` to `Forget`, the rest
to stutters.

## Runs

| Run | Instance | Shows |
| --- | --- | --- |
| `storage_parts` | log: 2 operations, one oversized, 4 records; rotation: 4 appends, 3 rotations, 2 restarts; memtable and scans: 3 tables, one the prefix of another, 2 ids, 2 writers, 4 inserts; temporal: 3 instants, 3 versions | what holds of the log under every combination of faults; numbers within and across files; inserts against drains; scans among tables; bitemporal answers |
| `engine` | 2 callers, a row both write and a row one writes, 3 records, 1 crash | the abstract store is implemented; log before memory; rows with one writer match the log |
| `admission` | limiter: 2 clients, rate 2, burst 2, 3 ticks to the second, 5 ticks; lists: 2 principals, 3 resources, 2 entries, 1 revocation, clock to 2; tokens: 3 services, 3 tokens, leeway 1, lifetimes 1 to 3, clock to 5; policies: 2 rules | both sides of the limit; revocation and expiry; sessions across services; answers as rules are added |
| `indexes` | vectors: 3 ids, 3 vectors, 2 levels, 3 insertions, 1 removal; graph: 3 nodes, 2 edge types, 3 edges; searches: 1728 graphs of 5 nodes, depths 1 and 2 | connectivity, exactness and termination of the vector index; lookups before and after any rebuild; both searches, to their end |
| `request` | 2 calls of either SDK, 2 attempts, 1 concept, 2 batches of sizes 2 and 1, 2 batches in a mean | the abstract reference service is implemented, and every call returns |

The violation runs (`wal_torn`, `rotation_path`, `temporal_end`, `engine_restart`,
`hnsw_entry`, `revoke_actions`, `drift_update`) use the same modules and are listed under Findings.

Some properties join what belongs together: `RefusalsAreFair`; `SearchesAreExact`
(`BfsIsComplete`, `PathsAreShortest`, `TargetIsFound`); `LayersAreConnected`
(`LinksAreMutual`, `EveryLayerIsReachable`); `LookupsAreExact` (`NeighborsAreScan`,
`OutgoingAreKept`). `SearchTypeOK` includes `QueuedOnce`, and
`IndexesTypeOK` includes `CsrIsSorted`.

Bounds. Four records are enough for a torn or unsynced record with whole ones on
both sides and a crash after each. Two archives can only collide with two
rotations and a restart or an append between them; the bounds allow three. Two
callers and three records give a caller that passes another between its log and
its memory and a third write that shows it; a third caller adds no new pair. A
drain needs two writers under way to leave the size two entries short. Three table
names, one of them the prefix of another and one after both, with two ids, hold
every relation two keys can have. Three versions give a valid time and a
transaction time that order them differently, inserted in a third order. With three
ticks to the second and rate 2 the refill of a tick is a fraction, and five ticks
pass a full refill of the burst. Two entries may grant one question twice, with
different expiries, and one revocation has to take both. Three tokens make a chain
of two refreshes; five moments pass the lifetime and leeway of each. Three edges of
three nodes hold a tie and another row before or after it; five nodes are the
fewest on which a search in the wrong order finds a longer path first. Three
vectors in the plane are enough for a query whose nearest vector is linked only to
the farthest: a beam of one misses it, one of three does not; with `m = 1` every
node but the first has one link of its own. Two calls with two attempts give a
request of a failed call that is carried out in the middle of another, and both
attempts of one; a batch of one embedding is refused on either route.

Symmetry is used in `storage_parts` for the writers, which are only compared for
equality, and nowhere else; no liveness property is checked there.

Deadlock is checked in `engine`, `engine_restart`, `indexes`, `hnsw_entry`, `request`,
`drift_update` and `wal_torn`; a search of a graph that is over stays as it is. In
`storage_parts`, `rotation_path`, `temporal_end`, `admission` and `revoke_actions` the
bounds on appends, versions, tokens and clocks end some behaviours.

Fairness is assumed three times. `WF_bfsVars(SearchNext)` in `GraphSearch` and
`WF_vars(Work)` in `Hnsw`: a search is a loop of the calling thread, and nobody owes the
index a next call. In `PathSpec`, `WF` of each call's `Progress`: the SDK's loop runs, and the
timer of the gateway's client goes off (`clients.go:40`, 10 s) when no response
comes. Nothing is assumed of the services behind the gateway, so a request may stay
unanswered for good and `EveryCallReturns` holds all the same. All other
specifications state safety alone.

### Findings

Seven runs expected to end in a violation check what the repository says of the code:

- `wal_torn`: after a write fails part of the way the log goes on appending, and
  replay does not reach the acknowledged entries behind the torn one ("Durable,
  append-only log of all mutations", `wal.rs:2`);
- `rotation_path`: the new handle is opened before the rename and follows the
  file to the archive, where writing goes on, instead of "a fresh empty WAL at
  the original path" (`wal.rs:173-174`);
- `engine_restart`: a restarted engine does not apply its log, a "crash recovery
  mechanism" (`docs/ARCHITECTURE.md:491`);
- `hnsw_entry`: an index whose first vector is removed panics at every later
  search and insertion, where the code asserts "entry must exist" (`hnsw.rs:139`);
- `temporal_end`: a query as of a valid time returns versions that had ended before
  it, instead of those "that were valid at the given valid-time t"
  (`cdf-temporal/src/lib.rs:55`);
- `revoke_actions`: a principal with the `"actions": ["read", "write"]` of
  `docs/API.md:741` that loses the `"actions": ["write"]` of `docs/API.md:767` has
  nothing left, as the entry is dropped whole (`acl.rs:83-87`);
- `drift_update`: after update-reference, which is to "Update reference distribution
  with new data (exponential moving average)" (`drift-detector/main.py:224`), a check
  still compares with the embeddings that were registered and reports the mean of others.

Seven consequences of the same code are visible in the models without a run of their
own. Append accepts entries beyond replay's limit, after which the log does not open
(`OpenRefused`). Two rotations without an append between them, or around a restart,
choose the same archive name, and the rename drops the first archive (`Rotate`). A
restart after a rotation recovers its number from an empty file, so numbers start from 1
again (`Open` in `WalRotation`), although they "must persist across reopens"
(`wal.rs:231-232`): `NumbersFollowAppends` is stated between restarts. Two writers of a
row may reach the log and the memtable in opposite orders (`LogWrite`, `TableWrite`), so
that the row served is not the one the log describes: `OwnRowsMatchLog` is stated of
rows with one writer, and `MemoryMatchesLog` fails without a crash too. The same two
writers may leave the lower of their numbers in the "high-watermark sequence number"
(`engine.rs:37-38`, `Publish`). Rows of a table with a zero byte in its name, `a\0b`,
lie among those of table `a`, so a scan of `a` may return one of them in the place of a
row of its own (`encode`; `ScanAssumption` leaves such names out). And a node's links
are added to by its neighbors (`BackLinked`), so they exceed the "max connections per
layer" (`hnsw.rs:76`).

## Proofs

TLAPS proves, for every value of the constants that satisfies the modules' named
assumptions (the bounds are arbitrary naturals), every safety invariant and every
action property of the passing runs, and both refinements. The assumptions say
what the code's types say: ids, nodes and entries are any sets, limits are natural
numbers, a distance is one for any two vectors, and a value that stands for nothing
(`NoPath`, `NoCall`, `NoId`, `Absent`, ...) is none of the values it stands beside.
`Id` of the vector index is finite, as a process only ever holds finitely many.

**The log** (`WriteAheadLogProofs`). `WalInv` adds three facts to the properties:
with sync_on_write every acknowledged entry is synced; in every *clean prefix* of
the file the numbers do not decrease and acknowledged ones are below those that
follow them; and the next number is not below any in a clean file. The order must be
stated of clean prefixes, not of the file: without sync_on_write a crash can drop
a torn record and make a dirty file clean again. A number on file may repeat (an
append whose sync failed), which is why the records are ordered weakly and only
acknowledged ones strictly. `SurvivorsFacts` reduces a crash to what it may
leave. From `WalInvariant` follow type correctness, `AckedOnFile`,
`AckedSurvive`, `NextSeqIsFresh`, `AckedInSeqOrder` and `CleanLogReplays`.

**The engine** (`StorageEngineProofs`). The proofs of the log are instantiated for the
engine's log, so that `WalInv` is part of `EngineInv`; the rest says where each caller
is, that a caller past its append has its entry in the log under the number it holds,
and that a stopped process has nothing in memory. `EngineUsesLog` is `Spec =>
WAL!WalSpec`. `EngineIsLinearizable` is the refinement of `KeyValueStore`: `TableWrite`
maps to `Write`, `Get` to `Read`, `LogWriteFails` to `Fail`, `Publish` and `Reply` to
`Return`, `CrashEngine` to `Lose`, the rest to stutters. For `OwnRowsMatchLog` the
invariant `RowsInv` says, up to the first crash, of a row with one writer what the log
says *while* that writer is between the log and the memtable: the entry it carries, and
otherwise the one in the memtable. An entry of another row or a failed append leaves the
last acknowledged entry of the row where it was.

**The parts of a storage node** (`StoragePartsProofs`), one after another:

- *Memtable*. `CapacityLag` bounds the rows by the size and the writers. It is not
  inductive, since an insert that ends charges nothing: `SizeLag` counts the rows
  *and* the inserts under way, of which the size may miss one entry per writer, what a
  drain between the two parts of each insert costs. `NewestIsKept` needs no
  strengthening beyond the types.
- *Scans*. `Before` is a strict total order: a string is padded with a byte below all
  others (`ByteAt`), and two strings are compared at the first place where these
  differ (`BeforeMeans`, `KeysAreOrdered`). An encoded key falls into its name and its
  id in one way only, since names have no zero byte (`IdOfKey`), and the keys of a
  table come before all others that follow its name and its zero (`OwnKeysLead`),
  whichever names begin alike. So the keys a scan reads are those of the table and
  then the rest (`ScanFacts`), and `OneMoreKey` keeps along the fold that the answer
  begins with the table's live rows, holds an id once and nothing deleted.
- *Rotation*. `HandleFollows` says that a handle that has left `wal.active` leaves no
  file there, and that the file being written is empty or ends just before
  `next_seq`; `RanksArePast`, that a record's rank is of an append that happened.
  They give `FilesAreContiguous` and `NumbersFollowAppends` for every sequence of
  rotations, failed renames and restarts.
- *Temporal index*. `TemporalInv` says that a number is given once and that each map
  lists, under each time, the numbers of the versions inserted with it, each once.
  `query_bitemporal` filters one answer by the other, which `FilterOfAppend` turns
  into an intersection in order. `PastIsFinal` follows from where an insertion
  may put a number: under the times of a version that was waiting.

**The limiter, the access lists, the tokens and the policies** (`AdmissionProofs`):

- *Limiter*. The level of a bucket is at most what every window that opens with a
  grant leaves, and equal to what one of them leaves unless the bucket is full
  (`LevelIsExact`). One half gives `WithinRate`, the other `DeniedOnlyAtLimit`; both
  together with the distributive law give `RetryAfterSuffices`.
- *Access lists*. `AclInv` adds to the types that no entry matches a revoked question,
  and for a summary under way what it owes: every entry it has visited and that still
  counts is filed, and all that is filed counted at its start. Time only goes
  forward, so what counts now counted then (`ClockForward`). The two action
  properties follow from the steps alone.
- *Tokens*. `JwtInv` is `SessionKeepsClaims` with the types: all tokens of a session are
  for one secret and address, so the services that take one of its tokens take them
  all while they last. A refresh anywhere needs an accepted one, and there is none once
  the session has lapsed at any of these services.
- *Policies*. `ResolvedOnce` is proved of every set of roles by cases on a role and
  what it implies. `EarlierRulesStand` uses that the first rule that answers is the
  one with the least index, and that a rule is only ever added at the end.

**The graph searches** (`GraphSearchProofs`). The queue holds shortest paths in order
of their length, of which the last is one edge longer than the first at most
(`QueueIsOrdered`); a node is marked with the one path that found it; the
neighbors of an expanded node are marked unless the depth forbids it
(`ExpandedAreClosed`). Distances are the balls of the specification, a recursive
function (`BallsExist`). When a search ends, a path to a node it did not mark would
have to leave the marked ones somewhere, at a node that was expanded.

**The vector index and the graph's copy** (`IndexesProofs`):

- *Vector index*. `FoundAreLive` needs that links, beams and the entry point name ids
  that were live when they were made (`IdsFollow`), and that the code looks them up
  before it takes them. `EveryLayerIsReachable` is not inductive during an insertion,
  when links of the new node exist on the layers above already. What is kept instead
  says nothing of paths: a set of nodes that holds the entry point and that no link of
  a layer leaves has *all* nodes of that layer (`EntryLeadsOn`, over `ClosedAt`). The
  new node is linked both ways (`LinksFollow`) to a node of every layer it is on,
  so such a set has it as well. `ReachIsClosed` gets the property back: what is
  reached in as many links as there are nodes is such a set, since each link that
  finds a node finds a new one. `SearchIsExact` follows the beam: one that is as wide
  as the index never evicts, and when it ends what it visited is closed
  (`BeamInv`, `WideBeamFindsAll`).
- *The graph's copy*. `GraphInv` says that the edges are, source by source, those that
  were added, in their order, and that a fresh copy is their compressed form
  (`Compressed`). The sort is stable (`SortIsStable`: sorting keeps what a filter by
  source sees), and the copy grows edge by edge with its last row open
  (`OpenMore`, `FoldedIsOpen`). `LookupsAreExact` then compares a filter of the row
  with a filter of all edges (`FilterOfPart`).

**The request path** (`RequestPathProofs`). `PathKeepsPromise` is the refinement of
`ReferenceService`. `PathInv` adds `OnceEach` (a request on its way has not been
carried out, and is the only one of its attempt, which was begun), `RepliesWereSeen`
(a response on its way back is what an attempt of its own call found) and
`RunningHaveNoResult`. The first gives `CarryOut` its guard, the second `Succeed`,
the third both ends of a call. `ReferencesAreWhole` is inductive once the total of a
mean is known to grow by the size of the batch appended to it (`TotalOfMore`).

**Sequences** (`SequenceLemmas`). What the others need of recursive definitions.
Induction over numbers is by the least counterexample (`LeastNatural`), and over
sequences by that on their length, for a set of sequences (`SequenceInduction`). A
recursive function, a filter or a fold is met through the function of its values: there
is one (`FilterSteps`, `FoldExists`), each value follows from the one before, and two
that take the same steps have the same values (`FoldsAgree`). A finite set with a strict
total order has exactly one listing in that order (`SortedExists`, `SortedMore`,
`SortedIsOnto`).

Only model-checked: `Terminates`, `CallsEnd` and `EveryCallReturns`, as liveness under
fairness is out of the prover's reach. Their safe halves are proved: a step of a search
ends it, marks a node, shortens the queue or looks at one neighbor more
(`SearchesGoOn`); a step of an index's call ends it, goes down a layer, marks a node or
uses up a candidate (`CallsGoOn`); a step of a call's own lowers what it has to go, which
nobody raises (`CallsGoForward`). All of these only run down, over finitely many nodes,
layers and attempts; that there is a step to take and that it is taken is what TLC
checks under the fairness of the run.
The prover sees nothing in `SelectSeq`
and `SortSeq` of the standard and community modules; the iterator's `filter` is
therefore a recursive function (`Filter`) and a map's order a choice (`InOrder`).

## Not modelled

- **Segments and compaction**: `unimplemented!`. `trigger_flush` only logs, so the
  memtable is never frozen and the log never rotated by the engine.
- **Query router**: `ExecuteQuery` answers a constant; the shard map is filled once
  at the start and asked for a log line. The CQL parser is string handling.
- **Meta service**: no RPC is registered, so nothing calls its registry.
- **Embedding service**: model inference behind one HTTP call.
- **Gateway and unified service, in part**: the handlers beside the drift
  endpoints forward one call to a service that is a stub, or answer from
  constants. Authentication with an API key is a refusal before `Send`.
- **Roles and policies, in part**: custom roles, which nothing reads.
- **SDKs, in part**: the methods, which only name paths and payloads, and the
  JavaScript and Java clients, whose loops repeat a call after any error as the
  TypeScript one does.
- **Shared types, probabilistic arithmetic**: data definitions and floating-point
  formulas without state.
- **Command line, demos and site**: presentation and one-shot calls.
- The memory taken by the memtable and by the gateway's buckets: both only grow,
  and no bound is claimed that a model could check.

## Plan

What is left:

1. That an unfinished search or call always has a step whose guard holds: what
   `ENABLED` hides from the prover can be stated of the guards themselves.
2. `ReferenceService` as the abstraction of the detector alone, and the gateway and
   the SDKs over it, so that a further endpoint can be added without repeating them.
3. When the repository implements them: the flush with frozen memtables and
   segments (`trigger_flush` only logs), the replay into the memtable, and the
   router's execution of statements.
