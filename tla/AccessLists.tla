----------------------------- MODULE AccessLists -----------------------------
(***************************************************************************)
(* The access control lists of crates/cdf-auth/src/acl.rs: AclManager, a   *)
(* vector of grants with expiry times that is searched on every check, and *)
(* the summary build_permissions makes of it.                              *)
(*                                                                         *)
(* The vector is a set: no answer depends on the order of the entries or   *)
(* on an entry being there twice.  The clock only goes forward.  A summary *)
(* reads it once for each entry it visits, a check once; entries do not    *)
(* change while a summary is built, as it borrows them, and a summary is   *)
(* forgotten when they do.                                                 *)
(***************************************************************************)
EXTENDS Integers, FiniteSets

CONSTANTS Principal, Action,
          Resource,   \* records [kind, namespace, name]
          Never,      \* no expires_at
          NoSummary,  \* no summary yet
          MaxClock,   \* bound: the clock
          Grantable,  \* bound: the entries that are granted
          MaxEntries, \* bound: entries at a time
          MaxRevoked  \* bound: revocations remembered

AclTime == 0..MaxClock

AclEntry == [principal_id : Principal, resource : Resource, actions : SUBSET Action,
             expires_at : AclTime \cup {Never}]

ASSUME AclAssumption ==
  /\ \A r \in Resource : {"kind", "namespace", "name"} \subseteq DOMAIN r
  /\ {MaxClock, MaxEntries, MaxRevoked} \subseteq Nat
  /\ Never \notin Nat
  /\ Grantable \subseteq AclEntry

Question == [principal_id : Principal, action : Action, resource : Resource]

\* Where a summary files the actions on a resource: a table, index, graph or schema
\* by its name without the namespace, all nodes of the cluster together.
SlotOf(r) == [kind |-> r.kind, name |-> IF r.kind = "Cluster" THEN "" ELSE r.name]

VARIABLES entries, \* the grants
          clock,
          summary, \* the last summary, or the one under way
          revoked  \* history: the questions revoked and not granted since

aclVars == <<entries, clock, summary, revoked>>

Summary == [principal_id : Principal, start : AclTime, todo : SUBSET AclEntry,
            perms : SUBSET ({SlotOf(r) : r \in Resource} \X Action)]

AclTypeOK ==
  /\ entries \subseteq AclEntry
  /\ clock \in AclTime
  /\ summary \in Summary \cup {NoSummary}
  /\ revoked \subseteq Question

AclInit == entries = {} /\ clock = 0 /\ summary = NoSummary /\ revoked = {}

-----------------------------------------------------------------------------
(* Checks *)

\* Bug: an entry counts from its expiry on.
Live_Inverted(e, t) == e.expires_at # Never => t > e.expires_at

Live(e, t) == e.expires_at # Never => t < e.expires_at

Matches(e, q) == /\ e.principal_id = q.principal_id
                 /\ q.action \in e.actions
                 /\ e.resource = q.resource

checkAt(q, t) == \E e \in entries : Matches(e, q) /\ Live(e, t)

check(q) == checkAt(q, clock)

-----------------------------------------------------------------------------
(* Grants and revocations *)

Building == summary # NoSummary /\ summary.todo # {}

grant(e) ==
  /\ ~Building
  /\ Cardinality(entries) < MaxEntries
  /\ entries' = entries \cup {e}
  /\ revoked' = {q \in revoked : ~Matches(e, q)}
  /\ summary' = NoSummary
  /\ UNCHANGED clock

\* Bug: only the first entry found is dropped.
Dropped_First(q) ==
  LET found == {e \in entries : Matches(e, q)}
  IN  IF found = {} THEN {} ELSE {CHOOSE e \in found : TRUE}

\* Bug: the principal is not compared.
Dropped_Everyone(q) == {e \in entries : q.action \in e.actions /\ e.resource = q.resource}

\* A revoked action takes the whole entry with it, its other actions included.
Dropped(q) == {e \in entries : Matches(e, q)}

revoke(q) ==
  /\ ~Building
  /\ entries' = entries \ Dropped(q)
  /\ revoked' = revoked \cup {q}
  /\ Cardinality(revoked') <= MaxRevoked
  /\ summary' = NoSummary
  /\ UNCHANGED clock

AclTick == clock < MaxClock /\ clock' = clock + 1 /\ UNCHANGED <<entries, summary, revoked>>

-----------------------------------------------------------------------------
(* build_permissions *)

StartSummary(p) ==
  /\ ~Building
  /\ summary' = [principal_id |-> p, start |-> clock, todo |-> entries, perms |-> {}]
  /\ UNCHANGED <<entries, clock, revoked>>

\* Of the actions on the system only Admin counts, as system_admin.
Filed(e) == {<<SlotOf(e.resource), a>> :
              a \in {b \in e.actions : e.resource.kind = "System" => b = "Admin"}}

\* Bug: an entry still counts at its expiry.
Skipped_Late(e) == \/ e.principal_id # summary.principal_id
                   \/ e.expires_at # Never /\ clock > e.expires_at

Skipped(e) == e.principal_id # summary.principal_id \/ ~Live(e, clock)

Summarise(e) ==
  /\ Building /\ e \in summary.todo
  /\ summary' = [summary EXCEPT !.todo = @ \ {e},
                                !.perms = IF Skipped(e) THEN @ ELSE @ \cup Filed(e)]
  /\ UNCHANGED <<entries, clock, revoked>>

AclNext ==
  \/ \E e \in Grantable : grant(e)
  \/ \E q \in Question : revoke(q)
  \/ AclTick
  \/ \E p \in Principal : StartSummary(p)
  \/ \E e \in entries : Summarise(e)

AclSpec == AclInit /\ [][AclNext]_aclVars

-----------------------------------------------------------------------------
(* Properties *)

\* What has been revoked stays denied until somebody grants it again, however many
\* entries had granted it.
RevokedIsDenied == \A q \in revoked : ~check(q)

\* Neither time nor a revocation ever turns a denial into a permission.
OnlyGrantsAllow ==
  [][\A q \in Question : ~check(q) /\ check(q)' =>
       \E e \in entries' \ entries : Matches(e, q)]_aclVars

\* At one moment, a permission is lost only to a revocation that every entry which gave it
\* had granted as well.  What is revoked takes its entries with it and no others, so their
\* further actions may be lost too (OnlyRevokedAreLost).
RevokeIsLocal ==
  [][\A q \in Question : check(q) /\ ~check(q)' /\ clock' = clock =>
       \E r \in revoked' \ revoked :
         \A e \in entries : Matches(e, q) /\ Live(e, clock) => Matches(e, r)]_aclVars

\* docs/API.md:741 grants "actions": ["read", "write"] and docs/API.md:767 revokes "actions":
\* ["write"]: at one moment, only what is revoked is lost.
OnlyRevokedAreLost ==
  [][\A q \in Question : check(q) /\ ~check(q)' /\ clock' = clock => q \in revoked']_aclVars

\* What checks allow the summary's principal at time t, the way a summary files it.
AllowedAt(t) ==
  {<<SlotOf(q.resource), q.action>> :
     q \in {x \in Question : /\ x.principal_id = summary.principal_id
                             /\ x.resource.kind = "System" => x.action = "Admin"
                             /\ checkAt(x, t)}}

\* A summary built while entries expire holds all that checks still allow when it is
\* done and nothing they refused when it was begun, namespaces apart.
SummaryWithinWindow ==
  summary # NoSummary =>
    /\ summary.perms \subseteq AllowedAt(summary.start)
    /\ ~Building => AllowedAt(clock) \subseteq summary.perms
=============================================================================
