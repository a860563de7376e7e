------------------------------ MODULE Policies ------------------------------
(***************************************************************************)
(* Roles and policy rules: crates/cdf-auth/src/rbac.rs and lib.rs.  A      *)
(* principal collects roles; a PolicyEngine asks its rules in the order    *)
(* they were added.  The one rule of the repository is                     *)
(* BusinessHoursRule; a rule of an application (PolicyRule is public) may  *)
(* decide as it likes, or leave a request to the rules after it.           *)
(*                                                                         *)
(* Custom roles are stored and never looked up, so they are left out; a    *)
(* principal is its roles, the only field these answers depend on.         *)
(***************************************************************************)
EXTENDS Integers, Sequences, FiniteSetsExt

CONSTANTS Request,  \* principal, action and resource, as far as rules tell them apart
          Rules,    \* bound: the rules that are added
          MaxRules  \* bound: how many

Role == {"SuperAdmin", "Admin", "Developer", "Analyst", "Service"}
Hour == 0..23

BusinessHoursRule == [kind : {"hours"}, start_hour : Nat, end_hour : Nat]
AppRule == [kind : {"app"}, says : [Request -> {"allow", "deny", "none"}]]

ASSUME PolicyAssumption == /\ Rules \subseteq BusinessHoursRule \cup AppRule
                           /\ MaxRules \in Nat

VARIABLES roles, \* of one principal
          rules, \* custom_rules
          hour   \* the hour of the day, UTC

policyVars == <<roles, rules, hour>>

PolicyTypeOK ==
  /\ roles \subseteq Role
  /\ rules \in Seq(Rules)
  /\ hour \in Hour

-----------------------------------------------------------------------------
(* Roles *)

rank(r) == CASE r = "SuperAdmin" -> 100
             [] r = "Admin" -> 80
             [] r = "Developer" -> 60
             [] r = "Analyst" -> 40
             [] r = "Service" -> 20

\* Bug: Admin is given Developer and not what Developer implies.
implied_roles_OneStep(r) ==
  CASE r = "SuperAdmin" -> Role
    [] r = "Admin" -> {"Admin", "Developer"}
    [] r = "Developer" -> {"Developer", "Analyst"}
    [] OTHER -> {r}

implied_roles(r) ==
  CASE r = "SuperAdmin" -> Role
    [] r = "Admin" -> {"Admin", "Developer", "Analyst"}
    [] r = "Developer" -> {"Developer", "Analyst"}
    [] OTHER -> {r}

satisfies(r, required) == required \in implied_roles(r)

resolve_roles(S) == UNION {implied_roles(r) : r \in S}

-----------------------------------------------------------------------------
(* Rules *)

\* In UTC, whatever timezone the rule names; the end is outside. Hours that pass
\* midnight (start after end) hold no hour at all.
InHours(rule) == rule.start_hour <= hour /\ hour < rule.end_hour

Decision(rule, q) ==
  IF rule.kind = "hours" THEN (IF InHours(rule) THEN "allow" ELSE "deny")
  ELSE rule.says[q]

Deciding(q) == {i \in 1..Len(rules) : Decision(rules[i], q) # "none"}

\* Bug: the last rule that applies decides.
evaluate_Last(q) == Deciding(q) # {} /\ Decision(rules[Max(Deciding(q))], q) = "allow"

\* The first rule that applies decides; without one the request is denied.
evaluate(q) == Deciding(q) # {} /\ Decision(rules[Min(Deciding(q))], q) = "allow"

-----------------------------------------------------------------------------

\* Principal::new.
PolicyInit == /\ roles = {"Analyst"}
              /\ rules = <<>>
              /\ hour \in Hour

with_role(r) == roles' = roles \cup {r} /\ UNCHANGED <<rules, hour>>

add_rule(rule) == /\ Len(rules) < MaxRules
                  /\ rules' = Append(rules, rule)
                  /\ UNCHANGED <<roles, hour>>

HourPasses == hour' = (hour + 1) % 24 /\ UNCHANGED <<roles, rules>>

PolicyNext ==
  \/ \E r \in Role : with_role(r)
  \/ \E rule \in Rules : add_rule(rule)
  \/ HourPasses

PolicySpec == PolicyInit /\ [][PolicyNext]_policyVars

-----------------------------------------------------------------------------
(* Properties *)

\* A rule that is added never changes an answer that an earlier one has given.
EarlierRulesStand ==
  [][\A q \in Request : Deciding(q) # {} /\ hour' = hour =>
       (evaluate(q)' <=> evaluate(q))]_policyVars

\* Resolving some of a principal's roles once finds all they lead to, and none above the
\* highest of them.
ResolvedOnce ==
  \A some \in SUBSET roles :
    LET resolved == resolve_roles(some)
    IN  /\ some \subseteq resolved
        /\ resolve_roles(resolved) = resolved
        /\ \A r \in resolved : \E held \in some : satisfies(held, r) /\ rank(r) <= rank(held)
=============================================================================
