---------------------------- MODULE MCAdmission ----------------------------
(* Who gets in: small instances of the gateway's limiter, the access lists,  *)
(* the tokens and the policies.  They share no state, so one of them takes   *)
(* the steps of a behaviour and the others stay as they began.               *)
EXTENDS RateLimiter, AccessLists, Tokens, Policies

VARIABLE part

allVars == <<part, vars, aclVars, jwtVars, policyVars>>

MCResource == {[kind |-> "Table", namespace |-> "a", name |-> "docs"],
               [kind |-> "Table", namespace |-> "b", name |-> "docs"],
               [kind |-> "System", namespace |-> "", name |-> ""]}

MCGrantable == {e \in AclEntry : "Read" \in e.actions /\ e.expires_at # 0}

\* Two services that share a secret, and one with another, that lets tokens live longer.
MCConfig == [s \in Service |->
               CASE s = "api" -> [secret |-> "new", address |-> "cdf-api", token_ttl |-> 2]
                 [] s = "ops" -> [secret |-> "new", address |-> "cdf-ops", token_ttl |-> 1]
                 [] s = "old" -> [secret |-> "old", address |-> "cdf-api", token_ttl |-> 3]]

MCRules == {[kind |-> "hours", start_hour |-> 9, end_hour |-> 18],
            [kind |-> "hours", start_hour |-> 22, end_hour |-> 6]} \cup
           {[kind |-> "app", says |-> s] : s \in [Request -> {"allow", "deny", "none"}]}

MCInit ==
  /\ part \in {"limiter", "acl", "jwt", "policy"}
  /\ Init /\ AclInit /\ JwtInit /\ PolicyInit
  /\ part # "policy" => hour = 0

MCNext ==
  \/ part = "limiter" /\ Next /\ UNCHANGED <<part, aclVars, jwtVars, policyVars>>
  \/ part = "acl" /\ AclNext /\ UNCHANGED <<part, vars, jwtVars, policyVars>>
  \/ part = "jwt" /\ JwtNext /\ UNCHANGED <<part, vars, aclVars, policyVars>>
  \/ part = "policy" /\ PolicyNext /\ UNCHANGED <<part, vars, aclVars, jwtVars>>

\* Type correctness of all four.
AdmissionTypeOK == TypeOK /\ AclTypeOK /\ JwtTypeOK /\ PolicyTypeOK

MCSpec == MCInit /\ [][MCNext]_allVars
=============================================================================
