------------------------------- MODULE Tokens -------------------------------
(***************************************************************************)
(* The signed tokens of crates/cdf-auth/src/jwt.rs.  Services generate,    *)
(* verify and refresh tokens, each with its own JwtConfig.  Nothing is     *)
(* kept of a token but the token itself, so all that were ever generated   *)
(* are around for good.                                                    *)
(***************************************************************************)
EXTENDS Integers, Sequences

CONSTANTS Service,
          Config,    \* per service, its secret, issuer and audience, and token_ttl
          Identity,  \* what a login puts in the claims: subject, roles, namespaces
          Leeway,    \* the clock skew decode forgives
          Lifetimes, \* bound: the lifetimes logins ask for
          MaxMoment, \* bound: the clock
          MaxTokens  \* bound: tokens generated

ASSUME JwtAssumption ==
  /\ {Leeway, MaxMoment, MaxTokens} \subseteq Nat
  /\ Lifetimes \subseteq Nat
  /\ \A s \in Service : /\ {"secret", "address", "token_ttl"} \subseteq DOMAIN Config[s]
                        /\ Config[s].token_ttl \in Nat

VARIABLES moment, \* the clock
          tokens, \* the tokens generated; a jti is a place in this sequence
          origin  \* history: per token, the login it goes back to

jwtVars == <<moment, tokens, origin>>

Secret == {Config[s].secret : s \in Service}
Address == {Config[s].address : s \in Service} \* an issuer and an audience

Token == [secret : Secret, address : Address, who : Identity, iat : Nat, exp : Nat]

JwtTypeOK ==
  /\ moment \in 0..MaxMoment
  /\ tokens \in Seq(Token)
  /\ origin \in Seq(Nat \ {0})
  /\ Len(origin) = Len(tokens)
  /\ \A i \in 1..Len(origin) : origin[i] <= i

JwtInit == moment = 0 /\ tokens = <<>> /\ origin = <<>>

\* Claims are signed as they are, whatever issuer and audience they name.
Signed(s, address, who, lifetime) ==
  [secret |-> Config[s].secret, address |-> address, who |-> who,
   iat |-> moment, exp |-> moment + lifetime]

generate(s, address, who, lifetime) ==
  /\ Len(tokens) < MaxTokens
  /\ tokens' = Append(tokens, Signed(s, address, who, lifetime))

\* decode: the signature, issuer, audience and expiry, give or take the leeway.
Accepted(s, i) == /\ tokens[i].secret = Config[s].secret
                  /\ tokens[i].address = Config[s].address
                  /\ moment <= tokens[i].exp + Leeway

Login(s) ==
  /\ \E who \in Identity, a \in Address, l \in Lifetimes : generate(s, a, who, l)
  /\ origin' = Append(origin, Len(tokens) + 1)
  /\ UNCHANGED moment

\* Bug: expiry is not looked at, so that any token of one's own can be refreshed.
refresh_Late(s, i) ==
  /\ tokens[i].secret = Config[s].secret /\ tokens[i].address = Config[s].address
  /\ generate(s, tokens[i].address, tokens[i].who, Config[s].token_ttl)
  /\ origin' = Append(origin, origin[i])
  /\ UNCHANGED moment

\* The old token is not withdrawn, and refresh_ttl is not looked at.
refresh(s, i) ==
  /\ Accepted(s, i)
  /\ generate(s, tokens[i].address, tokens[i].who, Config[s].token_ttl)
  /\ origin' = Append(origin, origin[i])
  /\ UNCHANGED moment

JwtTick == moment < MaxMoment /\ moment' = moment + 1 /\ UNCHANGED <<tokens, origin>>

JwtNext ==
  \/ \E s \in Service : Login(s) \/ \E i \in 1..Len(tokens) : refresh(s, i)
  \/ JwtTick

JwtSpec == JwtInit /\ [][JwtNext]_jwtVars

-----------------------------------------------------------------------------
(* Properties *)

\* A session is a login and the tokens refreshed from it.
OfSession(o, i) == i \in 1..Len(tokens) /\ origin[i] = o

Alive(s, o) == \E i \in 1..Len(tokens) : OfSession(o, i) /\ Accepted(s, i)

\* A session no token of which is accepted any more stays over: no sequence of
\* refreshes brings it back, at any service.
LapsedForGood ==
  [][\A s \in Service : \A o \in 1..Len(tokens) : ~Alive(s, o) => ~Alive(s, o)']_jwtVars

\* No refresh changes whom a session is for or which services take its tokens.
SessionKeepsClaims ==
  \A i \in 1..Len(tokens) :
    LET first == tokens[origin[i]]
    IN  /\ tokens[i].who = first.who
        /\ tokens[i].secret = first.secret
        /\ tokens[i].address = first.address
=============================================================================
