----------------------------- MODULE Authorization -----------------------------
(***************************************************************************)
(* The reference authorizer: AuthorizationPolicy (authorization/policy.py) *)
(* and DeterministicAuthorizer (authorization/deterministic.py).           *)
(*                                                                         *)
(* Resources and patterns are sequences of symbols; a pattern that ends in *)
(* Star stands for every proper extension of what precedes the star.  A    *)
(* policy is the sequence of its grants, in the order they are written.    *)
(***************************************************************************)
EXTENDS Naturals, Sequences, SequencesExt

CONSTANTS Symbol,      \* what names are written in, Star apart
          Star,
          Role,        \* the roles a policy may grant to
          NoRole,      \* an actor that declares none
          MaxLength    \* bound: symbols of a resource or pattern

ASSUME AuthorizationAssumption ==
  /\ Star \notin Symbol /\ NoRole \notin Role
  /\ MaxLength \in Nat

ResourceName == UNION {[1 .. n -> Symbol \cup {Star}] : n \in 1 .. MaxLength}
RoleGrant == [role : Role, resources : SUBSET ResourceName]
Actor == [actor_type : {"principal", "system"}, role : Role \cup {NoRole}]

-------------------------------------------------------------------------------
\* A trailing star is the only wildcard, and stands for one symbol at least.
matches(pattern, resource) ==
  \/ pattern = resource
  \/ Last(pattern) = Star /\ IsStrictPrefix(Front(pattern), resource)

permits(grant, resource) == \E p \in grant.resources : matches(p, resource)

\* Slip: a grant written later replaces an earlier one of the same role.
grant_forLast(policy, role) ==
  {policy[i] : i \in {j \in DOMAIN policy :
     policy[j].role = role /\ \A k \in DOMAIN policy : policy[k].role = role => k <= j}}

\* The first grant written for the role, if any.
grant_for(policy, role) ==
  {policy[i] : i \in {j \in DOMAIN policy :
     policy[j].role = role /\ \A k \in DOMAIN policy : policy[k].role = role => j <= k}}

\* TRUE stands for allow(), FALSE for each of the four denials.
authorize(policy, actor, resource) ==
  /\ actor.actor_type = "principal"
  /\ actor.role # NoRole
  /\ \E grant \in grant_for(policy, actor.role) : permits(grant, resource)

===============================================================================
