--------------------------- MODULE PermissionPolicy ---------------------------
(***************************************************************************)
(* The deny-by-default policy evaluator of the security kernel             *)
(* (core/security/policy.py): the loaded policies and the verdict they     *)
(* give on a capability id and a trust level.                              *)
(***************************************************************************)
EXTENDS Naturals, Sequences

CONSTANT Policies    \* policies that may be loaded

TrustRank == [UNTRUSTED |-> 0, LOW |-> 1, MEDIUM |-> 2, HIGH |-> 3, CRITICAL |-> 4]
TrustLevel == DOMAIN TrustRank
PermissionState == {"GRANTED", "DENIED", "REQUIRES_APPROVAL"}

(***************************************************************************)
(* A policy is [policy_id, requirements]: its requirements are an ordered  *)
(* tuple of [capability_id, required_trust_level, requires_user_approval]. *)
(***************************************************************************)
ASSUME PolicyAssumption ==
    \A p \in Policies :
        \A j \in DOMAIN p.requirements :
            /\ p.requirements[j].required_trust_level \in TrustLevel
            /\ p.requirements[j].requires_user_approval \in BOOLEAN

VARIABLE policies    \* the _policies dict: its values in insertion order

PolicyTypeOK == policies \in Seq(Policies)

PolicyInit == policies = << >>

\* load_policy(): a policy id already present keeps its place in the dict.
LoadPolicy(p) ==
    IF \E i \in DOMAIN policies : policies[i].policy_id = p.policy_id
    THEN policies' = [i \in DOMAIN policies |->
                         IF policies[i].policy_id = p.policy_id THEN p ELSE policies[i]]
    ELSE policies' = Append(policies, p)

Least(S) == CHOOSE n \in S : \A m \in S : n <= m

\* The requirements of the i-th policy that name capability k.
Matches(i, k) ==
    {j \in DOMAIN policies[i].requirements :
        policies[i].requirements[j].capability_id = k}

Covered(k) == \E i \in DOMAIN policies : Matches(i, k) # {}

\* Mutant: the policy loaded last wins.
FindRequirement_LastPolicy(k) ==
    LET covering == {n \in DOMAIN policies : Matches(n, k) # {}}
        i == CHOOSE n \in covering : \A m \in covering : m <= n
    IN  policies[i].requirements[Least(Matches(i, k))]

\* _find_requirement(): the first match of the first policy that has one.
FindRequirement(k) ==
    LET i == Least({n \in DOMAIN policies : Matches(n, k) # {}})
    IN  policies[i].requirements[Least(Matches(i, k))]

TrustSufficient(provided, required) == TrustRank[provided] >= TrustRank[required]

\* evaluate()
Evaluate(k, trust) ==
    IF ~ Covered(k) THEN "DENIED"
    ELSE LET req == FindRequirement(k)
         IN  IF ~ TrustSufficient(trust, req.required_trust_level) THEN "DENIED"
             ELSE IF req.requires_user_approval THEN "REQUIRES_APPROVAL"
             ELSE "GRANTED"
=============================================================================
