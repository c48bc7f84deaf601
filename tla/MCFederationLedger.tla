-------------------------- MODULE MCFederationLedger --------------------------
(* A quorum of support and a veto, under the default policy: the case of   *)
(* VetoBlocks.                                                             *)
EXTENDS FederationLedger

CONSTANTS review, verify, security, s1, s2, s3

ThreeActors == {review, verify, security}

(* The actors of tests/test_federation.py.                                 *)
Identities ==
  [a \in ThreeActors |->
     [organization |-> IF a = review THEN "quality" ELSE "assurance",
      roles |-> CASE a = review   -> {"REVIEWER"}
                  [] a = verify   -> {"VERIFIER"}
                  [] a = security -> {"SECURITY"},
      weight |-> IF a = security THEN 2 ELSE 1, scopes |-> {AnyScope}]]

Evidence(a, verdict, group) ==
  [actor |-> a, organization |-> Identities[a].organization, obligation |-> "o",
   verdict |-> verdict, group |-> group, scope |-> "global"]

Offers ==
  {Evidence(review, "SUPPORTS", "tests"), Evidence(verify, "SUPPORTS", "formal"),
   Evidence(security, "REFUTES", "scan")}

(* The defaults of QuorumPolicy.                                           *)
ThePolicies ==
  {[organizations |-> 2, weight |-> 2, groups |-> 2, roles |-> {}, vetoes |-> {"SECURITY"},
    inconclusive |-> TRUE, noConflicts |-> TRUE, dependencies |-> {}]}
=============================================================================
