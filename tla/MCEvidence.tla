------------------------------ MODULE MCEvidence ------------------------------
(* Three components that gather what independent parties say of a result:  *)
(* the federation ledger, the merge of obligation graphs and preregistered *)
(* reproductions.  They share no state, so a behaviour exercises one of    *)
(* them while the others rest in the state they start from: the states add *)
(* up instead of multiplying.                                              *)
EXTENDS FederationLedger, GraphMerge, Reproduction, TLC

CONSTANTS
  review, verify, security, s1, s2,   \* the ledger
  r1, r2, e1, e2, pid1, pid2, key     \* the reproductions

VARIABLE running                      \* the component exercised

-----------------------------------------------------------------------------
(* The ledger.                                                             *)

ThreeActors == {review, verify, security}

(* The actors of tests/test_federation.py, and a verifier of narrow scope. *)
Identities ==
  [a \in ThreeActors |->
     CASE a = review   -> [organization |-> "quality", roles |-> {"REVIEWER"},
                           weight |-> 1, scopes |-> {AnyScope}]
       [] a = verify   -> [organization |-> "assurance", roles |-> {"VERIFIER"},
                           weight |-> 1, scopes |-> {"global"}]
       [] a = security -> [organization |-> "assurance", roles |-> {"SECURITY"},
                           weight |-> 2, scopes |-> {AnyScope}]]

Evidence(a, organization, obligation, verdict, group, scope) ==
  [actor |-> a, organization |-> organization, obligation |-> obligation,
   verdict |-> verdict, group |-> group, scope |-> scope]

(* Independent and correlated support, refutations with and without a veto,*)
(* and one submission for each reason to refuse one.                       *)
Offers ==
  {Evidence(review, "quality", "o", "SUPPORTS", "tests", "global"),
   Evidence(verify, "assurance", "o", "SUPPORTS", "formal", "global"),
   Evidence(verify, "assurance", "o", "SUPPORTS", "tests", "global"),
   Evidence(security, "assurance", "o", "REFUTES", "scan", "local"),
   Evidence(verify, "assurance", "o", "REFUTES", "formal", "global"),
   Evidence(review, "quality", "o", "INCONCLUSIVE", "tests", "global"),
   Evidence(review, "assurance", "o", "SUPPORTS", "tests", "global"),
   Evidence(verify, "assurance", "o", "SUPPORTS", "formal", "local"),
   Evidence(review, "quality", "o", "SUPPORTS", NoGroup, "global")}

(* A submission may be altered to any of these, and to another obligation. *)
Statements == Offers \cup {Evidence(security, "assurance", "other", "REFUTES", "scan", "local")}

Policy(organizations, weight, groups, roles, inconclusive, noConflicts, dependencies) ==
  [organizations |-> organizations, weight |-> weight, groups |-> groups,
   roles |-> roles, vetoes |-> {"SECURITY"}, inconclusive |-> inconclusive,
   noConflicts |-> noConflicts, dependencies |-> dependencies]

(* The defaults of QuorumPolicy, and a strict one for each of the options. *)
ThePolicies ==
  {Policy(2, 2, 2, {}, TRUE, TRUE, {}),
   Policy(1, 1, 1, {"VERIFIER"}, FALSE, FALSE, {"schema"})}

(* Two submissions suffice for a quorum, for a conflict and for a veto.    *)
OneIsAltered == Cardinality({e \in file' : e.signature # e.says}) <= 1

-----------------------------------------------------------------------------
(* The merge.                                                              *)

(* A graph as ObligationGraph.to_dict writes it, one written by hand       *)
(* without metadata, and one with an edge to a node that is not there.     *)
Graphs ==
  {[mark |-> [n \in {1, 2} |-> NoRepository], edges |-> {}],
   [mark |-> [n \in {1} |-> NoMetadata], edges |-> {<<1, 1>>}],
   [mark |-> [n \in {1} |-> NoRepository], edges |-> {<<1, 2>>}]}

(* The repositories "a", "a:b" and "d" and the nodes "b:c" and "c": a:b:c  *)
(* may be of either of the first two, and nothing else is ambiguous.       *)
Parts == {"a", "b", "c", "d"}

RepositoryNames == <<<<"a">>, <<"a", "b">>, <<"d">>>>

NodeNames == <<<<"b", "c">>, <<"c">>>>

-----------------------------------------------------------------------------
(* The reproductions: two evaluators that must both agree.  The answers are*)
(* wrong in different ways, and score alike.                               *)

TwoEvaluators == <<e1, e2>>

Scores == [wrong |-> "bad", mistaken |-> "bad"]

Answers == DOMAIN Scores

Symmetric == Permutations({r1, r2}) \cup Permutations({pid1, pid2}) \cup Permutations({s1, s2})

ASSUME ConstantsAssumption == MergeConstantsAreRight /\ ReproductionConstantsAreRight

-----------------------------------------------------------------------------

(* The graphs with which the merge rests.                                  *)
Resting == [r \in Repository |-> CHOOSE g \in FirstGraphs : TRUE]

EvidenceInit ==
  /\ Init /\ MergeInit /\ ReproductionInit
  /\ \/ running \in {"ledger", "reproductions"} /\ graphs = Resting
     \/ running = "merges"

LedgerStep ==
  running = "ledger" /\ Next /\ OneIsAltered /\ UNCHANGED <<running, mergeVars, reproductionVars>>

MergeStep ==
  running = "merges" /\ MergeNext /\ UNCHANGED <<running, vars, reproductionVars>>

ReproductionStep ==
  running = "reproductions" /\ ReproductionNext /\ UNCHANGED <<running, vars, mergeVars>>

EvidenceNext == LedgerStep \/ MergeStep \/ ReproductionStep

EvidenceSpec == EvidenceInit /\ [][EvidenceNext]_<<running, vars, mergeVars, reproductionVars>>

=============================================================================
