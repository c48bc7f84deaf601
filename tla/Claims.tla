-------------------------------- MODULE Claims --------------------------------
(***************************************************************************)
(* core/claims.py and the part of core/policy.py that reads it: what an    *)
(* epistemic status is worth, what a piece of evidence can support at      *)
(* most, and what a release of a task's modes requires at least.           *)
(***************************************************************************)
EXTENDS Naturals, Sequences

(* Ascending: the rank of a status is its position.                        *)
StatusOrder ==
  << "UNKNOWN", "SPECULATIVE_HYPOTHESIS", "HEURISTIC_STRATEGY",
     "FORMALIZATION_TARGET", "EMPIRICAL_SUPPORT", "COMPUTATIONAL_EVIDENCE",
     "EXECUTION_VERIFIED", "CONDITIONAL_THEOREM", "MATHEMATICALLY_DERIVED",
     "KERNEL_VERIFIED", "INDEPENDENTLY_REPRODUCED", "REFUTED" >>

EpistemicStatuses == {StatusOrder[i] : i \in 1..Len(StatusOrder)}

RANK == [status \in EpistemicStatuses |->
           CHOOSE i \in 1..Len(StatusOrder) : StatusOrder[i] = status]

(* A kind of evidence that the table does not list supports nothing.       *)
EvidenceCap(kind) ==
  CASE kind = "heuristic" -> "HEURISTIC_STRATEGY"
    [] kind = "formal_target" -> "FORMALIZATION_TARGET"
    [] kind = "empirical" -> "EMPIRICAL_SUPPORT"
    [] kind = "computation" -> "COMPUTATIONAL_EVIDENCE"
    [] kind = "execution" -> "EXECUTION_VERIFIED"
    [] kind = "conditional_proof" -> "CONDITIONAL_THEOREM"
    [] kind = "derivation" -> "MATHEMATICALLY_DERIVED"
    [] kind = "kernel" -> "KERNEL_VERIFIED"
    [] kind = "reproduction" -> "INDEPENDENTLY_REPRODUCED"
    [] kind = "counterexample" -> "REFUTED"
    [] OTHER -> "UNKNOWN"

Highest(statuses) ==
  CHOOSE status \in statuses : \A other \in statuses : RANK[other] <= RANK[status]

StrongestStatus(evidence) ==
  Highest({"UNKNOWN"} \cup {EvidenceCap(evidence[i]) : i \in 1..Len(evidence)})

(* minimum_status_by_mode of DEFAULT_POLICY; the other modes have none.    *)
ModeMinimum(mode) ==
  CASE mode = "FORMAL_PROOF" -> "KERNEL_VERIFIED"
    [] mode = "SOFTWARE_ENGINEERING" -> "EXECUTION_VERIFIED"
    [] mode = "EXPERIMENTAL_RESEARCH" -> "COMPUTATIONAL_EVIDENCE"
    [] mode = "POLICY_AND_COMPLIANCE" -> "EXECUTION_VERIFIED"
    [] OTHER -> "UNKNOWN"

RequiredStatus(modes) == Highest({"UNKNOWN"} \cup {ModeMinimum(mode) : mode \in modes})

BelowMinimum(modes, evidence) ==
  RANK[StrongestStatus(evidence)] < RANK[RequiredStatus(modes)]
=============================================================================
