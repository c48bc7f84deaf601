------------------------------ MODULE RunOutcome ------------------------------
(***************************************************************************)
(* What one pipeline run promises, with no stages in it.  The run decides  *)
(* once whether its artifact is released or withheld, and publishes (in    *)
(* the control store, where other processes read it) that decision and no  *)
(* other.  Once published, nothing about the run changes any more.         *)
(***************************************************************************)
CONSTANT None      \* nothing is published

VARIABLES
  outcome,     \* "undecided", "released" or "withheld"
  published    \* None, or the outcome the control store holds

vars == <<outcome, published>>

Init == outcome = "undecided" /\ published = None

Decide ==
  /\ outcome = "undecided"
  /\ outcome' \in {"released", "withheld"}
  /\ UNCHANGED published

Publish ==
  /\ outcome # "undecided" /\ published = None
  /\ published' = outcome
  /\ UNCHANGED outcome

Next == Decide \/ Publish

Spec == Init /\ [][Next]_vars
=============================================================================
