---------------------------- MODULE MCGraphReaders ----------------------------
(* What reads the obligations of a graph: promotion, and the routing of    *)
(* workers.  A behaviour exercises one of them while the other rests: the  *)
(* states add up instead of multiplying.                                   *)
EXTENDS MCObligationGraph, Routing

VARIABLE running                   \* what is exercised

-----------------------------------------------------------------------------
(* Routing.                                                                *)

Open(kind, severity, human, invalid) ==
  [kind |-> kind, severity |-> severity, blocking |-> TRUE, family |-> "runtime",
   human |-> human, invalid |-> invalid]

(* Alone: a duty with and one without a way to decompose it, a critical    *)
(* one, one that is wrong.  Together: two of one kind, two of one signature*)
(* of which one is for a person.                                           *)
Duties ==
  {{Open("PROOF", "MEDIUM", FALSE, FALSE)},
   {Open("PROVENANCE", "HIGH", FALSE, FALSE)},
   {Open("CLAIM", "CRITICAL", FALSE, FALSE)},
   {Open("SAFETY", "CRITICAL", FALSE, FALSE)},
   {Open("REQUIREMENT", "INFO", TRUE, FALSE), Open("REQUIREMENT", "INFO", FALSE, FALSE)},
   {Open("REQUIREMENT", "HIGH", FALSE, TRUE)},
   {Open("RISK", "LOW", FALSE, FALSE), Open("RISK", "HIGH", FALSE, FALSE)}}

Ways ==
  {[success |-> TRUE, debt |-> -3, cost |-> 2], [success |-> FALSE, debt |-> 0, cost |-> 2],
   [success |-> FALSE, debt |-> -1, cost |-> 9]}

TwoBudgets == {Unlimited, 6}

(* One worker is as good as another: routing asks none of them its name.   *)
AnyWorker == Permutations(Worker)

ASSUME RoutingAssumption == ConstantsAreRight

-----------------------------------------------------------------------------

(* What rests stays as it is created from the first of the inputs.         *)
ReadersInit ==
  /\ Init /\ RoutingInit
  /\ \/ running = "promotion" /\ duties = CHOOSE open \in Portfolios : TRUE
     \/ running = "routing" /\ task = CHOOSE t \in Tasks : TRUE

PromotionStep == running = "promotion" /\ Next /\ UNCHANGED <<running, routingVars>>

RouteStep == running = "routing" /\ RoutingNext /\ UNCHANGED <<running, vars>>

ReadersNext == PromotionStep \/ RouteStep

ReadersSpec == ReadersInit /\ [][ReadersNext]_<<running, vars, routingVars>>

=============================================================================
