--------------------------------- MODULE Routing ---------------------------------
(***************************************************************************)
(* The obligation router (routing/router.py, routing/stagnation.py) and the*)
(* history of outcomes it learns from (storage/sqlite.py).  Workers ask for*)
(* a strategy, try it, and report how it went.  A report gets its time     *)
(* stamp before it is stored, so reports arrive late and out of order, and *)
(* a recommendation may miss what is under way.                            *)
(*                                                                         *)
(* Scores are the code's: predictions in millionths, to which the code     *)
(* rounds, utilities in quarters of a millionth because the least severity *)
(* weighs a quarter.  Debts and costs are whole numbers here.              *)
(***************************************************************************)
EXTENDS Integers, FiniteSets, Sequences, SequencesExt, FiniteSetsExt

CONSTANTS
  Worker,
  Portfolios,    \* the duties that are open together: sets of nodes
  Outcomes,      \* how an attempt may go: [success, debt, cost]
  Budgets,       \* remaining_budget_seconds of a request, or Unlimited
  Unlimited,
  MaxAttempts    \* bound: attempts started

Million == 1000000

Threshold == 3                      \* repeated_failure_threshold

QuarterWeight == [INFO |-> 1, LOW |-> 4, MEDIUM |-> 12, HIGH |-> 32, CRITICAL |-> 80]

DefaultCost ==
  [TEST |-> 2, COUNTEREXAMPLE_SEARCH |-> 4, STATIC_ANALYSIS |-> 5, FORMAL_PROOF |-> 24,
   SIMULATION |-> 12, DOCUMENTATION_SEARCH |-> 6, DECOMPOSE |-> 8,
   REPAIR_IMPLEMENTATION |-> 10, RESOURCE_LOWERING |-> 9, HUMAN_REVIEW |-> 30,
   DEFER |-> 1, REJECT |-> 1]

PriorPercent ==
  [TEST |-> 76, COUNTEREXAMPLE_SEARCH |-> 62, STATIC_ANALYSIS |-> 68, FORMAL_PROOF |-> 58,
   SIMULATION |-> 60, DOCUMENTATION_SEARCH |-> 52, DECOMPOSE |-> 66,
   REPAIR_IMPLEMENTATION |-> 70, RESOURCE_LOWERING |-> 74, HUMAN_REVIEW |-> 90,
   DEFER |-> 35, REJECT |-> 95]

Strategies == DOMAIN DefaultCost

Kinds ==
  {"TEST", "PROOF", "CLAIM", "SAFETY", "POLICY", "RESOURCE", "RISK", "PROVENANCE",
   "SPECIFICATION", "REQUIREMENT", "ASSUMPTION", "INTENT", "UNKNOWN"}

KindStrategies(kind) ==
  CASE kind = "TEST" -> <<"TEST", "REPAIR_IMPLEMENTATION", "STATIC_ANALYSIS">>
    [] kind = "PROOF" -> <<"COUNTEREXAMPLE_SEARCH", "FORMAL_PROOF", "DECOMPOSE">>
    [] kind = "CLAIM" -> <<"COUNTEREXAMPLE_SEARCH", "TEST", "FORMAL_PROOF", "DECOMPOSE">>
    [] kind = "SAFETY" -> <<"STATIC_ANALYSIS", "SIMULATION", "FORMAL_PROOF", "HUMAN_REVIEW">>
    [] kind = "POLICY" -> <<"STATIC_ANALYSIS", "DOCUMENTATION_SEARCH", "HUMAN_REVIEW">>
    [] kind = "RESOURCE" -> <<"RESOURCE_LOWERING", "SIMULATION", "DECOMPOSE">>
    [] kind = "RISK" -> <<"SIMULATION", "STATIC_ANALYSIS", "HUMAN_REVIEW">>
    [] kind = "PROVENANCE" -> <<"STATIC_ANALYSIS", "REPAIR_IMPLEMENTATION">>
    [] kind = "SPECIFICATION" -> <<"DECOMPOSE", "DOCUMENTATION_SEARCH", "HUMAN_REVIEW">>
    [] kind = "REQUIREMENT" -> <<"TEST", "REPAIR_IMPLEMENTATION", "DECOMPOSE">>
    [] kind = "ASSUMPTION" -> <<"DOCUMENTATION_SEARCH", "TEST", "HUMAN_REVIEW">>
    [] kind = "INTENT" -> <<"DECOMPOSE", "HUMAN_REVIEW">>
    [] kind = "UNKNOWN" -> <<"DECOMPOSE", "DOCUMENTATION_SEARCH", "HUMAN_REVIEW">>

(* What routing reads of a node that is open.                              *)
IsDuty(d) ==
  /\ d.kind \in Kinds /\ d.severity \in DOMAIN QuarterWeight
  /\ d.blocking \in BOOLEAN /\ d.human \in BOOLEAN /\ d.invalid \in BOOLEAN

ConstantsAreRight ==
  /\ MaxAttempts \in Nat /\ IsFiniteSet(Worker)
  /\ \A open \in Portfolios : \A d \in open : IsDuty(d)
  /\ \A o \in Outcomes : o.debt \in Int /\ o.cost \in Int

VARIABLES
  duties,     \* the nodes that are open
  history,    \* the rows of routing_outcomes
  work,       \* work[w], what w is doing
  clock       \* attempts reported so far, the time

routingVars == <<duties, history, work, clock>>

Idle == [step |-> "idle"]

RoutingInit ==
  /\ duties \in Portfolios
  /\ history = {} /\ clock = 0
  /\ work = [w \in Worker |-> Idle]

-----------------------------------------------------------------------------
(* What the store answers.                                                 *)

(* Nodes that agree on these share one history.                            *)
Signature(d) == <<d.kind, d.severity, d.blocking, d.family>>

(* Fault: the kind of a node is taken for its signature.                   *)
OfKind(s) == {x \in history : x.signature[1] = s[1]}

OfSignature(s) == {x \in history : x.signature = s}

(* How many rows were stamped before x.                                    *)
Place(x, rows) == Cardinality({y \in rows : y.at < x.at})

(* recent_routing_outcomes, then the sort and the last six of detect.      *)
Recent(s) ==
  LET rows == OfSignature(s)
      n    == Cardinality(rows)
      size == IF n > 6 THEN 6 ELSE n
  IN  [i \in 1..size |-> CHOOSE x \in rows : Place(x, rows) = n - size + i - 1]

Tried(s, strategy) == {x \in OfSignature(s) : x.strategy = strategy}

(* The row of routing_stats for the attempts made with one strategy.       *)
Stats(tried) ==
  [attempts  |-> Cardinality(tried),
   successes |-> Cardinality({x \in tried : x.success}),
   cost      |-> MapThenSumSet(LAMBDA x : x.cost, tried),
   debt      |-> MapThenSumSet(LAMBDA x : x.debt, tried)]

-----------------------------------------------------------------------------
(* StagnationDetector.detect.                                              *)

(* Places in the list: what failed, what reduced no debt, the last k.      *)
Failures(recent) == {i \in DOMAIN recent : ~recent[i].success}

NoProgress(recent) == {i \in DOMAIN recent : recent[i].debt >= 0}

LastOf(recent, k) == Len(recent) - k + 1 .. Len(recent)

NamesOf(recent, places) == {recent[i].strategy : i \in places}

Repeats(recent) ==
  LET tail == LastOf(recent, Threshold)
  IN  tail \subseteq Failures(recent) /\ Cardinality(NamesOf(recent, tail)) = 1

Oscillates(recent) ==
  LET n == Len(recent)
  IN  /\ n >= 4 /\ LastOf(recent, 4) \subseteq Failures(recent)
      /\ recent[n - 3].strategy = recent[n - 1].strategy
      /\ recent[n - 2].strategy = recent[n].strategy
      /\ recent[n - 3].strategy # recent[n - 2].strategy

NotDetected == [kind |-> "NONE", repeated |-> {}]

(* Fault: a route stagnates only when the same strategy failed repeatedly. *)
DetectRepetition(recent) ==
  IF Cardinality(Failures(recent)) < Threshold THEN NotDetected
  ELSE IF Repeats(recent)
  THEN [kind     |-> "REPEATED_FAILURE",
        repeated |-> NamesOf(recent, LastOf(recent, Threshold))]
  ELSE NotDetected

Detect(recent) ==
  IF Cardinality(Failures(recent)) < Threshold THEN NotDetected
  ELSE IF Repeats(recent)
  THEN [kind     |-> "REPEATED_FAILURE",
        repeated |-> NamesOf(recent, LastOf(recent, Threshold))]
  ELSE IF Oscillates(recent)
  THEN [kind |-> "OSCILLATION", repeated |-> NamesOf(recent, LastOf(recent, 4))]
  ELSE IF Cardinality(NoProgress(recent)) >= Threshold
  THEN [kind |-> "NO_DEBT_REDUCTION", repeated |-> NamesOf(recent, NoProgress(recent))]
  ELSE NotDetected

-----------------------------------------------------------------------------
(* ObligationRouter.recommend.                                             *)

Candidates(d) ==
  IF d.invalid THEN <<"REJECT">>
  ELSE IF d.human /\ ~Contains(KindStrategies(d.kind), "HUMAN_REVIEW")
  THEN Append(KindStrategies(d.kind), "HUMAN_REVIEW")
  ELSE KindStrategies(d.kind)

(* (successes + prior * 4) / (attempts + 4)                                *)
Posterior(stats, strategy) ==
  (stats.successes * Million + PriorPercent[strategy] * 40000) \div (stats.attempts + 4)

(* A mean of zero counts as no mean at all.                                *)
ExpectedCost(stats, strategy) ==
  IF stats.cost = 0 THEN DefaultCost[strategy] * Million
  ELSE (stats.cost * Million) \div stats.attempts

Predicted(d, strategy, posterior, cost, stagnation, budget) ==
  LET cheap == IF budget # Unlimited /\ cost > budget * Million THEN posterior \div 4
               ELSE posterior
      fresh == IF strategy \in stagnation.repeated THEN (cheap * 15) \div 100 ELSE cheap
  IN  IF d.invalid /\ strategy = "REJECT" THEN 990000
      ELSE IF strategy = "HUMAN_REVIEW" /\ d.severity = "CRITICAL" /\ fresh < 940000
      THEN 940000
      ELSE fresh

DebtReduction(d, stats, posterior) ==
  IF stats.attempts = 0 THEN ((QuarterWeight[d.severity] * posterior) \div 20) * 7
  ELSE IF stats.debt >= 0 THEN 0
  ELSE ((-stats.debt) * 4 * Million) \div stats.attempts

Utility(d, predicted, reduction, cost) ==
  LET weight  == QuarterWeight[d.severity]
      failure == (Million - predicted) * weight
  IN  predicted * weight * 4 + reduction
      - (IF d.blocking THEN (failure * 5) \div 2 ELSE failure) - (cost * 8) \div 25

Scored(d, strategy, predicted, reduction, cost) ==
  [strategy |-> strategy, predicted |-> predicted,
   utility  |-> Utility(d, predicted, reduction, cost)]

Score(d, strategy, stats, stagnation, budget) ==
  LET posterior == Posterior(stats, strategy)
      cost      == ExpectedCost(stats, strategy)
  IN  Scored(d, strategy, Predicted(d, strategy, posterior, cost, stagnation, budget),
             DebtReduction(d, stats, posterior), cost)

Scores(d, candidates, stagnation, budget) ==
  [i \in DOMAIN candidates |->
     Score(d, candidates[i], Stats(Tried(Signature(d), candidates[i])), stagnation, budget)]

Above(x, y) == x.utility > y.utility \/ (x.utility = y.utility /\ x.predicted > y.predicted)

(* The sort is stable: of equal scores the first candidate stays ahead.    *)
Best(scores) ==
  scores[CHOOSE i \in DOMAIN scores :
           \A j \in DOMAIN scores : ~Above(scores[j], scores[i])
                                   /\ (j < i => Above(scores[i], scores[j]))].strategy

Severe(d) == d.severity \in {"HIGH", "CRITICAL"}

(* What the stagnation policy makes of the best strategy.                  *)
AfterStagnation(d, stagnation, best) ==
  IF stagnation.kind = "NONE" THEN best
  ELSE IF Severe(d) THEN "HUMAN_REVIEW"
  ELSE IF Contains(Candidates(d), "DECOMPOSE") THEN "DECOMPOSE"
  ELSE best

(* The score that stagnation adds for a person has 0.90.                   *)
Confidence(scores, strategy) ==
  LET own == {i \in DOMAIN scores : scores[i].strategy = strategy}
  IN  IF own = {} THEN 900000 ELSE scores[CHOOSE i \in own : TRUE].predicted

(* Fault: the critical threshold is not applied.                           *)
NeverDoubtful(d, confidence) == FALSE

Doubtful(d, confidence) == d.severity = "CRITICAL" /\ confidence < 800000

Decision(d, stagnation, selected, confidence) ==
  [selected   |-> IF Doubtful(d, confidence) \/ d.human THEN "HUMAN_REVIEW" ELSE selected,
   escalated  |-> Doubtful(d, confidence) \/ d.human
                  \/ (stagnation.kind # "NONE" /\ Severe(d)),
   confidence |-> confidence]

Select(d, stagnation, scores) ==
  LET selected == AfterStagnation(d, stagnation, Best(scores))
  IN  Decision(d, stagnation, selected, Confidence(scores, selected))

RecommendAfter(d, stagnation, budget) ==
  Select(d, stagnation, Scores(d, Candidates(d), stagnation, budget))

Recommend(d, budget) == RecommendAfter(d, Detect(Recent(Signature(d))), budget)

-----------------------------------------------------------------------------
(* Operations.                                                             *)

Started == clock + Cardinality({w \in Worker : work[w].step = "trying"})

Ask(w, d, budget) ==
  /\ work[w] = Idle /\ Started < MaxAttempts
  /\ work' = [work EXCEPT ![w] =
                [step |-> "trying", duty |-> d, decision |-> Recommend(d, budget)]]
  /\ UNCHANGED <<duties, history, clock>>

(* The RoutingOutcome is constructed, with its time stamp.                 *)
Report(w, o) ==
  /\ work[w].step = "trying"
  /\ clock' = clock + 1
  /\ work' = [work EXCEPT ![w] =
                [step |-> "reporting",
                 row |-> [at |-> clock, signature |-> Signature(work[w].duty),
                          strategy |-> work[w].decision.selected,
                          success |-> o.success, debt |-> o.debt, cost |-> o.cost]]]
  /\ UNCHANGED <<duties, history>>

(* Fault: a strategy that the table does not know.                         *)
RecordKind(w) ==
  /\ work[w].step = "reporting"
  /\ history' = history \cup {[work[w].row EXCEPT !.strategy = work[w].row.signature[1]]}
  /\ work' = [work EXCEPT ![w] = Idle]
  /\ UNCHANGED <<duties, clock>>

RecordOutcome(w) ==
  /\ work[w].step = "reporting"
  /\ history' = history \cup {work[w].row}
  /\ work' = [work EXCEPT ![w] = Idle]
  /\ UNCHANGED <<duties, clock>>

RoutingNext ==
  \E w \in Worker :
    \/ \E d \in duties, budget \in Budgets : Ask(w, d, budget)
    \/ \E o \in Outcomes : Report(w, o)
    \/ RecordOutcome(w)

RoutingSpec == RoutingInit /\ [][RoutingNext]_routingVars

-----------------------------------------------------------------------------
(* Properties.                                                             *)

Trying == {w \in Worker : work[w].step = "trying"}

(* Types; time stamps are distinct.                                        *)
RoutingTypeOK ==
  /\ duties \in Portfolios /\ clock \in 0..MaxAttempts
  /\ \A x \in history : x.at \in 0..clock - 1 /\ x.strategy \in Strategies
  /\ \A x, y \in history : x.at = y.at => x = y
  /\ \A w \in Trying : work[w].decision.selected \in Strategies
  /\ \A w \in Worker : work[w].step \in {"idle", "trying", "reporting"}

(* A critical duty is left to a tool only on a confidence of 0.80 at least,*)
(* and a duty that requires human authority never is.                      *)
ToolsAreTrusted ==
  \A w \in Trying :
    LET d == work[w].duty
    IN  work[w].decision.selected # "HUMAN_REVIEW" =>
          /\ ~d.human
          /\ d.severity = "CRITICAL" => work[w].decision.confidence >= 800000

(* Where a duty that makes no progress has to end up.                      *)
Fallback(d) == IF Severe(d) \/ d.human THEN "HUMAN_REVIEW" ELSE "DECOMPOSE"

HasFallback(d) == Severe(d) \/ d.human \/ Contains(Candidates(d), "DECOMPOSE")

(* The duties that share the history of d.                                 *)
Alike(d) == {e \in duties : Signature(e) = Signature(d)}

Fallbacks(d) == {Fallback(e) : e \in Alike(d)}

Reported == {work[w].row : w \in {v \in Worker : work[v].step = "reporting"}}

InFlight(d) == {w \in Trying : /\ Signature(work[w].duty) = Signature(d)
                               /\ work[w].decision.selected \notin Fallbacks(d)}

Elsewhere(d) == {x \in history \cup Reported : /\ x.signature = Signature(d)
                                               /\ x.strategy \notin Fallbacks(d)}

Fruitless(d) ==
  \A x \in history \cup Reported :
    x.signature = Signature(d) => ~x.success /\ x.debt >= 0

(* Stagnation is noticed in time, whatever order reports arrive in: as long*)
(* as nothing succeeds and no debt is reduced, duties of one signature that*)
(* have somewhere to go are tried elsewhere at most three times, plus once *)
(* for each worker that had asked before the third report was stored.      *)
FruitlessAttemptsAreBounded ==
  \A d \in duties :
    (\A e \in Alike(d) : HasFallback(e) /\ ~e.invalid) /\ Fruitless(d)
    => Cardinality(Elsewhere(d)) + Cardinality(InFlight(d))
         <= Threshold + Cardinality(Worker) - 1

(* An attempt made on one duty never makes another look stagnant unless    *)
(* they share a signature; the escalation of a duty that is neither        *)
(* critical nor reserved for a person has three failures on record.        *)
EscalationHasCause ==
  \A w \in Trying :
    LET d == work[w].duty
    IN  work[w].decision.escalated /\ ~d.human /\ d.severity # "CRITICAL" =>
          Cardinality({x \in history : x.signature = Signature(d) /\ ~x.success})
            >= Threshold

(* A worker is sent to a person when there is cause, and to a tool when it *)
(* can be trusted.                                                         *)
HandoversAreDue == RoutingTypeOK /\ ToolsAreTrusted /\ EscalationHasCause

=============================================================================
