-------------------------------- MODULE Tension --------------------------------
(***************************************************************************)
(* Tension-driven discovery (tension/engine.py) over the evidence ledger:  *)
(* a run detects the conflict in the valid evidence on an obligation,      *)
(* takes hypotheses and experiments from its caller or generates them,     *)
(* recommends an experiment and, given the outcome of one, measures what   *)
(* uncertainty remains.  Evidence is submitted, altered, signed anew and   *)
(* its actors are deactivated between runs; the hypotheses of a caller are *)
(* objects that its runs share, and write to.                              *)
(*                                                                         *)
(* Probabilities are integer weights: priors in any unit, likelihoods in   *)
(* parts of Unit, and normalized probabilities are numerators over their   *)
(* least common denominator.  Entropies are thousandths of a bit.          *)
(* The wording of a tension, its organizations and the ranking of its      *)
(* hypotheses by value decide nothing and are left out.                    *)
(***************************************************************************)
EXTENDS FederationLedger, Sequences, Functions

CONSTANTS
  Unit,           \* likelihoods sum up to it
  NLog,           \* NLog[n] = n log2 n, in thousandths; it grows faster than n
  Kind,           \* Kind[o], the tension_kind that the evidence on o declares
  Callers,        \* the hypotheses of callers, with their kinds and priors
  Lists,          \* the lists of them that callers pass
  Tests,          \* the lists of experiments that callers pass
  Results,        \* the results that they report
  MaxReports      \* bound: reports

TensionKinds == {"CONTRADICTION", "SCOPE_CONFLICT", "CAUSAL_CONFLICT", "RESOURCE_CONFLICT",
                 "COMPOSITION_FAILURE", "MODEL_DATA_MISMATCH", "EVIDENCE_GAP"}

HypothesisKinds == {"NARROW_SCOPE", "CALIBRATION_ERROR", "HIDDEN_VARIABLE", "MODEL_REVISION",
                    "DEPENDENCY_CORRECTION", "RESOURCE_REGIME", "HUMAN_POLICY_DECISION"}

DiscoveryStatuses == {"EXPERIMENT_RECOMMENDED", "TENSION_REDUCED", "UNRESOLVED"}

ASSUME WeightsAssumption ==
  /\ Unit \in Nat \ {0} /\ MaxReports \in Nat
  /\ \A n \in DOMAIN NLog : NLog[n] \in Nat
  /\ \A m, n \in DOMAIN NLog : m + n \in DOMAIN NLog => NLog[m] + NLog[n] <= NLog[m + n]
  /\ Kind \in [Obligation -> TensionKinds]
  /\ Lists \subseteq SUBSET DOMAIN Callers
  /\ \A l, m \in Lists : l = m \/ l \cap m = {}
  /\ IsFiniteSet(DOMAIN Callers) /\ DOMAIN Callers \cap HypothesisKinds = {}
  /\ \A h \in DOMAIN Callers : Callers[h].kind \in HypothesisKinds /\ Callers[h].prior \in Nat
  /\ \A xs \in Tests :
       /\ xs \in Seq({xs[i] : i \in DOMAIN xs})
       /\ \A i \in DOMAIN xs : xs[i].cost \in Nat \ {0} /\ IsFiniteSet(DOMAIN xs[i].outcomes)

VARIABLES
  held,       \* held[h], the prior and the tension of the caller's hypothesis h
  reports     \* the reports on tensions, in their order

tensionVars == <<held, reports>>

Unattached == 0

TensionInit ==
  /\ Init
  /\ held = [h \in DOMAIN Callers |-> [prior |-> Callers[h].prior, tension |-> Unattached]]
  /\ reports = << >>

-----------------------------------------------------------------------------
(* Detection.                                                              *)

Weight(e) == Identity[e.says.actor].weight

(* Fault: every submission counts.                                         *)
EverySubmission(evidence) ==
  {[group |-> e.says.group, weight |-> Weight(e), id |-> e.id] : e \in evidence}

(* The weight of the strongest evidence of every provenance group; which of*)
(* two equals is listed decides nothing.                                   *)
Strongest(evidence) ==
  {[group |-> e.says.group, weight |-> Weight(e)] :
     e \in {f \in evidence : \A g \in evidence :
              g.says.group = f.says.group => Weight(g) <= Weight(f)}}

(* Fault: what is on file is not verified again.                           *)
SidesOnFile(on, o) ==
  [support |-> Strongest({e \in EvidenceFor(on, o) : e.says.verdict = "SUPPORTS"}),
   refute |-> Strongest({e \in EvidenceFor(on, o) : e.says.verdict = "REFUTES"})]

Sides(on, o) == [support |-> Strongest(Valid(on, o, "SUPPORTS")),
                 refute |-> Strongest(Valid(on, o, "REFUTES"))]

Lesser(m, n) == IF m < n THEN m ELSE n

(* balance * independence * strength, in thousandths.                      *)
ScoreOf(support, refute, groups) ==
  LET total == support + refute
  IN  (1000 * 2 * Lesser(support, refute) * Lesser(2, groups) * Lesser(2, total))
        \div (4 * total)

NoTension == [score |-> 0]

SideWeight(side) == MapThenSumSet(LAMBDA t : t.weight, side)

Detect(on, o) ==
  LET sides   == Sides(on, o)
      support == SideWeight(sides.support)
      refute  == SideWeight(sides.refute)
      groups  == {t.group : t \in sides.support \cup sides.refute}
  IN  IF support = 0 \/ refute = 0 THEN NoTension
      ELSE [score |-> ScoreOf(support, refute, Cardinality(groups)), kind |-> Kind[o],
            support |-> support, refute |-> refute, groups |-> groups]

-----------------------------------------------------------------------------
(* Hypotheses and experiments.                                             *)

(* The bounded repair vocabulary; the ids of generated hypotheses are their*)
(* kinds, and their priors are equal.                                      *)
Templates(kind) ==
  CASE kind = "RESOURCE_CONFLICT" ->
         {"RESOURCE_REGIME", "CALIBRATION_ERROR", "MODEL_REVISION"}
    [] kind \in {"COMPOSITION_FAILURE", "CAUSAL_CONFLICT"} ->
         {"DEPENDENCY_CORRECTION", "NARROW_SCOPE", "MODEL_REVISION"}
    [] OTHER ->
         {"NARROW_SCOPE", "CALIBRATION_ERROR", "HIDDEN_VARIABLE", "MODEL_REVISION"}

Generated(kind) == [h \in Templates(kind) |-> [kind |-> h, prior |-> 1]]

Favors(favored, kind) ==
  \/ kind = favored
  \/ favored = "HIDDEN_VARIABLE" /\ kind \in {"DEPENDENCY_CORRECTION", "MODEL_REVISION"}

(* Three experiments over the same outcomes; costs with their risk of 5 %, *)
(* in hundredths.                                                          *)
DefaultOutcomes == <<"supports_scope_split", "supports_measurement_error",
                     "supports_new_mechanism">>

DefaultExperiment(favored, index, cost, hs) ==
  [id |-> favored, outcomes |-> DefaultOutcomes, cost |-> cost,
   likelihoods |->
     [h \in DOMAIN hs |->
        [o \in {DefaultOutcomes[i] : i \in 1..3} |->
           CASE Favors(favored, hs[h].kind) ->
                  IF o = DefaultOutcomes[index] THEN (3 * Unit) \div 4 ELSE Unit \div 8
             [] OTHER ->
                  IF o = DefaultOutcomes[index] THEN Unit \div 5 ELSE (2 * Unit) \div 5]]]

DefaultExperiments(hs) ==
  <<DefaultExperiment("NARROW_SCOPE", 1, 105, hs),
    DefaultExperiment("CALIBRATION_ERROR", 2, 126, hs),
    DefaultExperiment("HIDDEN_VARIABLE", 3, 157, hs)>>

Sum(f) == FoldFunction(+, 0, f)

(* What run refuses with a ValueError.                                     *)
Admissible(x, hs) ==
  /\ Len(x.outcomes) >= 2
  /\ \A h \in DOMAIN hs :
       /\ h \in DOMAIN x.likelihoods
       /\ DOMAIN x.likelihoods[h] = {x.outcomes[i] : i \in DOMAIN x.outcomes}
       /\ \A o \in DOMAIN x.likelihoods[h] : x.likelihoods[h][o] \in 0..Unit
       /\ Sum(x.likelihoods[h]) = Unit

-----------------------------------------------------------------------------
(* Inference.                                                              *)

(* The shares that f[x] have in the total are n-ths; n is least.           *)
Denominator(f, total, n) == \A x \in DOMAIN f : (f[x] * n) % total = 0

LeastDenominator(f, total) ==
  CHOOSE n \in 1..total :
    Denominator(f, total, n) /\ \A m \in 1..(n - 1) : ~Denominator(f, total, m)

(* Fault: all of the weight goes to one of those that have none.           *)
NormalizeToOne(f) ==
  LET total == Sum(f)
      n == LeastDenominator(f, total)
  IN  IF total = 0
      THEN [x \in DOMAIN f |-> IF x = (CHOOSE y \in DOMAIN f : TRUE) THEN 1 ELSE 0]
      ELSE [x \in DOMAIN f |-> (f[x] * n) \div total]

(* f[x] / total; weights that are all zero become equal.                   *)
Normalize(f) ==
  LET total == Sum(f)
      n == LeastDenominator(f, total)
  IN  IF total = 0 THEN [x \in DOMAIN f |-> 1]
      ELSE [x \in DOMAIN f |-> (f[x] * n) \div total]

Entropy(f) ==
  LET total == Sum(f)
  IN  (NLog[total] - Sum([x \in DOMAIN f |-> NLog[f[x]]])) \div total

Priors(hs) == Normalize([h \in DOMAIN hs |-> hs[h].prior])

Joint(x, priors, o) ==
  [h \in DOMAIN priors |-> priors[h] * x.likelihoods[h][o]]

Posterior(x, priors, o) == Normalize(Joint(x, priors, o))

InformationGain(x, priors) ==
  LET joint(i) == Joint(x, priors, x.outcomes[i])
      entropy  == Entropy(priors)
      expected == Sum([i \in DOMAIN x.outcomes |-> Sum(joint(i)) * Entropy(Normalize(joint(i)))])
                    \div (Sum(priors) * Unit)
  IN  IF entropy > expected THEN entropy - expected ELSE 0

(* Rounded, as the utilities are that recommend compares.                  *)
Utility(x, priors) == (100 * InformationGain(x, priors)) \div x.cost

(* Fault: the cheapest one.                                                *)
RecommendCheapest(xs, priors) ==
  CHOOSE i \in DOMAIN xs : \A j \in DOMAIN xs : xs[i].cost <= xs[j].cost

(* The first of those with the best utility.                               *)
Recommend(xs, priors) ==
  LET utility == [i \in DOMAIN xs |-> Utility(xs[i], priors)]
  IN  CHOOSE i \in DOMAIN xs :
        /\ \A j \in DOMAIN xs : utility[j] <= utility[i]
        /\ \A j \in 1..(i - 1) : utility[j] < utility[i]

(* Faults: uncertainty is compared with the most there could be; a result  *)
(* that raises uncertainty raises the score.                               *)
RemainingOfMost(score, priors, posterior) ==
  IF Entropy(priors) = 0 THEN 0
  ELSE (score * Entropy(posterior)) \div Entropy([h \in DOMAIN priors |-> 1])

RemainingUncapped(score, priors, posterior) ==
  IF Entropy(priors) = 0 THEN 0 ELSE (score * Entropy(posterior)) \div Entropy(priors)

(* The score that is left after a result: it never grows.                  *)
Remaining(score, priors, posterior) ==
  IF Entropy(priors) = 0 THEN 0
  ELSE (score * Lesser(Entropy(priors), Entropy(posterior))) \div Entropy(priors)

-----------------------------------------------------------------------------
(* A run.                                                                  *)

NoResult == [experiment |-> 0]

(* The caller's hypotheses with the priors they have by now; none: the     *)
(* generated ones.                                                         *)
Explaining(tension, chosen) ==
  IF chosen = {} THEN Generated(tension.kind)
  ELSE [h \in chosen |-> [kind |-> Callers[h].kind, prior |-> held[h].prior]]

TestsFor(xs, hs) == IF xs = << >> THEN DefaultExperiments(hs) ELSE xs

(* The first experiment of the name, if there is one.                      *)
Named(xs, id) == {i \in DOMAIN xs : xs[i].id = id /\ \A j \in 1..(i - 1) : xs[j].id # id}

Chosen(xs, id) == xs[CHOOSE i \in Named(xs, id) : TRUE]

(* A run refuses its arguments after it wrote to the hypotheses.           *)
Refused(xs, hs, result) ==
  \/ \E i \in DOMAIN xs : ~Admissible(xs[i], hs)
  \/ result # NoResult /\ ~\E i \in Named(xs, result.experiment) :
       \E j \in DOMAIN xs[i].outcomes : xs[i].outcomes[j] = result.outcome

(* tension_id is written once, to a hypothesis that is "pending".          *)
Attached(priors, chosen) ==
  [h \in DOMAIN held |->
     IF h \notin chosen THEN held[h]
     ELSE [prior |-> priors[h],
           tension |-> IF held[h].tension = Unattached THEN Len(reports) + 1 ELSE held[h].tension]]

Observed(tension, xs, priors, result) ==
  LET posterior == Posterior(Chosen(xs, result.experiment), priors, result.outcome)
      after     == Remaining(tension.score, priors, posterior)
  IN  [status |-> IF after < tension.score THEN "TENSION_REDUCED" ELSE "UNRESOLVED",
       posterior |-> posterior, after |-> after]

Discovery(o, tension, xs, hs, result) ==
  LET priors  == Priors(hs)
      outcome == IF result = NoResult
                 THEN [status |-> "EXPERIMENT_RECOMMENDED", posterior |-> priors,
                       after |-> tension.score]
                 ELSE Observed(tension, xs, priors, result)
  IN  [obligation |-> o, status |-> outcome.status, tension |-> tension, tests |-> xs,
       recommended |-> Recommend(xs, priors), result |-> result,
       priors |-> priors, posterior |-> outcome.posterior, after |-> outcome.after]

(* A report of NO_TENSION has nothing in it.                               *)
NothingFound(o) ==
  /\ Detect(file, o) = NoTension
  /\ UNCHANGED tensionVars

Refuse(o, xs, hs, chosen, result) ==
  /\ Refused(xs, hs, result)
  /\ held' = Attached(Priors(hs), chosen)
  /\ UNCHANGED reports

(* Fault: the posterior becomes the prior of the next run.                 *)
ReportLearning(o, tension, xs, hs, chosen, result) ==
  /\ ~Refused(xs, hs, result)
  /\ reports' = Append(reports, Discovery(o, tension, xs, hs, result))
  /\ held' = Attached(Discovery(o, tension, xs, hs, result).posterior, chosen)

Report(o, tension, xs, hs, chosen, result) ==
  /\ ~Refused(xs, hs, result)
  /\ reports' = Append(reports, Discovery(o, tension, xs, hs, result))
  /\ held' = Attached(Priors(hs), chosen)

Discover(o, chosen, tests, result) ==
  /\ \/ NothingFound(o)
     \/ /\ Detect(file, o) # NoTension
        /\ Len(reports) < MaxReports
        /\ LET tension == Detect(file, o)
               hs == Explaining(tension, chosen)
               xs == TestsFor(tests, hs)
           IN  \/ Refuse(o, xs, hs, chosen, result)
               \/ Report(o, tension, xs, hs, chosen, result)
  /\ UNCHANGED vars

DiscoveryNext ==
  \/ /\ \/ \E a \in Actor : RegisterActor(a, TRUE)
        \/ \E a \in Actor, isActive \in BOOLEAN : SetActive(a, isActive)
        \/ \E id \in SubmissionId, s \in Offer : Submit(id, s)
        \/ \E e \in file, s \in Statement : Alter(e, s)
        \/ \E e \in file : Sign(e)
     /\ UNCHANGED tensionVars
  \/ \E o \in Obligation, chosen \in Lists \cup {{}}, tests \in Tests :
       \E result \in {NoResult} \cup Results : Discover(o, chosen, tests, result)

DiscoverySpec == TensionInit /\ [][DiscoveryNext]_<<vars, tensionVars>>

-----------------------------------------------------------------------------
(* Properties.                                                             *)

(* Types; a caller's hypothesis is attached to the tension of some run.    *)
DiscoveryTypeOK ==
  /\ \A h \in DOMAIN held : held[h].prior \in Nat /\ held[h].tension \in 0..MaxReports
  /\ \A i \in DOMAIN reports :
       /\ reports[i].status \in DiscoveryStatuses
       /\ reports[i].tension.score \in 0..1000
       /\ reports[i].after \in 0..reports[i].tension.score

(* Detection and the decisions of the ledger read the same evidence in two *)
(* ways and agree: there is a tension exactly where an evaluation, whose   *)
(* policy forbids conflicts, would return CONFLICT.                        *)
TensionIsConflict ==
  \A o \in Obligation : Detect(file, o) # NoTension <=> Conflicting(file, o)

(* "Repeated signatures from one underlying source do not create           *)
(* independent evidence": another submission of a provenance group, by an  *)
(* actor of no more weight, leaves the score as it is.                     *)
Repeats(s) ==
  \E f \in Valid(file, s.obligation, s.verdict) :
    f.says.group = s.group /\ Weight(f) >= Identity[s.actor].weight

RepeatsDoNotScore ==
  [][\A id \in SubmissionId \ {e.id : e \in file}, s \in Offer :
       Submit(id, s) /\ Repeats(s)
         => Detect(file', s.obligation).score = Detect(file, s.obligation).score]_vars

(* A result counts once, however often the runs of a caller report it: the *)
(* same experiments, result and hypotheses give the same posterior.        *)
ResultCountsOnce ==
  \A i, j \in DOMAIN reports :
    (/\ reports[i].tests = reports[j].tests /\ reports[i].result = reports[j].result
     /\ DOMAIN reports[i].priors = DOMAIN reports[j].priors)
      => reports[i].posterior = reports[j].posterior

(* "The least costly declared test expected to separate the competing      *)
(* explanations": a cheaper experiment of the run does not tell more than  *)
(* the recommended one, nor does any if that one tells nothing, but for    *)
(* what the rounding of their utilities hides.                             *)
RecommendedTells ==
  \A i \in DOMAIN reports :
    LET r == reports[i]
        gain == [j \in DOMAIN r.tests |-> InformationGain(r.tests[j], r.priors)]
        best == r.recommended
    IN  \A j \in DOMAIN r.tests :
          (r.tests[j].cost < r.tests[best].cost \/ gain[best] = 0)
            => 100 * gain[j] < 100 * gain[best] + r.tests[j].cost

(* docs/TENSION_DRIVEN_DISCOVERY.md:59: "A result can leave tension        *)
(* unresolved. Negative or ambiguous results remain".  Where the hypotheses*)
(* left anything open, an outcome that all of them expect equally resolves *)
(* nothing.                                                                *)
Likelihood(r, h) == Chosen(r.tests, r.result.experiment).likelihoods[h][r.result.outcome]

Ambiguous(r) ==
  r.result # NoResult /\ \E c \in 1..Unit : \A h \in DOMAIN r.priors : Likelihood(r, h) = c

AmbiguousResolvesNothing ==
  \A i \in DOMAIN reports :
    Ambiguous(reports[i]) /\ Entropy(reports[i].priors) > 0 => reports[i].status = "UNRESOLVED"

(* A result says as much as it tells: once, nothing if it is ambiguous, and*)
(* never that there is more tension than the run found.                    *)
ResultsCountForWhatTheyTell == DiscoveryTypeOK /\ ResultCountsOnce /\ AmbiguousResolvesNothing

(* An outcome that all of the hypotheses exclude resolves nothing either.  *)
Excluded(r) ==
  r.result # NoResult /\ \A h \in DOMAIN r.priors : Likelihood(r, h) = 0

ExcludedResolvesNothing ==
  \A i \in DOMAIN reports :
    Excluded(reports[i]) /\ Entropy(reports[i].priors) > 0 => reports[i].status = "UNRESOLVED"

=============================================================================
