----------------------------- MODULE MCArtifacts -----------------------------
(* The components whose results others rely on: the proof kernel, its proof*)
(* bundles, the receipts of kernel runners, Git deliveries and             *)
(* preregistered reproductions.  They share no state, so a behaviour       *)
(* exercises one of them while the others rest in a state they start from: *)
(* the states add up instead of multiplying.                               *)
EXTENDS NexusKernel, KernelBundle, KernelReceipts, GitDelivery

CONSTANTS
  n1, n2,                                                     \* the kernel
  old, new,                                                   \* the bundles
  A, B, Bench, q1, q2, q3,                                    \* the receipts
  calc, extra, cache, good, bad, was,                         \* the deliveries
  r1, r2, e1, e2, pid1, key, NoSecret, Nothing                \* the reproductions

VARIABLES
  running,                                                    \* the component exercised
  step, secret, amended, predicted, files, manifest, stored, gate, latest  \* Reproduction

MCName == {n1, n2}

IdentityType   == Pi(PROP, Pi(Var(0), Var(1)))
IdentityLambda == Lam(PROP, Lam(Var(0), Var(0)))

-----------------------------------------------------------------------------
(* sensitivity_to_query_core(): with queried, same, equal : Prop and the   *)
(* hypotheses not_equal, preserve, path_exact and decide, queried holds.   *)

SensitivityTheorem ==
  Pi(PROP, Pi(PROP, Pi(PROP,
    Pi(Pi(Var(0), EMPTY),                           \* equal -> Empty
    Pi(Pi(Pi(Var(3), EMPTY), Var(3)),               \* (queried -> Empty) -> same
    Pi(Pi(Var(3), Var(3)),                          \* same -> equal
    Pi(SumType(Var(5), Pi(Var(5), EMPTY)), Var(6))))))))

(* The branch of the case where the proof is wrong is the parameter.       *)
SensitivityProof(otherwise) ==
  Lam(PROP, Lam(PROP, Lam(PROP,
    Lam(Pi(Var(0), EMPTY),
    Lam(Pi(Pi(Var(3), EMPTY), Var(3)),
    Lam(Pi(Var(3), Var(3)),
    Lam(SumType(Var(5), Pi(Var(5), EMPTY)),
      Match(Var(0), Lam(Var(6), Var(0)),
        Lam(Pi(Var(6), EMPTY), EmptyElim(otherwise, Var(7))), Var(6)))))))))

Contradiction == App(Var(4), App(Var(2), App(Var(3), Var(0))))

-----------------------------------------------------------------------------

MCTypes == {Sort(1), EMPTY, IdentityType, Const(n1), SensitivityTheorem}

MCValues ==
  {PROP, EMPTY, IdentityLambda, Const(n1), EmptyElim(EMPTY, EMPTY), App(IdentityLambda, EMPTY),
   Match(Inl(EMPTY, PROP), Lam(PROP, Var(0)), Lam(PROP, Var(0)), PROP),
   Match(Inr(PROP, IdentityLambda), Lam(PROP, IdentityLambda), Lam(IdentityType, Var(0)), IdentityType),
   App(Lam(EMPTY, Var(0)), IdentityLambda),
   SensitivityProof(Contradiction)}

Leaves == {PROP, Var(0), Var(1), Const(n1)}

Redexes ==
  {App(Lam(PROP, Lam(Var(0), Var(1))), Var(1)),       \* a variable below a binder
   App(App(IdentityLambda, Var(1)), Var(0)),
   App(Lam(PROP, Pi(Var(0), Var(3))), EMPTY),
   Lam(PROP, App(Lam(PROP, Lam(Var(0), Var(2))), Var(0))),
   Let(PROP, Var(1), Lam(Var(0), Var(0))),
   Let(PROP, Var(1), Var(1)),
   Let(Sort(1), PROP, Lam(Var(0), Var(0))),
   Match(Inl(Var(0), EMPTY), Lam(Var(1), Var(0)), Lam(EMPTY, EmptyElim(Var(0), Var(2))), Var(1)),
   Match(Inr(EMPTY, Var(0)), Lam(EMPTY, Var(1)), Lam(Var(1), Var(0)), Var(1)),
   Match(Inl(Var(0), EMPTY), Lam(Var(1), EMPTY), Lam(EMPTY, EmptyElim(Var(0), Var(2))), Var(1)),
   Match(Inl(PROP, EMPTY), Lam(Sort(1), EMPTY), Lam(EMPTY, Var(0)), PROP),
   Lam(EMPTY, EmptyElim(Var(0), Pi(Var(2), EMPTY))),
   App(Const(n1), EMPTY), App(App(Const(n1), EMPTY), Const(n2)),
   Match(Const(n1), Lam(EMPTY, Var(0)), Lam(EMPTY, Var(0)), EMPTY)}

MCQuestions ==
  Redexes
    \cup {Node(op, 0, <<s, t>>) : op \in {"Pi", "Lam", "App"}, s \in Leaves, t \in Leaves}
    \cup {Sort(1), Sort(2), Lam(PROP, Sort(1))}
    \cup {IdentityLambda, SensitivityProof(Contradiction), SensitivityProof(Var(0))}

(* Nothing; and a proposition with a proof of it.                          *)
MCContexts == {<< >>, <<Var(0), PROP>>}

-----------------------------------------------------------------------------
(* The bundles: two releases of the kernel, and a shorter proof, which is  *)
(* none.                                                                   *)

MCDigests == {old, new}

MCEditedProofs == {Lam(PROP, Var(0)), EMPTY}

-----------------------------------------------------------------------------
(* The receipts: two independent runners, and a local one that shares its  *)
(* group with the first.                                                   *)

Who(organization, group, profile, external, platform) ==
  [organization |-> organization, group |-> group, profile |-> profile,
   external |-> external, platform |-> platform]

MCRunner == {A, B, Bench}

RunnerIdentities ==
  [r \in MCRunner |->
     CASE r = A -> Who("o1", "g1", "EXTERNAL_ED25519", TRUE, "linux")
       [] r = B -> Who("o2", "g2", "SIGSTORE_BUNDLE", TRUE, "macos")
       [] r = Bench -> Who("o3", "g1", "LOCAL_REFERENCE_HMAC", FALSE, "linux")]

Receipt(r, claim, code) ==
  [runner |-> r, organization |-> RunnerIdentities[r].organization, group |-> RunnerIdentities[r].group,
   profile |-> RunnerIdentities[r].profile, answers |-> TRUE, verdict |-> claim, code |-> code,
   platform |-> RunnerIdentities[r].platform, external |-> RunnerIdentities[r].external]

(* Any of them may be submitted, and any may be altered to say another.    *)
TheReceipts ==
  {Receipt(r, "ACCEPTED", 0) : r \in {A, B, Bench}}
  \cup {Receipt(Bench, "REJECTED", 1), [Receipt(Bench, "ACCEPTED", 0) EXCEPT !.answers = FALSE],
        [Receipt(A, "ACCEPTED", 0) EXCEPT !.organization = "o2", !.group = "g2"]}

ReceiptPolicy(organizations, groups, platforms, noRejections, externalOnly) ==
  [organizations |-> organizations, groups |-> groups, platforms |-> platforms,
   noRejections |-> noRejections, externalOnly |-> externalOnly]

ReceiptPolicies == {ReceiptPolicy(2, 2, 1, TRUE, TRUE), ReceiptPolicy(2, 2, 2, FALSE, FALSE)}

-----------------------------------------------------------------------------
(* The deliveries.                                                         *)


Tree(inCalc, inExtra) ==
  [p \in {calc, extra, cache} |-> CASE p = calc -> inCalc [] p = extra -> inExtra [] OTHER -> Absent]

TheTrees == {Tree(was, Absent), Tree(was, bad)}

NoFiles == << >>

Command(writes, commits, codes) == [writes |-> writes, commits |-> commits, codes |-> codes]

Tests == Command([p \in {cache} |-> good], FALSE, {0, 1})

Hangs == Command(NoFiles, FALSE, {124})

Unknown == Command(NoFiles, FALSE, {127})

Blank == Command(NoFiles, FALSE, {})

Builds == Command([p \in {calc} |-> bad], FALSE, {0})

Commits == Command(NoFiles, TRUE, {0})

Task(changes, patch, commands) ==
  [changes |-> changes, patch |-> patch, applies |-> TRUE, escapes |-> FALSE,
   commands |-> commands, required |-> {calc}, forbidden |-> [p \in {calc} |-> bad],
   patterns |-> NoFiles, rollback |-> "executable", rollbackRequired |-> TRUE]

Modified == [p \in {calc} |-> good]

Added == [p \in {extra} |-> good]

Same == [p \in {calc} |-> was]

(* A contract that may be kept, one that a command breaks, one that changes*)
(* nothing, one with a commit of its own, and what goes wrong.             *)
TheTasks ==
  {Task(Modified, NoFiles, <<Tests>>),
   [Task(Modified, Added, <<Tests, Tests>>) EXCEPT !.patterns = Added],
   Task(Modified, NoFiles, <<Tests, Builds>>),
   Task(Modified, NoFiles, <<Tests, Commits, Tests>>),
   Task(Modified, NoFiles, <<Builds, Blank, Tests>>),
   Task(Same, NoFiles, << >>),
   Task(Same, NoFiles, <<Tests, Hangs, Tests>>),
   Task(Modified, NoFiles, <<Unknown>>),
   Task(NoFiles, NoFiles, << >>),
   [Task(Modified, NoFiles, << >>) EXCEPT !.rollback = "missing"],
   [Task(Modified, NoFiles, << >>) EXCEPT !.rollback = "none"],
   [Task(Modified, NoFiles, << >>) EXCEPT !.escapes = TRUE],
   [Task(Modified, Added, << >>) EXCEPT !.applies = FALSE]}

-----------------------------------------------------------------------------
(* The reproductions.                                                      *)

Reproductions ==
  INSTANCE Reproduction WITH
    Run <- {r1, r2}, Evaluators <- <<e1, e2>>, Keys <- {e1, e2},
    Pids <- {pid1}, Predictions <- {"right"}, Metrics <- [right |-> "good"], Secrets <- {key},
    EvaluatorQuorum <- 2, results <- predicted

ASSUME ConstantsAssumption ==
  /\ ReceiptsConstantsAreRight /\ DeliveryConstantsAreRight
  /\ Reproductions!ReproductionConstantsAreRight

-----------------------------------------------------------------------------

KernelRests == Init

(* Either digest may come first: one of them is enough.                    *)
BundleRests == BundleInit /\ sources = old

ReceiptsRest == ReceiptsInit

DeliveryRests ==
  /\ DeliveryInit
  /\ source.git /\ source.head = CHOOSE t \in Trees : TRUE
  /\ task = CHOOSE t \in Tasks : TRUE

ReproductionRests == Reproductions!ReproductionInit

reproductionVars == <<step, secret, amended, predicted, files, manifest, stored, gate, latest>>

ArtifactsInit ==
  \/ /\ running \in {"kernel", "bundle", "receipts", "reproduction"}
     /\ KernelRests /\ BundleRests /\ ReceiptsRest /\ DeliveryRests /\ ReproductionRests
  \/ /\ running = "delivery"
     /\ KernelRests /\ BundleRests /\ ReceiptsRest /\ DeliveryInit /\ ReproductionRests

KernelStep ==
  running = "kernel" /\ Next
    /\ UNCHANGED <<running, bundleVars, receiptsVars, deliveryVars, reproductionVars>>

(* Bounds: the bundle file is edited between two commands, which read it at*)
(* once or not at all; the kernel's files change once while one runs.      *)
BundleBound ==
  /\ edits' # edits => process = Idle
  /\ sources' # sources => ~process.replaced

BundleStep ==
  running = "bundle" /\ BundleNext /\ BundleBound
    /\ UNCHANGED <<running, vars, receiptsVars, deliveryVars, reproductionVars>>

(* Bounds: the runners are registered before the first receipt, and no two *)
(* of them are inactive then; one of two receipts is altered, but none of  *)
(* three; receipt_ids are interchangeable.                                 *)
ReceiptsBound ==
  LET ids == {e.id : e \in receipts'}
  IN  /\ ids # {} => runners' = Runner /\ Cardinality(runners' \ active') <= 1
      /\ q2 \in ids => q1 \in ids
      /\ q3 \in ids => q2 \in ids /\ alterations' = 0

ReceiptsStep ==
  running = "receipts" /\ ReceiptsNext /\ ReceiptsBound
    /\ UNCHANGED <<running, vars, bundleVars, deliveryVars, reproductionVars>>

DeliveryStep ==
  running = "delivery" /\ DeliveryNext
    /\ UNCHANGED <<running, vars, bundleVars, receiptsVars, reproductionVars>>

ReproductionStep ==
  running = "reproduction" /\ Reproductions!ReproductionNext
    /\ UNCHANGED <<running, vars, bundleVars, receiptsVars, deliveryVars>>

ArtifactsNext == KernelStep \/ BundleStep \/ ReceiptsStep \/ DeliveryStep \/ ReproductionStep

artifactsVars == <<running, vars, bundleVars, receiptsVars, deliveryVars, reproductionVars>>

(* The fairness of GitDelivery and of Reproduction.                        *)
ArtifactsSpec ==
  /\ ArtifactsInit /\ [][ArtifactsNext]_artifactsVars
  /\ WF_deliveryVars(running = "delivery" /\ Step)
  /\ \A r \in {r1, r2} :
       WF_reproductionVars(running = "reproduction" /\ step[r] # "new" /\ Reproductions!Step(r))

-----------------------------------------------------------------------------

(* Every delivery ends, and every reproduction that was started.           *)
EverythingEnds ==
  /\ running = "delivery" ~> pc \in Ended
  /\ Reproductions!EveryReproductionEnds

=============================================================================
