------------------------------- MODULE Pipeline -------------------------------
(***************************************************************************)
(* One call of Pipeline.run (core/pipeline.py): the stages from intake to  *)
(* release with the adapter calls in between, the policy engine, the       *)
(* resource guard, the obligation graph the stages build, the two          *)
(* exception handlers, and the persistence of the outcome as five writes,  *)
(* each of which may fail, with a crash possible between and during them.  *)
(*                                                                         *)
(* A run is sequential.  An action is the code from one call that can fail *)
(* or answer freely (an adapter, a file, the control store) to the next.   *)
(* The adapters are external: their results are the constants below.       *)
(* A statement is abstracted to whether it is blank, which add_node        *)
(* refuses; outputs and logs to the one question each check asks of them.  *)
(***************************************************************************)
EXTENDS ObligationGraphOps, Claims, SequencesExt

CONSTANTS
  Tasks,         \* the tasks a run may be started with
  Constructs,    \* what adapter.construct may return
  Executes,      \* what adapter.execute may return
  Verifies,      \* what adapter.verify may return
  ReleaseLimit   \* max_unresolved_obligations_for_release

Modes == {"FORMAL_PROOF", "SOFTWARE_ENGINEERING", "EXPERIMENTAL_RESEARCH",
          "POLICY_AND_COMPLIANCE", "DATA_ANALYSIS"}

Statements == Seq({"stated", "blank"})

Check == [kind: ObligationKinds, severity: Severities, blocking: BOOLEAN,
          statement: {"stated", "blank"}, success: BOOLEAN]

ASSUME InputsAssumption ==
  /\ Tasks \subseteq [assumptions: Nat, successConditions: Nat, prohibitedShortcuts: Nat,
                      initialObligations: Seq(Node), modes: SUBSET Modes,
                      adapterAvailable: BOOLEAN, approved: BOOLEAN, unsafe: BOOLEAN]
  /\ Constructs \subseteq [success: BOOLEAN, obligations: Statements]
  /\ Executes \subseteq [success: BOOLEAN, obligations: Statements,
                         evidence: Nat, checks: Seq(Check)]
  /\ Verifies \subseteq [success: BOOLEAN, obligations: Statements, evidence: Seq(STRING)]
  /\ ReleaseLimit \in Nat

VARIABLES
  task,        \* the task; never changes
  graph,       \* the obligation graph of the run
  status,      \* record.status
  events,      \* record.events, as stages; the audit chain holds the same
  unresolved,  \* Len(record.unresolved_obligations)
  claim,       \* the evidence of record.claims[0], as a sequence of kinds
  contract,    \* the ids of the specification and of the execution contract
  pc,          \* where run() is
  final,       \* is the persist under way the one outside the try block?
  disk,        \* what each of the artifact's files holds, {} when not whole
  index,       \* the artifact's row in the control store, {} when absent
  hasStore     \* was the pipeline given a control store?  never changes

input  == <<task, hasStore>>
record == <<status, events, unresolved, claim>>
stored == <<disk, index>>
vars   == <<task, graph, status, events, unresolved, claim, contract, pc, final,
            disk, index, hasStore>>

Final == {"RELEASED", "PARTIAL", "REJECTED", "REFUTED", "UNKNOWN"}

(* The state machine of core/state_machine.py.                             *)
Ladder == << "INTAKE", "INTENT_COMPILED", "ASSUMPTIONS_EXPOSED", "TARGET_FORMALIZED",
             "CANDIDATES_GENERATED", "FALSIFICATION", "OBSTRUCTION_CLASSIFIED",
             "STRATEGY_ROUTED", "ARTIFACT_CONSTRUCTED", "EXECUTED", "VERIFIED",
             "POLICY_REVIEWED", "SAFETY_REVIEWED", "ADVERSARIAL_REVIEWED",
             "CERTIFIED", "CURATED", "RELEASED" >>

(* Fault: the table forgets that a reviewed artifact may end PARTIAL.      *)
ALLOWEDWithoutPartial(current) ==
  {Ladder[i + 1] : i \in {j \in 1..Len(Ladder) - 1 : Ladder[j] = current}}
  \cup (IF current \in {Ladder[i] : i \in (1..5) \cup (8..14)} THEN {"REJECTED"} ELSE {})

ALLOWED(current) ==
  {Ladder[i + 1] : i \in {j \in 1..Len(Ladder) - 1 : Ladder[j] = current}}
  \cup (IF current \in {Ladder[i] : i \in (1..5) \cup (8..14)} THEN {"REJECTED"} ELSE {})
  \cup (IF current \in {Ladder[i] : i \in 8..14} THEN {"PARTIAL"} ELSE {})
  \cup (IF current = "FALSIFICATION" THEN {"REFUTED"} ELSE {})
  \cup (IF current = "OBSTRUCTION_CLASSIFIED" THEN {"UNKNOWN"} ELSE {})

Files == {"graph", "artifact", "audit", "bundle"}

Init ==
  /\ task \in Tasks /\ hasStore \in BOOLEAN
  /\ graph = Settle(FromTask(task))
  /\ status = "INTAKE" /\ events = << >> /\ unresolved = 0 /\ claim = << >>
  /\ contract = << >>
  /\ pc = "preflight" /\ final = FALSE
  /\ disk = [file \in Files |-> {}] /\ index = {}

-----------------------------------------------------------------------------
(* What the stages do to the graph.                                        *)

Latest(g) == Len(g.nodes)

Duty(kind, severity) == TaskNode(kind, "OPEN", severity, TRUE, "pipeline")

(* A duty, one piece of evidence, and the verdict that evidence carries.   *)
Gate(g, kind, severity, passed) ==
  LET seen == AddEvidence(AddNode(g, Duty(kind, severity)))
      duty == Latest(seen) - 1
  IN  IF passed THEN Discharge(seen, duty, << Latest(seen) >>).graph
      ELSE Refute(seen, duty, << Latest(seen) >>).graph

(* Fault: the obligation is deferred and the reason is not passed on.      *)
AddRuntimeObligationUnexplained(severity, result, statement) ==
  IF ~result.ok THEN result
  ELSE IF statement = "blank" THEN Raised(result.graph)
  ELSE LET added == AddNode(result.graph,
                            TaskNode("REQUIREMENT", "OPEN", severity, TRUE, "runtime"))
       IN  Defer(added, Latest(added), "none")

(* _add_runtime_obligations with a defer_reason.                           *)
AddRuntimeObligation(severity, result, statement) ==
  IF ~result.ok THEN result
  ELSE IF statement = "blank" THEN Raised(result.graph)
  ELSE LET added == AddNode(result.graph,
                            TaskNode("REQUIREMENT", "OPEN", severity, TRUE, "runtime"))
       IN  Defer(added, Latest(added), "reason")

AddRuntimeObligations(g, statements, severity) ==
  FoldLeft(LAMBDA result, statement : AddRuntimeObligation(severity, result, statement),
           Ok(g), statements)

(* _apply_obligation_results, one result.                                  *)
ApplyCheck(result, check) ==
  LET g == result.graph
      node == TaskNode(check.kind, "OPEN", check.severity, check.blocking, "runtime")
      seen == AddEvidence(AddNode(g, node))
      duty == Latest(g) + 1
      refuted == Refute(seen, duty, << duty + 1 >>).graph
  IN  IF ~result.ok THEN result
      ELSE IF check.statement = "blank" THEN Raised(g)
      ELSE IF check.success THEN Discharge(seen, duty, << duty + 1 >>)
      ELSE Defer(AddNode(refuted, [node EXCEPT !.blocking = TRUE]),
                 Latest(refuted) + 1, "reason+retry")

ApplyObligationResults(g, checks) == FoldLeft(ApplyCheck, Ok(g), checks)

AddEvidences(g, count) ==
  FoldLeft(LAMBDA h, i : AddEvidence(h), g, [i \in 1..count |-> i])

NewIds(g, h) == [i \in 1..(Latest(h) - Latest(g)) |-> Latest(g) + i]

(* Discharge each node of a set with the same evidence.                    *)
DischargeAll(g, duties, evidence) ==
  FoldLeft(LAMBDA h, n : Discharge(h, n, evidence).graph, g, SetToSeq(duties))

-----------------------------------------------------------------------------
(* How a stage ends.                                                       *)

Reach(stages) == /\ status' = stages[Len(stages)]
                 /\ events' = events \o stages

Proceed(next, g, stages) ==
  /\ pc' = next /\ graph' = Settle(g) /\ Reach(stages)
  /\ UNCHANGED <<input, final, stored>>

(* Faults: the handler overwrites a verdict; it invents a status.          *)
UnhandledOverwriting(g, more) ==
  LET added == AddNode(g, TaskNode("UNKNOWN", "OPEN", "CRITICAL", TRUE, "runtime"))
  IN  /\ graph' = Settle(Escalate(added, Latest(added), "reason").graph)
      /\ unresolved' = unresolved + more + 1
      /\ Reach(<<"UNKNOWN">>)
      /\ pc' = "graph" /\ final' = TRUE
      /\ UNCHANGED input

UnhandledFailed(g, more) ==
  /\ graph' = g /\ unresolved' = unresolved + more + 1
  /\ Reach(<<"FAILED">>)
  /\ pc' = "graph" /\ final' = TRUE
  /\ UNCHANGED input

(* The except Exception clause.  A verdict that has been reached stays.    *)
Unhandled(g, more) ==
  LET added == AddNode(g, TaskNode("UNKNOWN", "OPEN", "CRITICAL", TRUE, "runtime"))
  IN  /\ graph' = Settle(Escalate(added, Latest(added), "reason").graph)
      /\ unresolved' = unresolved + more + 1
      /\ IF status \in Final THEN UNCHANGED <<status, events>> ELSE Reach(<<"UNKNOWN">>)
      /\ pc' = "graph" /\ final' = TRUE
      /\ UNCHANGED input

(* An early return: the statements become deferred obligations, the status *)
(* becomes final, and the outcome is persisted from inside the try block.  *)
Stop(g, statements, severity, more, verdict, stages) ==
  LET noted == AddRuntimeObligations(g, statements, severity)
  IN  \/ /\ noted.ok
         /\ graph' = Settle(noted.graph)
         /\ unresolved' = unresolved + more
         /\ Reach(Append(stages, verdict))
         /\ pc' = "graph"
         /\ UNCHANGED <<input, final, stored>>
      \/ ~noted.ok /\ Unhandled(noted.graph, more) /\ UNCHANGED stored

(* The except BudgetExceeded clause, after the stages reached so far.      *)
OverBudget(g, stages) ==
  LET added == AddNode(g, TaskNode("RESOURCE", "OPEN", "HIGH", TRUE, "runtime"))
  IN  /\ graph' = Settle(Defer(added, Latest(added), "reason+retry").graph)
      /\ unresolved' = unresolved + 1
      /\ Reach(Append(stages, "PARTIAL"))
      /\ pc' = "graph" /\ final' = TRUE
      /\ UNCHANGED <<input, stored>>

Stated(count) == [i \in 1..count |-> "stated"]

-----------------------------------------------------------------------------
(* The stages.                                                             *)

PreflightReasons ==
  (IF task.adapterAvailable THEN 0 ELSE 1) + (IF task.approved THEN 0 ELSE 2)

PreflightDenied ==
  /\ pc = "preflight" /\ PreflightReasons > 0
  /\ Reach(<<"INTENT_COMPILED", "ASSUMPTIONS_EXPOSED", "POLICY_PREFLIGHT", "REJECTED">>)
  /\ graph' = Settle(AddRuntimeObligations(Gate(graph, "POLICY", "HIGH", FALSE),
                                           Stated(PreflightReasons), "HIGH").graph)
  /\ unresolved' = unresolved + PreflightReasons
  /\ pc' = "graph"
  /\ UNCHANGED <<input, claim, contract, final, stored>>

PreflightAllowed ==
  LET allowed  == Gate(graph, "POLICY", "HIGH", TRUE)
      spec     == Latest(allowed) + 1
      planned  == AddNode(allowed, TaskNode("SPECIFICATION", "ACKNOWLEDGED", "HIGH",
                                            FALSE, "runtime"))
      refined  == AddEdge(planned, spec, 1, "REFINES").graph
      promised == AddNode(refined, Duty("REQUIREMENT", "HIGH"))
  IN  /\ pc = "preflight" /\ PreflightReasons = 0
      /\ contract' = <<spec, spec + 1>>
      /\ Proceed("construct", AddEdge(promised, spec + 1, spec, "DEPENDS_ON").graph,
                 <<"INTENT_COMPILED", "ASSUMPTIONS_EXPOSED", "POLICY_PREFLIGHT">>
                 \o SubSeq(Ladder, 4, 8))
      /\ UNCHANGED <<unresolved, claim>>

Construct ==
  /\ pc = "construct"
  /\ \E x \in Constructs :
       LET seen == AddEvidence(graph)
           supported == AddEdge(seen, Latest(seen), contract[1], "SUPPORTS").graph
       IN  \/ ~x.success /\ Stop(graph, x.obligations, "HIGH", Len(x.obligations),
                                 "REJECTED", << >>)
           \/ /\ x.success
              /\ Proceed("execute", supported, <<"ARTIFACT_CONSTRUCTED">>)
              /\ UNCHANGED unresolved
           \/ x.success /\ OverBudget(supported, <<"ARTIFACT_CONSTRUCTED">>)
  /\ UNCHANGED <<claim, contract>>

(* Success conditions are found by kind and source, whoever added them.    *)
SuccessConditions(g) ==
  {n \in Find(g, "REQUIREMENT") : g.nodes[n].source = "task.success_conditions"}

Confirmed(g, evidence) ==
  LET shown == IF evidence = << >> THEN AddEvidence(g) ELSE g
      ids   == IF evidence = << >> THEN << Latest(shown) >> ELSE evidence
  IN  DischargeAll(Discharge(shown, contract[2], ids).graph, SuccessConditions(shown), ids)

Execute ==
  /\ pc = "execute"
  /\ \E x \in Executes :
       LET seen    == AddEvidences(graph, x.evidence)
           checked == ApplyObligationResults(seen, x.checks)
           done    == Confirmed(checked.graph, NewIds(graph, seen))
       IN  \/ ~checked.ok /\ Unhandled(checked.graph, 0) /\ UNCHANGED stored
           \/ checked.ok /\ ~x.success
              /\ Stop(checked.graph, x.obligations, "HIGH", Len(x.obligations), "PARTIAL", << >>)
           \/ /\ checked.ok /\ x.success
              /\ Proceed("verify", done, <<"EXECUTED">>)
              /\ UNCHANGED unresolved
           \/ checked.ok /\ x.success /\ OverBudget(done, <<"EXECUTED">>)
  /\ UNCHANGED <<claim, contract>>

OpenProofs(g) == {n \in Find(g, "PROOF") : g.nodes[n].status = "OPEN"}

Verify ==
  /\ pc = "verify"
  /\ \E v \in Verifies :
       LET claimed  == AddNode(graph, Duty("CLAIM", "HIGH"))
           seen     == AddEvidences(claimed, Len(v.evidence))
           ids      == NewIds(claimed, seen)
           backed   == Discharge(seen, Latest(claimed), ids).graph
           proved   == IF StrongestStatus(v.evidence) = "KERNEL_VERIFIED"
                       THEN DischargeAll(backed, OpenProofs(backed), ids) ELSE backed
           accepted == v.success /\ v.evidence # << >>
           reasons  == IF v.obligations = << >> THEN <<"stated">> ELSE v.obligations
       IN  /\ claim' = v.evidence
           /\ \/ ~accepted /\ Stop(seen, reasons, "HIGH", Len(reasons), "PARTIAL", << >>)
              \/ /\ accepted
                 /\ Proceed("release", proved, <<"VERIFIED">>)
                 /\ unresolved' = unresolved + Len(v.obligations)
  /\ UNCHANGED contract

(* An adapter call raises.                                                 *)
AdapterRaises ==
  /\ pc \in {"construct", "execute", "verify"}
  /\ Unhandled(graph, 0)
  /\ UNCHANGED <<claim, contract, stored>>

(* Does the output hold a denied pattern?  Asked of formal proofs only.    *)
ReleaseReasons(denied) ==
  (IF unresolved > ReleaseLimit THEN 1 ELSE 0)
  + (IF denied /\ "FORMAL_PROOF" \in task.modes THEN 1 ELSE 0)
  + (IF BelowMinimum(task.modes, claim) THEN 1 ELSE 0)

(* Fault: the release decision leaves no duty behind.                      *)
ReleasePolicyUnrecorded ==
  /\ pc = "release"
  /\ ReleaseReasons(FALSE) = 0
  /\ Proceed("safety", graph, <<"POLICY_RELEASE", "POLICY_REVIEWED">>)
  /\ UNCHANGED <<unresolved, claim, contract>>

ReleasePolicy ==
  /\ pc = "release"
  /\ \E denied \in BOOLEAN :
       LET reasons == ReleaseReasons(denied)
       IN  \/ /\ reasons > 0
              /\ Stop(Gate(graph, "POLICY", "HIGH", FALSE), Stated(reasons), "HIGH", reasons,
                      "REJECTED", <<"POLICY_RELEASE">>)
           \/ /\ reasons = 0
              /\ Proceed("safety", Gate(graph, "POLICY", "HIGH", TRUE),
                         <<"POLICY_RELEASE", "POLICY_REVIEWED">>)
              /\ UNCHANGED unresolved
  /\ UNCHANGED <<claim, contract>>

SafetyReview ==
  /\ pc = "safety"
  /\ \/ task.unsafe /\ Stop(Gate(graph, "SAFETY", "CRITICAL", FALSE), <<"stated">>,
                            "CRITICAL", 1, "REJECTED", << >>)
     \/ /\ ~task.unsafe
        /\ Proceed("review", Gate(graph, "SAFETY", "CRITICAL", TRUE), <<"SAFETY_REVIEWED">>)
        /\ UNCHANGED unresolved
  /\ UNCHANGED <<claim, contract>>

OpenIntents(g) == {n \in Find(g, "INTENT") : g.nodes[n].status = "OPEN"}

(* The output may hold a shortcut that the task prohibits.                 *)
AdversarialReview ==
  LET seen == AddEvidence(graph)
  IN  /\ pc = "review"
      /\ \/ /\ task.prohibitedShortcuts > 0
            /\ Stop(graph, <<"stated">>, "HIGH", 1, "REJECTED", << >>)
         \/ /\ Proceed("promote", DischargeAll(seen, OpenIntents(seen), << Latest(seen) >>),
                       <<"ADVERSARIAL_REVIEWED">>)
            /\ UNCHANGED unresolved
      /\ UNCHANGED <<claim, contract>>

(* How many entries a refused promotion adds to the record.                *)
PromotionReasons(g) ==
  Cardinality(Blockers(g)) + (IF VerifyConservation(g) THEN 0 ELSE 1)

(* Faults: the gate is not asked; the gate is asked for blockers only.     *)
PromoteIf(allowed, kept) ==
  /\ pc = "promote" /\ allowed
  /\ graph' = Settle(Checkpoint(kept, "artifact_released"))
  /\ Reach(<<"OBLIGATION_PROMOTION_GATE", "CERTIFIED", "CURATED", "RELEASED">>)
  /\ final' = TRUE /\ pc' = "graph"
  /\ UNCHANGED <<input, claim, contract, unresolved, stored>>

PromoteAnyway == PromoteIf(TRUE, Gate(graph, "PROVENANCE", "HIGH", TRUE))

PromoteUnblocked ==
  PromoteIf(Blockers(graph) = {}, Gate(graph, "PROVENANCE", "HIGH", TRUE))

Promote ==
  LET kept == Gate(graph, "PROVENANCE", "HIGH", TRUE)
  IN  /\ pc = "promote"
      /\ \/ /\ PromotionAllowed(kept, "RELEASED")
            /\ graph' = Settle(Checkpoint(kept, "artifact_released"))
            /\ Reach(<<"OBLIGATION_PROMOTION_GATE", "CERTIFIED", "CURATED", "RELEASED">>)
            /\ final' = TRUE
            /\ UNCHANGED unresolved
         \/ /\ ~PromotionAllowed(kept, "RELEASED")
            /\ graph' = Settle(kept)
            /\ Reach(<<"OBLIGATION_PROMOTION_GATE", "PARTIAL">>)
            /\ unresolved' = unresolved + PromotionReasons(kept)
            /\ UNCHANGED final
      /\ pc' = "graph"
      /\ UNCHANGED <<input, claim, contract, stored>>

-----------------------------------------------------------------------------
(* _persist.  A file holds what the record said when it was written; the   *)
(* bundle holds what the other three files held when it was built.         *)

Snapshot == [status |-> status, unresolved |-> unresolved, events |-> Len(events)]

Writing(file) == pc = file

(* The graph is written after the router has added its checkpoint, the     *)
(* artifact and the audit chain after the graph.                           *)
WriteGraph ==
  /\ Writing("graph")
  /\ disk' = [disk EXCEPT !["graph"] = {Snapshot}]
  /\ graph' = IF ActiveIds(graph) = {} THEN graph
              ELSE Settle(Checkpoint(graph, "obligation_routes_recommended"))
  /\ pc' = "artifact"
  /\ UNCHANGED <<input, record, contract, final, index>>

WriteArtifact ==
  /\ Writing("artifact")
  /\ disk' = [disk EXCEPT !["artifact"] = {Snapshot}]
  /\ pc' = "audit"
  /\ UNCHANGED <<input, graph, record, contract, final, index>>

(* Fault: a chain that exists already is not written again.                *)
WriteAuditOnce ==
  /\ Writing("audit")
  /\ disk' = IF disk["audit"] = {} THEN [disk EXCEPT !["audit"] = {Snapshot}] ELSE disk
  /\ pc' = "bundle"
  /\ UNCHANGED <<input, graph, record, contract, final, index>>

WriteAudit ==
  /\ Writing("audit")
  /\ disk' = [disk EXCEPT !["audit"] = {Snapshot}]
  /\ pc' = "bundle"
  /\ UNCHANGED <<input, graph, record, contract, final, index>>

WriteBundle ==
  /\ Writing("bundle")
  /\ disk' = [disk EXCEPT !["bundle"] = {<<disk["graph"], disk["artifact"], disk["audit"]>>}]
  /\ pc' = IF hasStore THEN "index" ELSE "returned"
  /\ UNCHANGED <<input, graph, record, contract, final, index>>

IndexArtifact ==
  /\ Writing("index")
  /\ index' = {Snapshot}
  /\ pc' = "returned"
  /\ UNCHANGED <<input, graph, record, contract, final, disk>>

(* A write that fails leaves the file as it was or cut short; the row of   *)
(* the control store is written in one transaction.                        *)
Cut == \/ UNCHANGED disk
       \/ pc # "index" /\ disk' = [disk EXCEPT ![pc] = {}]

(* A failure to persist an early return is an unhandled exception, after   *)
(* which run() persists again; it then leaves run().                       *)
Persisting == pc \in Files \cup {"index"}

(* Faults: persisting is retried until it succeeds; the failure of the     *)
(* last persist is turned into a verdict.                                  *)
PersistFailsRetrying ==
  /\ Persisting /\ Cut
  /\ pc' = "graph"
  /\ UNCHANGED <<input, graph, record, contract, final, index>>

PersistFailsDemoting ==
  /\ Persisting /\ Cut
  /\ pc' = "raised" /\ status' = "UNKNOWN" /\ events' = Append(events, "UNKNOWN")
  /\ UNCHANGED <<input, graph, unresolved, claim, contract, final, index>>

PersistFails ==
  /\ Persisting /\ Cut
  /\ \/ final /\ pc' = "raised" /\ UNCHANGED <<input, graph, record, final>>
     \/ ~final /\ Unhandled(graph, 0) /\ UNCHANGED claim
  /\ UNCHANGED <<contract, index>>

(* The process dies.                                                       *)
Crash ==
  /\ pc \notin {"returned", "raised", "crashed"}
  /\ pc' = "crashed"
  /\ \/ UNCHANGED disk
     \/ Persisting /\ Cut
  /\ UNCHANGED <<input, graph, record, contract, final, index>>

Ended == pc \in {"returned", "raised", "crashed"}

Run ==
  \/ PreflightDenied \/ PreflightAllowed \/ Construct \/ Execute \/ Verify
  \/ AdapterRaises \/ ReleasePolicy \/ SafetyReview \/ AdversarialReview \/ Promote
  \/ WriteGraph \/ WriteArtifact \/ WriteAudit \/ WriteBundle \/ IndexArtifact
  \/ PersistFails

Next == Run \/ Crash

(* One thread executes the run, and an adapter call returns or raises: the *)
(* adapters of the repository bound their subprocesses with a timeout.     *)
(* This is WF_vars(Run), with ENABLED <<Run>>_vars written out as ~Ended.  *)
Fairness == []<>Ended \/ []<><<Run>>_vars

Spec == Init /\ [][Next]_vars /\ Fairness

-----------------------------------------------------------------------------

RunStatuses == {Ladder[i] : i \in 1..Len(Ladder)} \cup Final

(* What a run records: statuses, and three stages that are none.           *)
StageNames ==
  RunStatuses \cup {"POLICY_PREFLIGHT", "POLICY_RELEASE", "OBLIGATION_PROMOTION_GATE"}

Snapshots == [status: RunStatuses, unresolved: Nat, events: Nat]

(* Every variable has its type.                                            *)
TypeOK ==
  /\ task \in Tasks /\ graph \in Graph
  /\ status \in RunStatuses /\ unresolved \in Nat /\ events \in Seq(StageNames)
  /\ pc \in {"preflight", "construct", "execute", "verify", "release", "safety",
            "review", "promote", "index", "returned", "raised", "crashed"} \cup Files
  /\ final \in BOOLEAN /\ hasStore \in BOOLEAN
  /\ \A file \in Files \ {"bundle"} : disk[file] \subseteq Snapshots
  /\ index \subseteq Snapshots

Released == status = "RELEASED"

(* The verdict and the graph agree.  A release leaves a graph that the     *)
(* gate would release again, and an artifact withheld for any reason, at   *)
(* any stage and by either handler, leaves a graph that it would refuse:   *)
(* the graph that is persisted never contradicts the record.               *)
VerdictMatchesGraph ==
  status \in Final => (Released <=> PromotionAllowed(graph, "RELEASED"))

(* What released an artifact is on record: the six duties that the         *)
(* pipeline itself imposes exist, and each is discharged with evidence.    *)
(* A task may name any source for the obligations it declares.             *)
Imposed == {n \in NodeIds(graph) \ DeclaredIds(task) : graph.nodes[n].source = "pipeline"}

ReleaseIsEarned ==
  Released =>
    /\ Cardinality(Imposed) = 6
    /\ \A n \in Imposed : graph.nodes[n].status = "DISCHARGED" /\ EvidenceFor(graph, n) # {}

(* transition() never raises: every status follows the one before it by    *)
(* the table, but for the UNKNOWN that the exception handler assigns.      *)
(* Between two statuses there are only stages that are none.               *)
Follow(stages, i, j) ==
  /\ i < j /\ {stages[i], stages[j]} \subseteq RunStatuses
  /\ \A k \in i + 1..j - 1 : stages[k] \notin RunStatuses

AllowedIn(stages) ==
  \A i, j \in 1..Len(stages) :
    Follow(stages, i, j) => stages[j] = "UNKNOWN" \/ stages[j] \in ALLOWED(stages[i])

TransitionsAllowed == AllowedIn(<<"INTAKE">> \o events)

(* No stage of a run loses an obligation: at every step the graph is       *)
(* conserved, the task's own declarations aside.                           *)
GraphConserved == Conserved(graph, DeclaredIds(task))

(* What a run records of its graph is so, at every step.                   *)
RecordMatchesGraph == TypeOK /\ VerdictMatchesGraph /\ ReleaseIsEarned /\ GraphConserved

(* What other processes see is whole.  A row in the control store says     *)
(* what the record says, and the four files it points to are complete, of  *)
(* the same record, and match the digests in the bundle; a run that        *)
(* returned has left all of that behind.                                   *)
WholeOnDisk ==
  /\ \A file \in Files \ {"bundle"} : disk[file] = {Snapshot}
  /\ disk["bundle"] = {<<disk["graph"], disk["artifact"], disk["audit"]>>}

PublishedIsWhole ==
  /\ index # {} => index = {Snapshot} /\ WholeOnDisk
  /\ pc = "returned" => WholeOnDisk /\ (hasStore => index # {})

(* A verdict is final: not even a failure to persist it changes it.        *)
VerdictFinal == [][(status \in Final) => (status' = status /\ events' = events)]_vars

(* A run comes to an end.  The failed persist of an early return is        *)
(* repeated once, in the handler's way, and not again.                     *)
EveryRunEnds == <>Ended

(* README.md, Initial obligations: "Initial blocking obligations must be   *)
(* explicitly discharged by an integration or left visible; they are never *)
(* auto-cleared."  No adapter result names an initial obligation.          *)
InitialNeverAutoCleared ==
  [][\A n \in DeclaredIds(task) : graph'.nodes[n].status = graph.nodes[n].status]_vars

(* docs/OBLIGATION_GRAPH.md, Statuses: "DEFERRED requires a reason and     *)
(* retry conditions."                                                      *)
DeferralsNameRetryConditions ==
  \A n \in NodeIds(graph) :
    n \in DeclaredIds(task) \/ graph.nodes[n].status # "DEFERRED"
    \/ graph.nodes[n].why = "reason+retry"

(* What a run implements: RunOutcome.                                      *)
Outcome(s) == IF s = "RELEASED" THEN "released" ELSE "withheld"

Decided == IF status \in Final THEN Outcome(status) ELSE "undecided"

Published == IF index = {} THEN "none" ELSE Outcome((CHOOSE s \in index : TRUE).status)

Promise == INSTANCE RunOutcome WITH None <- "none", outcome <- Decided, published <- Published

ImplementsOutcome == Promise!Spec
=============================================================================
