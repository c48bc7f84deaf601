-------------------------- MODULE ObligationGraphOps --------------------------
(***************************************************************************)
(* The obligation graph of core/obligation_graph.py as a value, and its    *)
(* operations as operators from a graph to a result.  ObligationGraph      *)
(* drives them in every order; Pipeline calls them stage by stage.         *)
(*                                                                         *)
(* A node id (a fresh uuid4 in the code) is the node's position in         *)
(* `nodes', which is also the insertion order of the code's dict.  The     *)
(* statement and the free metadata of a node are left out; what the        *)
(* conservation check reads of the metadata is the field `why' (below).    *)
(* Parallel edges that differ in their edge_id only are one edge.          *)
(***************************************************************************)
EXTENDS Integers, Sequences, FiniteSets

ObligationKinds ==
  {"INTENT", "SPECIFICATION", "REQUIREMENT", "ASSUMPTION", "CLAIM", "TEST",
   "PROOF", "SAFETY", "POLICY", "RESOURCE", "RISK", "PROVENANCE", "EVIDENCE",
   "UNKNOWN"}

ObligationStatuses ==
  {"OPEN", "ACKNOWLEDGED", "DISCHARGED", "DEFERRED", "REFUTED", "ESCALATED",
   "TRANSFERRED"}

Severities == {"INFO", "LOW", "MEDIUM", "HIGH", "CRITICAL"}

Relations ==
  {"DEPENDS_ON", "DISCHARGES", "INTRODUCES", "REFINES", "DECOMPOSES",
   "TRANSFERS", "VERIFIES", "CONTRADICTS", "BLOCKS", "SUPPORTS"}

(* The explanation the metadata holds for the CURRENT status: none, a      *)
(* reason, or a reason with retry conditions.  Every operation that sets   *)
(* DEFERRED or ESCALATED rewrites the keys the check reads for them.       *)
Explanations == {"none", "reason", "reason+retry"}

(* Where a node comes from: the task, a duty of the pipeline itself, what  *)
(* any other caller adds, or a transformation.                             *)
Sources == {"task", "task.success_conditions", "pipeline", "runtime", "shape_transform"}

Node == [kind: ObligationKinds, status: ObligationStatuses,
         severity: Severities, blocking: BOOLEAN, source: Sources,
         why: Explanations]

(* What a node is: all but its status and the explanation of that.         *)
Identity(node) == <<node.kind, node.severity, node.blocking, node.source>>

Edge(s, t, r) == [source |-> s, target |-> t, relation |-> r]

(* `recent' is the tail of the code's event list: the events recorded by   *)
(* the latest operations, since the last Settle.  `mentioned' is every id  *)
(* that any event of the whole list names, which is all that the check of  *)
(* the history reads.                                                      *)
Operations ==
  {"CREATE_OBLIGATION", "ADD_EVIDENCE", "ADD_RELATION", "DISCHARGE_OBLIGATION",
   "REFUTE_OBLIGATION", "DEFER_OBLIGATION", "ESCALATE_OBLIGATION",
   "TRANSFER_OBLIGATION", "task_initialized", "obligation_routes_recommended",
   "artifact_released"}

Event == [operation: Operations, affected: SUBSET Nat, before: SUBSET Nat, after: SUBSET Nat]

Graph == [nodes: Seq(Node), edges: SUBSET [source: Nat, target: Nat, relation: Relations],
          recent: Seq(Event), mentioned: SUBSET Nat]

Settle(g) == [g EXCEPT !.recent = << >>]

NodeIds(g) == 1..Len(g.nodes)

Find(g, kind) == {n \in NodeIds(g) : g.nodes[n].kind = kind}

IsEvidence(g, n) == n \in NodeIds(g) /\ g.nodes[n].kind = "EVIDENCE"

Unresolved == {"OPEN", "DEFERRED", "ESCALATED"}

ActiveIds(g) ==
  {n \in NodeIds(g) : g.nodes[n].kind # "EVIDENCE" /\ g.nodes[n].status \in Unresolved}

Record(g, operation, affected, before) ==
  LET event == [operation |-> operation, affected |-> affected,
                before |-> before, after |-> ActiveIds(g)]
  IN  [g EXCEPT !.recent = Append(@, event),
                !.mentioned = @ \cup affected \cup before \cup ActiveIds(g)]

Checkpoint(g, operation) == Record(g, operation, {}, ActiveIds(g))

-----------------------------------------------------------------------------
(* Cycle detection.  A finite graph has a cycle exactly when some nonempty *)
(* set of nodes has, for each of its members, an edge to a member.         *)

Dependencies(edges) == {e \in edges : e.relation # "CONTRADICTS"}

Cyclic(edges) ==
  LET deps  == Dependencies(edges)
      inner == {e.source : e \in deps} \cap {e.target : e \in deps}
  IN  \E S \in SUBSET inner :
        S # {} /\ \A n \in S : \E e \in deps : e.source = n /\ e.target \in S

-----------------------------------------------------------------------------
(* The mutators.  An operation that can raise returns the graph it leaves  *)
(* behind and whether it returned normally.                                *)

Ok(g)     == [graph |-> g, ok |-> TRUE]
Raised(g) == [graph |-> g, ok |-> FALSE]

AddNode(g, node) ==
  Record([g EXCEPT !.nodes = Append(@, node)],
         IF node.kind = "EVIDENCE" THEN "ADD_EVIDENCE" ELSE "CREATE_OBLIGATION",
         {Len(g.nodes) + 1}, ActiveIds(g))

EvidenceNode == [kind |-> "EVIDENCE", status |-> "DISCHARGED", severity |-> "INFO",
                 blocking |-> FALSE, source |-> "runtime", why |-> "none"]

AddEvidence(g) == AddNode(g, EvidenceNode)

(* Fault: the cycle check is skipped.                                      *)
EdgeAcceptedUnchecked(g, s, t, r) == {s, t} \subseteq NodeIds(g)

EdgeAccepted(g, s, t, r) ==
  /\ {s, t} \subseteq NodeIds(g)
  /\ r = "CONTRADICTS" \/ ~Cyclic(g.edges \cup {Edge(s, t, r)})

AddEdge(g, s, t, r) ==
  IF EdgeAccepted(g, s, t, r)
  THEN Ok(Record([g EXCEPT !.edges = @ \cup {Edge(s, t, r)}],
                 "ADD_RELATION", {s, t}, ActiveIds(g)))
  ELSE Raised(g)

(* Fault: the loop records its events and forgets the edges.               *)
LinkFirstUnlinked(g, evidence, n, r, k) ==
  [g EXCEPT
     !.recent = @ \o [i \in 1..k |->
        [operation |-> "ADD_RELATION", affected |-> {evidence[i], n},
         before |-> ActiveIds(g), after |-> ActiveIds(g)]],
     !.mentioned = @ \cup UNION {{evidence[i], n} \cup ActiveIds(g) : i \in 1..k}]

(* The first k edges of the loop over evidence_ids, with their events.     *)
LinkFirst(g, evidence, n, r, k) ==
  [g EXCEPT
     !.edges = @ \cup {Edge(evidence[i], n, r) : i \in 1..k},
     !.recent = @ \o [i \in 1..k |->
        [operation |-> "ADD_RELATION", affected |-> {evidence[i], n},
         before |-> ActiveIds(g), after |-> ActiveIds(g)]],
     !.mentioned = @ \cup UNION {{evidence[i], n} \cup ActiveIds(g) : i \in 1..k}]

(* How many iterations of that loop complete, when it would raise at the   *)
(* positions in `rejects' had it come so far.                              *)
Completed(evidence, rejects) ==
  IF rejects = {} THEN Len(evidence)
  ELSE (CHOOSE i \in rejects : \A j \in rejects : i <= j) - 1

(* Fault: the explanation is not stored with the status.                   *)
SetStatusOnly(g, n, status, why) ==
  [g EXCEPT !.nodes = [g.nodes EXCEPT ![n] = [g.nodes[n] EXCEPT !.status = status]]]

SetStatus(g, n, status, why) ==
  LET changed == [g.nodes[n] EXCEPT !.status = status, !.why = why]
  IN  [g EXCEPT !.nodes = [g.nodes EXCEPT ![n] = changed]]

Members(s) == {s[i] : i \in 1..Len(s)}

(* Fault: an empty list of evidence is accepted.                           *)
DischargeUnchecked(g, n, evidence) ==
  IF n \notin NodeIds(g) \/ \E e \in Members(evidence) : ~IsEvidence(g, e)
  THEN Raised(g)
  ELSE Ok(Record(SetStatus(LinkFirst(g, evidence, n, "DISCHARGES", Len(evidence)),
                           n, "DISCHARGED", "none"),
                 "DISCHARGE_OBLIGATION", {n} \cup Members(evidence), ActiveIds(g)))

Discharge(g, n, evidence) ==
  LET cyclic == {i \in 1..Len(evidence) :
                   ~EdgeAccepted(LinkFirst(g, evidence, n, "DISCHARGES", i - 1),
                                 evidence[i], n, "DISCHARGES")}
      k == Completed(evidence, cyclic)
      linked == LinkFirst(g, evidence, n, "DISCHARGES", k)
  IN  IF \/ n \notin NodeIds(g) \/ IsEvidence(g, n) \/ evidence = << >>
         \/ \E e \in Members(evidence) : ~IsEvidence(g, e)
      THEN Raised(g)
      ELSE IF k < Len(evidence)
      THEN Raised(linked)
      ELSE Ok(Record(SetStatus(linked, n, "DISCHARGED", "none"),
                     "DISCHARGE_OBLIGATION", {n} \cup Members(evidence), ActiveIds(g)))

(* Fault: the status is set before the evidence is looked at.              *)
RefuteEarly(g, n, evidence) ==
  LET settled == SetStatus(g, n, "REFUTED", "none")
      linked  == LinkFirst(settled, evidence, n, "CONTRADICTS", Len(evidence))
  IN  IF n \notin NodeIds(g) \/ evidence = << >> THEN Raised(g)
      ELSE IF \E e \in Members(evidence) : ~IsEvidence(g, e) THEN Raised(settled)
      ELSE Ok(Record(linked, "REFUTE_OBLIGATION", {n} \cup Members(evidence), ActiveIds(g)))

Refute(g, n, evidence) ==
  LET k == Completed(evidence, {i \in 1..Len(evidence) : ~IsEvidence(g, evidence[i])})
      linked == LinkFirst(g, evidence, n, "CONTRADICTS", k)
  IN  IF n \notin NodeIds(g) \/ evidence = << >>
      THEN Raised(g)
      ELSE IF k < Len(evidence)
      THEN Raised(linked)
      ELSE Ok(Record(SetStatus(linked, n, "REFUTED", "none"),
                     "REFUTE_OBLIGATION", {n} \cup Members(evidence), ActiveIds(g)))

(* Fault: the event names no obligation.                                   *)
DeferUnnamed(g, n, why) ==
  IF n \notin NodeIds(g) THEN Raised(g)
  ELSE Ok(Record(SetStatus(g, n, "DEFERRED", why), "DEFER_OBLIGATION", {}, ActiveIds(g)))

Defer(g, n, why) ==
  IF n \notin NodeIds(g) THEN Raised(g)
  ELSE Ok(Record(SetStatus(g, n, "DEFERRED", why), "DEFER_OBLIGATION", {n}, ActiveIds(g)))

(* Faults: the status is misspelt; the reason is dropped.                  *)
EscalateMisspelt(g, n, why) ==
  IF n \notin NodeIds(g) THEN Raised(g)
  ELSE Ok(Record(SetStatus(g, n, "ESCALATE", why), "ESCALATE_OBLIGATION", {n}, ActiveIds(g)))

EscalateUnexplained(g, n, why) ==
  IF n \notin NodeIds(g) THEN Raised(g)
  ELSE Ok(Record(SetStatus(g, n, "ESCALATED", "none"), "ESCALATE_OBLIGATION", {n}, ActiveIds(g)))

Escalate(g, n, why) ==
  IF n \notin NodeIds(g) THEN Raised(g)
  ELSE Ok(Record(SetStatus(g, n, "ESCALATED", why), "ESCALATE_OBLIGATION", {n}, ActiveIds(g)))

(* Faults: no edge to the replacement; the replacement takes the old slot. *)
TransferUnlinked(g, n, r) ==
  IF n \notin NodeIds(g) THEN Raised(g)
  ELSE Ok(Record(SetStatus(AddNode(g, [g.nodes[n] EXCEPT !.status = "OPEN"]),
                           n, "TRANSFERRED", "none"),
                 "TRANSFER_OBLIGATION", {n, Len(g.nodes) + 1}, ActiveIds(g)))

TransferInPlace(g, n, r) ==
  IF n \notin NodeIds(g) THEN Raised(g)
  ELSE LET heir == [g.nodes[n] EXCEPT !.status = "OPEN", !.source = "shape_transform"]
       IN  Ok(Record([g EXCEPT !.nodes = [g.nodes EXCEPT ![n] = heir]],
                     "TRANSFER_OBLIGATION", {n}, ActiveIds(g)))

Transfer(g, n, r) ==
  LET new    == Len(g.nodes) + 1
      heir   == [g.nodes[n] EXCEPT !.status = "OPEN", !.source = "shape_transform", !.why = "none"]
      linked == AddEdge(AddNode(g, heir), new, n, r)
  IN  IF n \notin NodeIds(g) THEN Raised(g)
      ELSE IF ~linked.ok THEN linked
      ELSE Ok(Record(SetStatus(linked.graph, n, "TRANSFERRED", "none"),
                     "TRANSFER_OBLIGATION", {n, new}, ActiveIds(g)))

-----------------------------------------------------------------------------
(* Conservation (verify_conservation) and promotion (promotion_decision).  *)

EvidenceFor(g, n) ==
  {e \in NodeIds(g) : /\ g.nodes[e].kind = "EVIDENCE"
                      /\ \E r \in {"DISCHARGES", "VERIFIES", "SUPPORTS", "CONTRADICTS"} :
                           Edge(e, n, r) \in g.edges}

HasTransport(g, n) ==
  \E e \in g.edges : e.target = n /\ e.relation \in {"REFINES", "TRANSFERS", "DECOMPOSES"}

Accountable(g, n) ==
  \/ g.nodes[n].kind = "EVIDENCE"
  \/ /\ g.nodes[n].status \in {"DISCHARGED", "REFUTED"} => EvidenceFor(g, n) # {}
     /\ g.nodes[n].status \in {"DEFERRED", "ESCALATED"} => g.nodes[n].why # "none"
     /\ g.nodes[n].status = "TRANSFERRED" => HasTransport(g, n)

NoDanglingEdge(g) == \A e \in g.edges : {e.source, e.target} \subseteq NodeIds(g)

(* Everything verify_conservation asks for but acyclicity, of every node   *)
(* outside `exempt'.                                                       *)
Conserved(g, exempt) ==
  /\ NoDanglingEdge(g)
  /\ \A n \in NodeIds(g) : n \in exempt \/ Accountable(g, n)
  /\ g.mentioned \subseteq NodeIds(g)

VerifyConservation(g) == Conserved(g, {}) /\ ~Cyclic(g.edges)

Blockers(g) ==
  {n \in ActiveIds(g) : g.nodes[n].blocking /\ g.nodes[n].severity \in {"HIGH", "CRITICAL"}}

RequiredKinds(target) ==
  CASE target = "RELEASED" -> {"INTENT", "REQUIREMENT", "CLAIM", "SAFETY", "POLICY"}
    [] target = "KERNEL_VERIFIED" -> {"CLAIM", "PROOF"}
    [] OTHER -> {}

MissingKinds(g, target) ==
  {kind \in RequiredKinds(target) :
     \/ Find(g, kind) = {}
     \/ \E n \in Find(g, kind) :
          /\ g.nodes[n].blocking
          /\ g.nodes[n].status \notin {"DISCHARGED", "ACKNOWLEDGED", "REFUTED"}}

PromotionAllowed(g, target) ==
  /\ VerifyConservation(g)
  /\ Blockers(g) = {}
  /\ Find(g, "EVIDENCE") # {}
  /\ MissingKinds(g, target) = {}

-----------------------------------------------------------------------------
(* from_task: the graph a task starts with.  A task here is how many       *)
(* assumptions, success conditions and prohibited shortcuts it declares    *)
(* and the nodes its initial_obligations describe.                         *)

TaskNode(kind, status, severity, blocking, source) ==
  [kind |-> kind, status |-> status, severity |-> severity,
   blocking |-> blocking, source |-> source, why |-> "none"]

Repeat(node, count) == [i \in 1..count |-> node]

FromTask(task) ==
  LET a == task.assumptions
      s == task.successConditions
      p == task.prohibitedShortcuts
      nodes ==
        << TaskNode("INTENT", "OPEN", "HIGH", TRUE, "task") >>
        \o Repeat(TaskNode("ASSUMPTION", "ACKNOWLEDGED", "MEDIUM", FALSE, "task"), a)
        \o Repeat(TaskNode("REQUIREMENT", "OPEN", "HIGH", TRUE, "task.success_conditions"), s)
        \o Repeat(TaskNode("POLICY", "ACKNOWLEDGED", "HIGH", FALSE, "task"), p)
        \o task.initialObligations
      edges ==
        {Edge(n, 1, "SUPPORTS") : n \in 2..(1 + a)}
        \cup {Edge(n, 1, "REFINES") : n \in (2 + a)..(1 + a + s)}
        \cup {Edge(n, 1, "BLOCKS") : n \in (2 + a + s)..(1 + a + s + p)}
  IN  Checkpoint([nodes |-> nodes, edges |-> edges,
                  recent |-> << >>, mentioned |-> 1..Len(nodes)],
                 "task_initialized")

(* The ids of the nodes whose status the task itself declared.             *)
DeclaredIds(task) ==
  LET base == 1 + task.assumptions + task.successConditions + task.prohibitedShortcuts
  IN  (base + 1)..(base + Len(task.initialObligations))
=============================================================================
