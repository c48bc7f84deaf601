------------------------ MODULE ObligationGraph_proofs ------------------------
(***************************************************************************)
(* Proofs about ObligationGraph, for every set of tasks, every node the    *)
(* callers may add and every bound.  What each operation does to a sound   *)
(* graph is in ObligationGraphOps_proofs; the theorems follow from it with *)
(* one step per action of Next.  Three parts: soundness, the promise that  *)
(* the graph implements, and what its events explain.                      *)
(***************************************************************************)
EXTENDS ObligationGraph, ObligationGraphOps_proofs

-----------------------------------------------------------------------------
(* The theorems.                                                           *)

(* The inductive invariant: what each step is shown to preserve.           *)
IInv == TypeOK /\ Sound(graph, Declared)

(* Every initial graph satisfies the invariant.                            *)
LEMMA InitSound ==
  ASSUME Init
  PROVE  IInv
<1>1. TaskFields(task)
  BY TasksAssumption DEF Init, TaskFields
<1>2. Sound(FromTask(task), DeclaredIds(task))
  BY <1>1, FromTaskSound
<1>3. QED
  BY <1>2 DEF Init, IInv, TypeOK, Declared, Sound

(* A sound result as a step of the specification.                          *)
LEMMA ReturnsSound ==
  ASSUME NEW result, IInv, Returns(result), result.ok \in BOOLEAN,
         Improves(Before, result.graph, Declared)
  PROVE  IInv' /\ Keeps(graph, graph')
<1>1. Improves(graph, Before, Declared)
  BY SettleSound DEF IInv, Before
<1>2. graph' = result.graph /\ ok' \in BOOLEAN /\ task' = task /\ Declared' = Declared
  BY DEF Returns, Declared
<1>3. Improves(graph, graph', Declared)
  BY <1>1, <1>2, ImprovesTransitive DEF IInv
<1>4. QED
  BY <1>2, <1>3 DEF IInv, TypeOK, Improves, Sound

(* The graph an operation starts from has no recent events.                *)
LEMMA BeforeSound ==
  ASSUME IInv
  PROVE  Sound(Before, Declared)
BY SettleSound DEF IInv, Before, Improves

(* What callers pass as evidence is a sequence of ids.                     *)
LEMMA EvidenceListsTyped ==
  EvidenceLists \subseteq Seq(Nat) /\ Ids \subseteq Nat
<1>1. Ids \subseteq Nat
  BY CallersAssumption DEF Ids
<1>2. /\ << >> \in Seq(Nat)
      /\ \A e \in Nat : <<e>> \in Seq(Nat)
      /\ \A e, f \in Nat : <<e, f>> \in Seq(Nat)
  OBVIOUS
<1>3. ASSUME NEW ev \in EvidenceLists
      PROVE  ev \in Seq(Nat)
  <2>1. CASE ev = << >>
    BY <1>2, <2>1
  <2>2. CASE ev \in {<<e>> : e \in Ids}
    <3>1. PICK e \in Ids : ev = <<e>>
      BY <2>2
    <3>2. QED
      BY <1>1, <1>2, <3>1
  <2>3. CASE ev \in {<<e, f>> : e, f \in Ids}
    <3>1. PICK e, f \in Ids : ev = <<e, f>>
      BY <2>3
    <3>2. QED
      BY <1>1, <1>2, <3>1
  <2>4. QED
    BY <2>1, <2>2, <2>3 DEF EvidenceLists
<1>4. QED
  BY <1>1, <1>3

(* One step of the graph: the invariant holds again, nothing is erased and *)
(* no accountability is lost.                                              *)
LEMMA StepSound ==
  ASSUME IInv, [Next]_vars
  PROVE  IInv' /\ Keeps(graph, graph')
<1>1. Sound(Before, Declared)
  BY BeforeSound
<1> USE EvidenceListsTyped
<1>2. CASE AddObligation
  <2>1. PICK node \in NewNodes : Returns(Ok(AddNode(Before, node)))
    BY <1>2 DEF AddObligation
  <2>2. node \in Fresh
    BY CallersAssumption DEF Fresh
  <2>3. Improves(Before, Ok(AddNode(Before, node)).graph, Declared)
        /\ Ok(AddNode(Before, node)).ok \in BOOLEAN
    BY <1>1, <2>2, AddNodeSound DEF Ok
  <2>4. QED
    BY <2>1, <2>3, ReturnsSound
<1>3. CASE AddEvidenceNode
  <2>1. EvidenceNode \in Fresh
    BY DEF EvidenceNode, Fresh, Node, ObligationKinds, ObligationStatuses, Severities,
           Sources, Explanations
  <2>2. Improves(Before, Ok(AddEvidence(Before)).graph, Declared)
        /\ Ok(AddEvidence(Before)).ok \in BOOLEAN
    BY <1>1, <2>1, AddNodeSound DEF Ok, AddEvidence
  <2>3. QED
    BY <1>3, <2>2, ReturnsSound DEF AddEvidenceNode
<1>4. CASE Relate
  <2>1. PICK s \in Ids, t \in Ids, r \in NewRelations : Returns(AddEdge(Before, s, t, r))
    BY <1>4 DEF Relate
  <2>2. r \in Relations
    BY CallersAssumption
  <2>3. AddEdge(Before, s, t, r).ok \in BOOLEAN
        /\ Improves(Before, AddEdge(Before, s, t, r).graph, Declared)
    <3>1. CASE EdgeAccepted(Before, s, t, r)
      BY <1>1, <2>2, <3>1, AddEdgeSound
    <3>2. CASE ~EdgeAccepted(Before, s, t, r)
      BY <1>1, <3>2, KeepsReflexive DEF AddEdge, Raised, Improves, Sound
    <3>3. QED
      BY <3>1, <3>2
  <2>4. QED
    BY <2>1, <2>3, ReturnsSound
<1>5. CASE DischargeNode
  <2>1. PICK n \in Ids, ev \in EvidenceLists : Returns(Discharge(Before, n, ev))
    BY <1>5 DEF DischargeNode
  <2>2. QED
    BY <1>1, <2>1, DischargeSound, ReturnsSound
<1>6. CASE RefuteNode
  <2>1. PICK n \in Ids, ev \in EvidenceLists : Returns(Refute(Before, n, ev))
    BY <1>6 DEF RefuteNode
  <2>2. QED
    BY <1>1, <2>1, RefuteSound, ReturnsSound
<1>7. CASE DeferNode
  <2>1. PICK n \in Ids, why \in Reasons : Returns(Defer(Before, n, why))
    BY <1>7 DEF DeferNode
  <2>2. why \in {"reason", "reason+retry"}
    BY CallersAssumption
  <2>3. QED
    BY <1>1, <2>1, <2>2, DeferSound, ReturnsSound
<1>8. CASE EscalateNode
  <2>1. PICK n \in Ids : Returns(Escalate(Before, n, "reason"))
    BY <1>8 DEF EscalateNode
  <2>2. QED
    BY <1>1, <2>1, EscalateSound, ReturnsSound
<1>9. CASE TransferNode
  <2>1. PICK n \in Ids, r \in TransferRelations : Returns(Transfer(Before, n, r))
    BY <1>9 DEF TransferNode
  <2>2. r \in {"REFINES", "TRANSFERS", "DECOMPOSES"}
    BY CallersAssumption
  <2>3. QED
    BY <1>1, <2>1, <2>2, TransferSound, ReturnsSound
<1>10. CASE UNCHANGED vars
  <2>1. graph' = graph /\ task' = task /\ ok' = ok
    BY <1>10 DEF vars
  <2>2. graph \in Graph
    BY DEF IInv, TypeOK
  <2>3. QED
    BY <2>1, <2>2, KeepsReflexive DEF IInv, TypeOK, Declared
<1>11. QED
  BY <1>2, <1>3, <1>4, <1>5, <1>6, <1>7, <1>8, <1>9, <1>10 DEF Next

(* The invariant holds in every reachable state.                           *)
LEMMA Invariance == Spec => []IInv
<1>1. Init => IInv
  BY InitSound
<1>2. IInv /\ [Next]_vars => IInv'
  BY StepSound
<1>3. QED
  BY <1>1, <1>2, PTL DEF Spec

(* Every variable keeps its type, whatever is called in whatever order.    *)
THEOREM TypeCorrect == Spec => []TypeOK
<1>1. IInv => TypeOK
  BY DEF IInv
<1>2. QED
  BY <1>1, Invariance, PTL

(* The conservation law of verify_conservation (core/obligation_graph.py)  *)
(* holds after every operation, also one that raised half way, for every   *)
(* node but those whose status the task's author declared.                 *)
THEOREM Conservation == Spec => []ConservationLaw
<1>1. IInv => ConservationLaw
  BY DEF IInv, Sound, ConservationLaw
<1>2. QED
  BY <1>1, Invariance, PTL

(* The graph never has a dependency cycle: add_edge takes every edge that  *)
(* would close one out again, those discharge and transfer add included.   *)
THEOREM NoCycle == Spec => []Acyclic
<1>1. IInv => Acyclic
  BY DEF IInv, Sound, Acyclic
<1>2. QED
  BY <1>1, Invariance, PTL

(* An accountable node stays accountable through every operation.          *)
THEOREM AccountabilityNeverLost == Spec => AccountabilityKept
<1>1. IInv /\ [Next]_vars =>
        [\A n \in NodeIds(graph) : Accountable(graph, n) => Accountable(graph', n)]_vars
  BY StepSound DEF Keeps
<1>2. QED
  BY <1>1, Invariance, PTL DEF Spec, AccountabilityKept

(* No node and no edge is ever deleted, and no node changes its identity.  *)
THEOREM GraphOnlyGrows == Spec => NothingErased
<1>1. IInv /\ [Next]_vars =>
        [/\ Len(graph.nodes) <= Len(graph'.nodes)
         /\ graph.edges \subseteq graph'.edges
         /\ \A n \in NodeIds(graph) : Identity(graph'.nodes[n]) = Identity(graph.nodes[n])]_vars
  BY StepSound DEF Keeps, Grown
<1>2. QED
  BY <1>1, Invariance, PTL DEF Spec, NothingErased

-----------------------------------------------------------------------------
(***************************************************************************)
(* The graph implements AccountableObligations, and a release is taken back*)
(* for unsettled duties only.  Soundness is what was proved above; added here is, *)
(* for each operation, which node it may give another fate, and which one. *)
(***************************************************************************)

(* The fate of a node in any graph, so that it can be compared in two.     *)
FateOf(g, exempt, n) ==
  IF n \notin NodeIds(g) \/ IsEvidence(g, n) THEN "absent"
  ELSE LET status == g.nodes[n].status IN
    CASE n \in exempt /\ ~Accountable(g, n) -> "declared"
      [] status = "OPEN" -> "open"
      [] status = "ACKNOWLEDGED" -> "acknowledged"
      [] status \in {"DEFERRED", "ESCALATED"} /\ Accountable(g, n) -> "documented"
      [] status \in {"DISCHARGED", "REFUTED"} /\ Accountable(g, n) -> "evidenced"
      [] status = "TRANSFERRED" /\ Accountable(g, n) -> "transported"
      [] OTHER -> "lost"

(* It is the fate of ObligationGraph, now                                  *)
LEMMA FateIs ==
  ASSUME NEW n PROVE Fate(n) = FateOf(graph, Declared, n)
  BY DEF Fate, FateOf

(* and after a step.                                                       *)
LEMMA FateWillBe ==
  ASSUME NEW n PROVE Fate(n)' = FateOf(graph', Declared', n)
  BY DEF Fate, FateOf

(* What a status says of the fate of a node that is there.                 *)
Supported(status) ==
  CASE status = "OPEN" -> "open"
    [] status = "ACKNOWLEDGED" -> "acknowledged"
    [] status \in {"DEFERRED", "ESCALATED"} -> "documented"
    [] status \in {"DISCHARGED", "REFUTED"} -> "evidenced"
    [] status = "TRANSFERRED" -> "transported"

(* In a sound graph the fate of an accountable node is that of its status, *)
(* and the others are declared.                                            *)
LEMMA FateTells ==
  ASSUME NEW g, NEW exempt, Sound(g, exempt), NEW n
  PROVE  /\ n \notin NodeIds(g) => FateOf(g, exempt, n) = "absent"
         /\ IsEvidence(g, n) => FateOf(g, exempt, n) = "absent"
         /\ n \in NodeIds(g) /\ ~IsEvidence(g, n) =>
              /\ Accountable(g, n) =>
                   FateOf(g, exempt, n) = Supported(g.nodes[n].status)
              /\ ~Accountable(g, n) => FateOf(g, exempt, n) = "declared"
<1>1. ASSUME n \in NodeIds(g), ~IsEvidence(g, n), Accountable(g, n)
      PROVE  FateOf(g, exempt, n) = Supported(g.nodes[n].status)
  <2>1. g.nodes[n].status \in ObligationStatuses
    BY <1>1, GraphTyped DEF Sound, Node
  <2> QED
    BY <1>1, <2>1 DEF FateOf, Supported, ObligationStatuses
<1>2. ASSUME n \in NodeIds(g), ~IsEvidence(g, n), ~Accountable(g, n)
      PROVE  FateOf(g, exempt, n) = "declared"
  <2>1. n \in exempt
    BY <1>2 DEF Sound, Conserved
  <2>2. g.nodes[n].status \notin {"OPEN", "ACKNOWLEDGED"}
    BY <1>2 DEF Accountable
  <2> QED
    BY <1>2, <2>1, <2>2 DEF FateOf
<1> QED
  BY <1>1, <1>2 DEF FateOf

(* Edges that go to another node leave a node as accountable as it was.    *)
LEMMA AccountableSame ==
  ASSUME NEW g, NEW exempt, Sound(g, exempt), NEW h \in Graph, Grown(g, h), NEW n,
         \A e \in h.edges \ g.edges : e.target = n,
         NEW m \in NodeIds(g) \ {n}, h.nodes[m] = g.nodes[m]
  PROVE  Accountable(h, m) <=> Accountable(g, m)
<1>1. g \in Graph
  BY DEF Sound
<1>2. Accountable(g, m) => Accountable(h, m)
  BY <1>1, AccountableMonotone
<1>3. EvidenceFor(h, m) \subseteq EvidenceFor(g, m)
  <2> SUFFICES ASSUME NEW e \in NodeIds(h), h.nodes[e].kind = "EVIDENCE",
                      NEW r \in {"DISCHARGES", "VERIFIES", "SUPPORTS", "CONTRADICTS"},
                      Edge(e, m, r) \in h.edges
               PROVE  e \in NodeIds(g) /\ g.nodes[e].kind = "EVIDENCE" /\ Edge(e, m, r) \in g.edges
    BY DEF EvidenceFor
  <2>1. Edge(e, m, r).target = m /\ Edge(e, m, r).source = e
    BY DEF Edge
  <2>2. Edge(e, m, r) \in g.edges
    BY <2>1
  <2>3. e \in NodeIds(g)
    BY <2>1, <2>2 DEF Sound, Conserved, NoDanglingEdge
  <2> QED
    BY <2>2, <2>3 DEF Grown, Identity
<1>4. HasTransport(h, m) => HasTransport(g, m)
  BY DEF HasTransport
<1> QED
  BY <1>2, <1>3, <1>4 DEF Accountable

(* One step from g to h, in which n alone may change and edges go to n.    *)
Touches(g, h, exempt, n) ==
  /\ Sound(g, exempt) /\ Sound(h, exempt) /\ Keeps(g, h)
  /\ \A e \in h.edges \ g.edges : e.target = n
  /\ \A m \in NodeIds(g) \ {n} : h.nodes[m] = g.nodes[m]

(* The other nodes keep their fates.                                       *)
LEMMA OthersKeepFate ==
  ASSUME NEW g, NEW h, NEW exempt, NEW n, Touches(g, h, exempt, n), NEW m, m # n,
         m \in NodeIds(h) => m \in NodeIds(g)
  PROVE  FateOf(h, exempt, m) = FateOf(g, exempt, m)
<1>1. CASE m \in NodeIds(g)
  <2>1. m \in NodeIds(h)
    BY <1>1, GraphTyped DEF Touches, Sound, Keeps, Grown, NodeIds
  <2>2. h.nodes[m] = g.nodes[m] /\ (Accountable(h, m) <=> Accountable(g, m))
    BY <1>1, AccountableSame DEF Touches, Sound, Keeps
  <2>3. IsEvidence(h, m) <=> IsEvidence(g, m)
    BY <1>1, <2>1, <2>2 DEF IsEvidence
  <2> QED
    BY <1>1, <2>1, <2>2, <2>3, FateTells DEF Touches
<1>2. CASE m \notin NodeIds(g)
  BY <1>2, FateTells DEF Touches
<1> QED
  BY <1>1, <1>2

(* The changes of fate that AccountableObligations has a step for.         *)
Moves(f, to) ==
  \/ to = f
  \/ f = "absent" /\ to \in {"open", "acknowledged"}
  \/ f # "absent" /\ to \in {"documented", "evidenced"}
  \/ f = "declared" /\ to \in {"evidenced", "transported"}

(* A node whose status stays gets the support of it, at most.              *)
LEMMA SameStatusMoves ==
  ASSUME NEW g, NEW h, NEW exempt, NEW n \in NodeIds(g), Touches(g, h, exempt, n),
         h.nodes[n] = g.nodes[n]
  PROVE  Moves(FateOf(g, exempt, n), FateOf(h, exempt, n))
<1>1. n \in NodeIds(h) /\ (IsEvidence(h, n) <=> IsEvidence(g, n))
  BY GraphTyped DEF Touches, Sound, Keeps, Grown, NodeIds, IsEvidence
<1>2. CASE IsEvidence(g, n)
  BY <1>1, <1>2, FateTells DEF Touches, Moves
<1>3. CASE ~IsEvidence(g, n) /\ Accountable(g, n)
  BY <1>1, <1>3, FateTells DEF Touches, Moves, Keeps
<1>4. CASE ~IsEvidence(g, n) /\ ~Accountable(g, n) /\ ~Accountable(h, n)
  BY <1>1, <1>4, FateTells DEF Touches, Moves
<1>5. CASE ~IsEvidence(g, n) /\ ~Accountable(g, n) /\ Accountable(h, n)
  <2>1. FateOf(g, exempt, n) = "declared" /\ FateOf(h, exempt, n) = Supported(g.nodes[n].status)
    BY <1>1, <1>5, FateTells DEF Touches
  <2>2. g.nodes[n].status \in {"DISCHARGED", "REFUTED", "TRANSFERRED"}
    <3>1. g.nodes[n].status \in ObligationStatuses
      BY GraphTyped DEF Touches, Sound, Node
    <3> QED
      BY <1>1, <1>5, <3>1 DEF Accountable, ObligationStatuses, IsEvidence
  <2>3. Supported(g.nodes[n].status) \in {"evidenced", "transported"}
    BY <2>2 DEF Supported
  <2> QED
    BY <2>1, <2>3 DEF Moves
<1> QED
  BY <1>2, <1>3, <1>4, <1>5

(* A node that is given a status with its support.                         *)
LEMMA NewStatusMoves ==
  ASSUME NEW g, NEW h, NEW exempt, NEW n \in NodeIds(g), Touches(g, h, exempt, n),
         Accountable(h, n),
         h.nodes[n].status \in {"DISCHARGED", "REFUTED", "DEFERRED", "ESCALATED"}
  PROVE  Moves(FateOf(g, exempt, n), FateOf(h, exempt, n))
<1>1. n \in NodeIds(h) /\ (IsEvidence(h, n) <=> IsEvidence(g, n))
  BY GraphTyped DEF Touches, Sound, Keeps, Grown, NodeIds, IsEvidence, Identity
<1>2. CASE IsEvidence(g, n)
  BY <1>1, <1>2, FateTells DEF Touches, Moves
<1>3. CASE ~IsEvidence(g, n)
  <2>1. FateOf(h, exempt, n) \in {"documented", "evidenced"}
    BY <1>1, <1>3, FateTells DEF Touches, Supported
  <2>2. FateOf(g, exempt, n) # "absent"
    <3>1. g.nodes[n].status \in ObligationStatuses
      BY GraphTyped DEF Touches, Sound, Node
    <3>2. FateOf(g, exempt, n) \in {"declared", Supported(g.nodes[n].status)}
      BY <1>3, FateTells DEF Touches
    <3> QED
      BY <3>1, <3>2 DEF Supported, ObligationStatuses
  <2> QED
    BY <2>1, <2>2 DEF Moves
<1> QED
  BY <1>2, <1>3

-----------------------------------------------------------------------------
(* What that means for the fates.                                          *)

(* A discharge, refutation, deferral or escalation, and one that raises.   *)
LEMMA SetMoves ==
  ASSUME NEW g, NEW exempt, Sound(g, exempt), NEW result,
         Improves(g, result.graph, exempt), NEW n,
         NEW statuses \in SUBSET ObligationStatuses, SetsAtMost(g, result, n, statuses)
  PROVE  /\ \A m : m # n => FateOf(result.graph, exempt, m) = FateOf(g, exempt, m)
         /\ Moves(FateOf(g, exempt, n), FateOf(result.graph, exempt, n))
<1> DEFINE h == result.graph
<1>1. /\ \A e \in h.edges \ g.edges : e.target = n
      /\ Sound(h, exempt) /\ Keeps(g, h) /\ g \in Graph /\ g.nodes \in Seq(Node)
      /\ \A m \in NodeIds(g) : m \in NodeIds(h) /\ h.nodes[m].kind = g.nodes[m].kind
  BY GraphTyped DEF SetsAtMost, Improves, Sound, Keeps, Grown, Identity, NodeIds
<1>2. CASE h.nodes = g.nodes
  <2>1. Touches(g, h, exempt, n) /\ NodeIds(h) = NodeIds(g)
    BY <1>1, <1>2 DEF Touches, NodeIds
  <2>2. n \in NodeIds(g) => Moves(FateOf(g, exempt, n), FateOf(h, exempt, n))
    BY <1>2, <2>1, SameStatusMoves
  <2>3. n \notin NodeIds(g) => Moves(FateOf(g, exempt, n), FateOf(h, exempt, n))
    BY <1>1, <2>1, FateTells DEF Moves
  <2> QED
    BY <2>1, <2>2, <2>3, OthersKeepFate
<1>3. CASE result.ok
  <2>1. n \in NodeIds(g)
    BY <1>3 DEF SetsAtMost
  <2>2. PICK status \in statuses, why \in Explanations :
          /\ h.nodes = WithStatus(g.nodes, n, status, why)
          /\ \/ status \in {"DISCHARGED", "REFUTED"} /\ Backed(g, h.edges, n)
             \/ status \in {"DEFERRED", "ESCALATED"} /\ why # "none"
    BY <1>3 DEF SetsAtMost
  <2>3. /\ Len(h.nodes) = Len(g.nodes)
        /\ \A m \in NodeIds(g) : m # n => h.nodes[m] = g.nodes[m]
        /\ h.nodes[n].status = status /\ h.nodes[n].why = why
    BY <1>1, <2>1, <2>2, WithStatusIs DEF NodeIds
  <2>4. Touches(g, h, exempt, n) /\ NodeIds(h) = NodeIds(g)
    BY <1>1, <2>3 DEF Touches, NodeIds
  <2>5. Backed(g, h.edges, n) => EvidenceFor(h, n) # {}
    BY <1>1 DEF Backed, EvidenceFor
  <2>6. Accountable(h, n)
    BY <2>2, <2>3, <2>5 DEF Accountable
  <2> QED
    BY <2>1, <2>2, <2>3, <2>4, <2>6, NewStatusMoves, OthersKeepFate
<1> QED
  BY <1>2, <1>3 DEF SetsAtMost

(* A new node: the other nodes keep their fates.                           *)
LEMMA AddMoves ==
  ASSUME NEW g, NEW exempt, Sound(g, exempt), NEW node \in Fresh
  PROVE  LET h == AddNode(g, node)
             new == Len(g.nodes) + 1
         IN  /\ \A m : m # new => FateOf(h, exempt, m) = FateOf(g, exempt, m)
             /\ Moves(FateOf(g, exempt, new), FateOf(h, exempt, new))
<1> DEFINE h == AddNode(g, node)
           new == Len(g.nodes) + 1
<1>1. /\ Improves(g, h, exempt) /\ Len(h.nodes) = new /\ h.edges = g.edges
      /\ h.nodes[new] = node
  BY AddNodeSound
<1>2. g \in Graph /\ g.nodes \in Seq(Node) /\ node \in Node /\ Len(g.nodes) \in Nat
  BY GraphTyped DEF Sound, Fresh
<1>3. \A m \in NodeIds(g) : h.nodes[m] = g.nodes[m]
  BY <1>2, AddNodeShape, AppendProperties DEF NodeIds
<1> HIDE DEF h
<1>4. new \notin NodeIds(g) /\ new \in NodeIds(h)
      /\ \A m \in NodeIds(h) : m # new => m \in NodeIds(g)
  BY <1>1, <1>2 DEF NodeIds
<1>5. Touches(g, h, exempt, new)
  BY <1>1, <1>3 DEF Touches, Improves
<1>6. FateOf(g, exempt, new) = "absent"
  BY <1>4, FateTells
<1>7. FateOf(h, exempt, new) \in {"absent", "open", "acknowledged"}
  <2>1. CASE node.kind = "EVIDENCE"
    BY <1>1, <1>4, <2>1, FateTells DEF IsEvidence, Improves
  <2>2. CASE node.kind # "EVIDENCE"
    <3>1. node.status \in {"OPEN", "ACKNOWLEDGED"} /\ Accountable(h, new)
      BY <1>1, <2>2 DEF Fresh, Accountable
    <3>2. FateOf(h, exempt, new) = Supported(node.status)
      BY <1>1, <1>4, <2>2, <3>1, FateTells DEF IsEvidence, Improves
    <3> QED
      BY <3>1, <3>2 DEF Supported
  <2> QED
    BY <2>1, <2>2
<1> QED
  BY <1>4, <1>5, <1>6, <1>7, OthersKeepFate DEF Moves, h

(* A new edge: its target may be supported by it.                          *)
LEMMA EdgeMoves ==
  ASSUME NEW g, NEW exempt, Sound(g, exempt), NEW s, NEW t, NEW r \in Relations,
         EdgeAccepted(g, s, t, r)
  PROVE  LET h == AddEdge(g, s, t, r).graph
         IN  /\ \A m : m # t => FateOf(h, exempt, m) = FateOf(g, exempt, m)
             /\ Moves(FateOf(g, exempt, t), FateOf(h, exempt, t))
<1> DEFINE h == AddEdge(g, s, t, r).graph
<1>1. /\ Improves(g, h, exempt) /\ h.nodes = g.nodes
      /\ h.edges = g.edges \cup {Edge(s, t, r)}
  BY AddEdgeSound
<1> HIDE DEF h
<1>2. Touches(g, h, exempt, t) /\ NodeIds(h) = NodeIds(g)
  BY <1>1 DEF Touches, Improves, Edge, NodeIds
<1>3. t \in NodeIds(g)
  BY DEF EdgeAccepted
<1> QED
  BY <1>1, <1>2, <1>3, SameStatusMoves, OthersKeepFate DEF h

(* A transfer that succeeds: an obligation and its heir, or evidence.      *)
Transports(g, h, exempt, n, new) ==
  /\ \A m : m \notin {n, new} => FateOf(h, exempt, m) = FateOf(g, exempt, m)
  /\ \/ /\ FateOf(g, exempt, n) = "absent" /\ FateOf(h, exempt, n) = "absent"
        /\ FateOf(g, exempt, new) = "absent" /\ FateOf(h, exempt, new) = "absent"
     \/ /\ FateOf(g, exempt, n) # "absent" /\ FateOf(h, exempt, n) = "transported"
        /\ FateOf(g, exempt, new) = "absent" /\ FateOf(h, exempt, new) = "open"

(* transfer: nothing, the heir alone if its edge is refused, or both.      *)
LEMMA TransferMoves ==
  ASSUME NEW g, NEW exempt, Sound(g, exempt), NEW n,
         NEW r \in {"REFINES", "TRANSFERS", "DECOMPOSES"}
  PROVE  LET h == Transfer(g, n, r).graph
             new == Len(g.nodes) + 1
         IN  \/ h = g
             \/ /\ \A m : m # new => FateOf(h, exempt, m) = FateOf(g, exempt, m)
                /\ Moves(FateOf(g, exempt, new), FateOf(h, exempt, new))
             \/ n \in NodeIds(g) /\ Transports(g, h, exempt, n, new)
<1> DEFINE new == Len(g.nodes) + 1
           heir == [g.nodes[n] EXCEPT !.status = "OPEN", !.source = "shape_transform", !.why = "none"]
           added == AddNode(g, heir)
           linked == AddEdge(added, new, n, r)
           settled == SetStatus(linked.graph, n, "TRANSFERRED", "none")
           done == Record(settled, "TRANSFER_OBLIGATION", {n, new}, ActiveIds(g))
<1>1. Transfer(g, n, r) = IF n \notin NodeIds(g) THEN Raised(g)
                          ELSE IF ~linked.ok THEN linked ELSE Ok(done)
  BY DEF Transfer
<1>2. CASE n \notin NodeIds(g)
  BY <1>1, <1>2 DEF Raised
<1>3. CASE n \in NodeIds(g)
  <2>1. g \in Graph /\ g.nodes \in Seq(Node) /\ g.nodes[n] \in Node /\ Len(g.nodes) \in Nat
    BY <1>3, GraphTyped DEF Sound
  <2>2. heir \in Fresh /\ heir.kind = g.nodes[n].kind /\ heir.status = "OPEN"
    BY <2>1 DEF Fresh, Node, ObligationStatuses, Sources, Explanations
  <2> HIDE DEF heir
  <2>3. /\ Improves(g, added, exempt) /\ Len(added.nodes) = new
        /\ added.edges = g.edges /\ added.nodes[new] = heir
        /\ \A m \in NodeIds(g) : added.nodes[m] = g.nodes[m]
    BY <2>1, <2>2, AddNodeSound, AddNodeShape, AppendProperties DEF NodeIds, Fresh
  <2>4. CASE ~EdgeAccepted(added, new, n, r)
    <3>1. linked = Raised(added)
      BY <2>4 DEF AddEdge
    <3>2. Transfer(g, n, r).graph = added
      BY <1>1, <1>3, <3>1 DEF Raised
    <3> QED
      BY <2>2, <3>2, AddMoves
  <2>5. CASE EdgeAccepted(added, new, n, r)
    <3>1. Sound(added, exempt) /\ r \in Relations
      BY <2>3 DEF Improves, Relations
    <3>2. /\ linked.ok /\ linked.graph \in Graph
          /\ linked.graph.nodes = added.nodes
          /\ linked.graph.edges = g.edges \cup {Edge(new, n, r)}
      BY <2>3, <2>5, <3>1, AddEdgeSound DEF Improves, Sound
    <3>3. Transfer(g, n, r).graph = done
      BY <1>1, <1>3, <3>2 DEF Ok
    <3>4. Improves(g, done, exempt)
      BY <3>3, TransferSound
    <3> HIDE DEF linked, added
    <3>5. /\ Fields(settled) /\ settled.edges = g.edges \cup {Edge(new, n, r)}
          /\ settled.nodes = WithStatus(added.nodes, n, "TRANSFERRED", "none")
      BY <3>2, GraphFields, StatusShape
    <3> HIDE DEF settled
    <3>6. done.nodes = settled.nodes /\ done.edges = settled.edges
      BY <3>5, RecordShape
    <3> HIDE DEF done
    <3>7. added.nodes \in Seq(Node) /\ n \in 1..Len(added.nodes) /\ new \in 1..Len(added.nodes)
          /\ n # new
      BY <1>3, <2>1, <2>3, <3>1, GraphTyped DEF Sound, NodeIds
    <3>8. /\ Len(done.nodes) = new
          /\ \A m \in NodeIds(g) : m # n => done.nodes[m] = g.nodes[m]
          /\ done.nodes[new] = heir
          /\ done.nodes[n].status = "TRANSFERRED" /\ done.nodes[n].kind = g.nodes[n].kind
      <4>1. "TRANSFERRED" \in ObligationStatuses /\ "none" \in Explanations
        BY DEF ObligationStatuses, Explanations
      <4>2. /\ Len(done.nodes) = Len(added.nodes)
            /\ \A m \in 1..Len(added.nodes) : m # n => done.nodes[m] = added.nodes[m]
            /\ done.nodes[n].status = "TRANSFERRED"
            /\ done.nodes[n].kind = added.nodes[n].kind
        BY <3>5, <3>6, <3>7, <4>1, WithStatusIs
      <4>3. \A m \in NodeIds(g) : m \in 1..Len(added.nodes)
        BY <2>1, <2>3 DEF NodeIds
      <4> QED
        BY <1>3, <2>3, <3>7, <4>2, <4>3
    <3>9. Touches(g, done, exempt, n) /\ HasTransport(done, n)
      <4>1. Edge(new, n, r).target = n /\ Edge(new, n, r).relation = r
        BY DEF Edge
      <4> QED
        BY <3>4, <3>5, <3>6, <3>8, <4>1 DEF Touches, Improves, HasTransport
    <3>10. /\ n \in NodeIds(done) /\ new \in NodeIds(done) /\ new \notin NodeIds(g)
           /\ \A m \in NodeIds(done) : m # new => m \in NodeIds(g)
      BY <1>3, <2>1, <3>8 DEF NodeIds
    <3>11. \A m : m \notin {n, new} => FateOf(done, exempt, m) = FateOf(g, exempt, m)
      BY <3>9, <3>10, OthersKeepFate
    <3>12. FateOf(g, exempt, new) = "absent" /\ Sound(done, exempt)
      BY <3>4, <3>10, FateTells DEF Improves
    <3>13. CASE g.nodes[n].kind = "EVIDENCE"
      <4>1. IsEvidence(g, n) /\ IsEvidence(done, n) /\ IsEvidence(done, new)
        BY <1>3, <2>2, <3>8, <3>10, <3>13 DEF IsEvidence
      <4> QED
        BY <1>3, <3>3, <3>11, <3>12, <4>1, FateTells DEF Transports
    <3>14. CASE g.nodes[n].kind # "EVIDENCE"
      <4>1. ~IsEvidence(g, n) /\ ~IsEvidence(done, n) /\ ~IsEvidence(done, new)
        BY <2>2, <3>8, <3>14 DEF IsEvidence
      <4>2. Accountable(done, n) /\ Accountable(done, new)
        BY <2>2, <3>8, <3>9 DEF Accountable
      <4>3. FateOf(done, exempt, n) = "transported" /\ FateOf(done, exempt, new) = "open"
        BY <2>2, <3>8, <3>10, <3>12, <4>1, <4>2, FateTells DEF Supported
      <4>4. FateOf(g, exempt, n) # "absent"
        <5>1. g.nodes[n].status \in ObligationStatuses
          BY <2>1 DEF Node
        <5>2. FateOf(g, exempt, n) \in {"declared", Supported(g.nodes[n].status)}
          BY <1>3, <4>1, FateTells
        <5> QED
          BY <5>1, <5>2 DEF Supported, ObligationStatuses
      <4> QED
        BY <1>3, <3>3, <3>11, <3>12, <4>3, <4>4 DEF Transports
    <3> QED
      BY <3>13, <3>14
  <2> QED
    BY <2>4, <2>5
<1> QED
  BY <1>2, <1>3

-----------------------------------------------------------------------------
(* The refinement.                                                         *)

(* One fate that moves is a step of AccountableObligations.                *)
LEMMA OneFate ==
  ASSUME NEW n, \A m : m # n => Fate(m)' = Fate(m), Moves(Fate(n), Fate(n)')
  PROVE  [Promise!Next]_Fates
<1>1. CASE n \notin 1..MaxNodes \/ Fate(n)' = Fate(n)
  <2>1. \A m \in 1..MaxNodes : Fate(m)' = Fate(m)
    BY <1>1
  <2> QED
    BY <2>1 DEF Fates
<1>2. CASE n \in 1..MaxNodes /\ Fate(n)' # Fate(n)
  <2>1. Fates[n] = Fate(n) /\ Fates' = [Fates EXCEPT ![n] = Fate(n)']
    <3>1. \A m \in 1..MaxNodes : Fate(m)' = IF m = n THEN Fate(n)' ELSE Fate(m)
      OBVIOUS
    <3>2. Fates' = [m \in 1..MaxNodes |-> Fate(m)']
      BY DEF Fates
    <3>3. Fates' = [m \in 1..MaxNodes |-> IF m = n THEN Fate(n)' ELSE Fate(m)]
      BY <3>1, <3>2, Zenon
    <3>4. [m \in 1..MaxNodes |-> IF m = n THEN Fate(n)' ELSE Fate(m)]
            = [Fates EXCEPT ![n] = Fate(n)']
      BY <1>2 DEF Fates
    <3> QED
      BY <1>2, <3>3, <3>4 DEF Fates
  <2>2. CASE Fate(n) = "absent" /\ Fate(n)' \in {"open", "acknowledged"}
    BY <1>2, <2>1, <2>2 DEF Promise!Next, Promise!Register, Promise!Known, Promise!Becomes
  <2>3. CASE Fate(n) # "absent" /\ Fate(n)' = "documented"
    BY <1>2, <2>1, <2>3 DEF Promise!Next, Promise!Document, Promise!Known, Promise!Becomes
  <2>4. CASE Fate(n) # "absent" /\ Fate(n)' = "evidenced"
    BY <1>2, <2>1, <2>4 DEF Promise!Next, Promise!Settle, Promise!Known, Promise!Becomes
  <2>5. CASE Fate(n) = "declared" /\ Fate(n)' \in {"evidenced", "transported"}
    BY <1>2, <2>1, <2>5 DEF Promise!Next, Promise!Substantiate, Promise!Becomes
  <2> QED
    BY <1>2, <2>2, <2>3, <2>4, <2>5 DEF Moves
<1> QED
  BY <1>1, <1>2

(* So is an obligation with its heir.                                      *)
LEMMA TwoFates ==
  ASSUME NEW n \in 1..MaxNodes, NEW new \in 1..MaxNodes, n # new,
         \A m : m \notin {n, new} => Fate(m)' = Fate(m),
         Fate(n) # "absent", Fate(n)' = "transported",
         Fate(new) = "absent", Fate(new)' = "open"
  PROVE  [Promise!Next]_Fates
<1>1. Fates[n] = Fate(n) /\ Fates[new] = "absent"
      /\ Fates' = [Fates EXCEPT ![n] = "transported", ![new] = "open"]
  BY DEF Fates
<1> QED
  BY <1>1 DEF Promise!Next, Promise!Transport, Promise!Known

(* Settle leaves nodes and edges, and with them the fates.                 *)
LEMMA FatesBefore ==
  ASSUME IInv
  PROVE  /\ Before \in Graph /\ Before.nodes = graph.nodes /\ Before.edges = graph.edges
         /\ NodeIds(Before) = NodeIds(graph)
         /\ \A n : Fate(n) = FateOf(Before, Declared, n)
<1>1. Before \in Graph /\ Before.nodes = graph.nodes /\ Before.edges = graph.edges
  BY SettleSound DEF IInv, Before, Improves, Sound
<1>2. NodeIds(Before) = NodeIds(graph)
  BY <1>1 DEF NodeIds
<1>3. \A n : Accountable(Before, n) <=> Accountable(graph, n)
  BY <1>1, <1>2 DEF Accountable, EvidenceFor, HasTransport
<1>4. \A n : IsEvidence(Before, n) <=> IsEvidence(graph, n)
  BY <1>1, <1>2 DEF IsEvidence
<1>5. ASSUME NEW n PROVE Fate(n) = FateOf(Before, Declared, n)
  <2>1. FateOf(Before, Declared, n) = FateOf(graph, Declared, n)
    BY <1>1, <1>2, <1>3, <1>4, FateTells, BeforeSound DEF IInv
  <2> QED
    BY <2>1, FateIs
<1> QED
  BY <1>1, <1>2, <1>5

(* What is known of the fates in the result of an operation.               *)
LEMMA FatesAfter ==
  ASSUME NEW result, Returns(result)
  PROVE  \A n : Fate(n)' = FateOf(result.graph, Declared, n)
<1>1. graph' = result.graph /\ Declared' = Declared
  BY DEF Returns, Declared
<1> QED
  BY <1>1, FateWillBe

(* An operation that moves one fate, at most.                              *)
LEMMA OneFateReturns ==
  ASSUME IInv, NEW result, Returns(result), NEW n,
         \A m : m # n => FateOf(result.graph, Declared, m) = FateOf(Before, Declared, m),
         Moves(FateOf(Before, Declared, n), FateOf(result.graph, Declared, n))
  PROVE  [Promise!Next]_Fates
  BY FatesBefore, FatesAfter, OneFate

(* Every step of the graph is one of AccountableObligations, or none.      *)
LEMMA StepImplements ==
  ASSUME IInv, [Next]_vars
  PROVE  [Promise!Next]_Fates
<1>1. Sound(Before, Declared) /\ Before \in Graph /\ \A f : Moves(f, f)
  BY BeforeSound DEF Sound, Moves
<1> USE EvidenceListsTyped
<1>2. CASE AddObligation
  <2>1. PICK node \in NewNodes : Returns(Ok(AddNode(Before, node)))
    BY <1>2 DEF AddObligation
  <2>2. node \in Fresh
    BY CallersAssumption DEF Fresh
  <2> QED
    BY <1>1, <2>1, <2>2, AddMoves, OneFateReturns DEF Ok
<1>3. CASE AddEvidenceNode
  <2>1. EvidenceNode \in Fresh
    BY DEF EvidenceNode, Fresh, Node, ObligationKinds, ObligationStatuses, Severities,
           Sources, Explanations
  <2> QED
    BY <1>1, <1>3, <2>1, AddMoves, OneFateReturns DEF AddEvidenceNode, AddEvidence, Ok
<1>4. CASE Relate
  <2>1. PICK s \in Ids, t \in Ids, r \in NewRelations : Returns(AddEdge(Before, s, t, r))
    BY <1>4 DEF Relate
  <2>2. CASE EdgeAccepted(Before, s, t, r)
    <3>1. r \in Relations
      BY CallersAssumption
    <3> QED
      BY <1>1, <2>1, <2>2, <3>1, EdgeMoves, OneFateReturns
  <2>3. CASE ~EdgeAccepted(Before, s, t, r)
    <3>1. AddEdge(Before, s, t, r).graph = Before
      BY <2>3 DEF AddEdge, Raised
    <3> QED
      BY <1>1, <2>1, <3>1, OneFateReturns
  <2> QED
    BY <2>2, <2>3
<1>5. CASE DischargeNode
  <2>1. PICK n \in Ids, ev \in EvidenceLists : Returns(Discharge(Before, n, ev))
    BY <1>5 DEF DischargeNode
  <2>2. SetsAtMost(Before, Discharge(Before, n, ev), n, {"DISCHARGED"})
    BY <1>1, DischargeShape
  <2>3. {"DISCHARGED"} \in SUBSET ObligationStatuses
    BY DEF ObligationStatuses
  <2> QED
    BY <1>1, <2>1, <2>2, <2>3, DischargeSound, SetMoves, OneFateReturns
<1>6. CASE RefuteNode
  <2>1. PICK n \in Ids, ev \in EvidenceLists : Returns(Refute(Before, n, ev))
    BY <1>6 DEF RefuteNode
  <2>2. SetsAtMost(Before, Refute(Before, n, ev), n, {"REFUTED"})
    BY <1>1, RefuteShape
  <2>3. {"REFUTED"} \in SUBSET ObligationStatuses
    BY DEF ObligationStatuses
  <2> QED
    BY <1>1, <2>1, <2>2, <2>3, RefuteSound, SetMoves, OneFateReturns
<1>7. CASE DeferNode
  <2>1. PICK n \in Ids, why \in Reasons : Returns(Defer(Before, n, why))
    BY <1>7 DEF DeferNode
  <2>2. why \in {"reason", "reason+retry"} /\ {"DEFERRED"} \in SUBSET ObligationStatuses
    BY CallersAssumption DEF ObligationStatuses
  <2> QED
    BY <1>1, <2>1, <2>2, ExplainShape, DeferSound, SetMoves, OneFateReturns
<1>8. CASE EscalateNode
  <2>1. PICK n \in Ids : Returns(Escalate(Before, n, "reason"))
    BY <1>8 DEF EscalateNode
  <2>2. {"ESCALATED"} \in SUBSET ObligationStatuses
    BY DEF ObligationStatuses
  <2> QED
    BY <1>1, <2>1, <2>2, ExplainShape, EscalateSound, SetMoves, OneFateReturns
<1>9. CASE TransferNode
  <2>1. PICK n \in Ids, r \in TransferRelations : Returns(Transfer(Before, n, r))
    BY <1>9 DEF TransferNode
  <2> DEFINE h == Transfer(Before, n, r).graph
  <2>2. Len(Before.nodes) \in Nat
    BY <1>1, GraphTyped
  <2>3. PICK new \in Nat : new = Len(Before.nodes) + 1
    BY <2>2
  <2>4. r \in {"REFINES", "TRANSFERS", "DECOMPOSES"}
    BY CallersAssumption
  <2>5. \/ h = Before
        \/ /\ \A m : m # new => FateOf(h, Declared, m) = FateOf(Before, Declared, m)
           /\ Moves(FateOf(Before, Declared, new), FateOf(h, Declared, new))
        \/ n \in NodeIds(Before) /\ Transports(Before, h, Declared, n, new)
    BY <1>1, <2>4, <2>3, TransferMoves
  <2>6. CASE h = Before
    BY <1>1, <2>1, <2>6, OneFateReturns
  <2>7. CASE /\ \A m : m # new => FateOf(h, Declared, m) = FateOf(Before, Declared, m)
             /\ Moves(FateOf(Before, Declared, new), FateOf(h, Declared, new))
    BY <2>1, <2>7, OneFateReturns
  <2>8. CASE n \in NodeIds(Before) /\ Transports(Before, h, Declared, n, new)
    <3>1. new \in 1..MaxNodes /\ n \in 1..MaxNodes /\ n # new
      <4>1. Len(Before.nodes) < MaxNodes /\ MaxNodes \in Nat
        BY <1>9, FatesBefore, CallersAssumption DEF TransferNode, RoomForNode
      <4> QED
        BY <2>8, <2>2, <2>3, <4>1 DEF NodeIds
    <3> HIDE DEF h
    <3>2. /\ \A m : Fate(m) = FateOf(Before, Declared, m)
          /\ \A m : Fate(m)' = FateOf(h, Declared, m)
      BY <2>1, FatesBefore, FatesAfter DEF h
    <3>3. CASE Fate(n) = "absent" /\ Fate(n)' = "absent" /\ Fate(new) = "absent"
               /\ Fate(new)' = "absent"
      <4>1. \A m : Fate(m)' = Fate(m)
        BY <2>8, <3>2, <3>3 DEF Transports
      <4> QED
        BY <1>1, <4>1, OneFate
    <3>4. CASE Fate(n) # "absent" /\ Fate(n)' = "transported" /\ Fate(new) = "absent"
               /\ Fate(new)' = "open"
      BY <2>8, <3>1, <3>2, <3>4, TwoFates DEF Transports
    <3>5. /\ Fate(n) = FateOf(Before, Declared, n) /\ Fate(n)' = FateOf(h, Declared, n)
          /\ Fate(new) = FateOf(Before, Declared, new) /\ Fate(new)' = FateOf(h, Declared, new)
      BY <3>2
    <3> QED
      BY <2>8, <3>3, <3>4, <3>5 DEF Transports
  <2> QED
    BY <2>5, <2>6, <2>7, <2>8
<1>10. CASE UNCHANGED vars
  <2>1. \A m : Fate(m)' = Fate(m)
    BY <1>10, FateIs, FateWillBe DEF vars, Declared
  <2> QED
    BY <1>1, <2>1, OneFate
<1> QED
  BY <1>2, <1>3, <1>4, <1>5, <1>6, <1>7, <1>8, <1>9, <1>10 DEF Next

(* from_task settles nothing: what a task declares settled has no support. *)
LEMMA InitImplements ==
  ASSUME Init PROVE Promise!Init
<1>1. TaskFields(task) /\ graph = FromTask(task) /\ Declared = DeclaredIds(task)
  BY TasksAssumption DEF Init, TaskFields, Declared
<1>2. /\ Sound(graph, Declared) /\ 1 \notin Declared
      /\ \A e \in graph.edges : e.target = 1
      /\ \A n \in NodeIds(graph) : n \in Declared \/ graph.nodes[n] \in Fresh
  BY <1>1, FromTaskSound DEF FromTheTask
<1>3. ASSUME NEW n \in 1..MaxNodes
      PROVE  Fate(n) \in {"absent", "declared", "open", "acknowledged", "documented"}
  <2>1. CASE n \notin NodeIds(graph) \/ IsEvidence(graph, n) \/ ~Accountable(graph, n)
    BY <1>2, <2>1, FateIs, FateTells
  <2>2. CASE n \in NodeIds(graph) /\ ~IsEvidence(graph, n) /\ Accountable(graph, n)
    <3>1. Fate(n) = Supported(graph.nodes[n].status)
      BY <1>2, <2>2, FateIs, FateTells
    <3>2. graph.nodes[n].status \in {"OPEN", "ACKNOWLEDGED", "DEFERRED", "ESCALATED"}
      <4>1. CASE graph.nodes[n] \in Fresh
        BY <2>2, <4>1 DEF Fresh, IsEvidence
      <4>2. CASE n \in Declared
        <5>1. EvidenceFor(graph, n) = {} /\ ~HasTransport(graph, n)
          BY <1>2, <4>2 DEF EvidenceFor, HasTransport, Edge
        <5>2. graph.nodes[n].status \in ObligationStatuses
          BY <1>2, <2>2, GraphTyped DEF Sound, Node
        <5> QED
          BY <2>2, <5>1, <5>2 DEF Accountable, IsEvidence, ObligationStatuses
      <4> QED
        BY <1>2, <2>2, <4>1, <4>2
    <3> QED
      BY <3>1, <3>2 DEF Supported
  <2> QED
    BY <2>1, <2>2
<1> QED
  BY <1>3 DEF Promise!Init, Fates

(* The conservation law of README.md: from any task and through any calls, *)
(* raising ones included, an obligation's fate changes only as it says.    *)
THEOREM GraphKeepsPromise == Spec => ImplementsPromise
<1>1. Init => Promise!Init
  BY InitImplements
<1>2. IInv /\ [Next]_vars => [Promise!Next]_Fates
  BY StepImplements
<1> QED
  BY <1>1, <1>2, Invariance, PTL DEF Spec, ImplementsPromise, Promise!Spec

(* An operation that raises leaves the status of every node that was there,*)
(* however many edges of its loop it has added: what Pipeline relies on    *)
(* when an exception ends a stage.                                         *)
THEOREM RaisingIsHarmless == Spec => RaisingSettlesNothing
<1>1. ASSUME IInv, Next, ~ok', NEW n \in NodeIds(graph)
      PROVE  graph'.nodes[n] = graph.nodes[n]
  <2>1. /\ Before \in Graph /\ Before.nodes = graph.nodes
        /\ Before.nodes \in Seq(Node) /\ NodeIds(Before) = NodeIds(graph)
    BY <1>1, FatesBefore, GraphTyped
  <2> USE <1>1, <2>1, EvidenceListsTyped DEF Returns
  <2>2. ~AddObligation /\ ~AddEvidenceNode
    BY DEF AddObligation, AddEvidenceNode, Ok
  <2>3. CASE Relate
    BY <2>3 DEF Relate, AddEdge, Raised, Ok
  <2>4. CASE DischargeNode
    <3>1. PICK m \in Ids, ev \in EvidenceLists : Returns(Discharge(Before, m, ev))
      BY <2>4 DEF DischargeNode
    <3>2. \E statuses : SetsAtMost(Before, Discharge(Before, m, ev), m, statuses)
      BY DischargeShape
    <3> QED
      BY <3>1, <3>2 DEF SetsAtMost
  <2>5. CASE RefuteNode
    <3>1. PICK m \in Ids, ev \in EvidenceLists : Returns(Refute(Before, m, ev))
      BY <2>5 DEF RefuteNode
    <3>2. \E statuses : SetsAtMost(Before, Refute(Before, m, ev), m, statuses)
      BY RefuteShape
    <3> QED
      BY <3>1, <3>2 DEF SetsAtMost
  <2>6. CASE DeferNode
    <3>1. PICK m \in Ids, why \in Reasons : Returns(Defer(Before, m, why))
      BY <2>6 DEF DeferNode
    <3>2. \E statuses : SetsAtMost(Before, Defer(Before, m, why), m, statuses)
      BY ExplainShape, CallersAssumption
    <3> QED
      BY <3>1, <3>2 DEF SetsAtMost
  <2>7. CASE EscalateNode
    <3>1. PICK m \in Ids : Returns(Escalate(Before, m, "reason"))
      BY <2>7 DEF EscalateNode
    <3>2. \E statuses : SetsAtMost(Before, Escalate(Before, m, "reason"), m, statuses)
      BY ExplainShape
    <3> QED
      BY <3>1, <3>2 DEF SetsAtMost
  <2>8. CASE TransferNode
    <3>1. PICK m \in Ids, r \in TransferRelations : Returns(Transfer(Before, m, r))
      BY <2>8 DEF TransferNode
    <3> DEFINE heir == [Before.nodes[m] EXCEPT !.status = "OPEN", !.source = "shape_transform",
                                               !.why = "none"]
    <3>2. \/ graph' = Before
          \/ graph' = AddNode(Before, heir) /\ m \in NodeIds(Before)
      BY <3>1 DEF Transfer, AddEdge, Raised, Ok
    <3>3. m \in NodeIds(Before) => heir \in Node
      <4>1. m \in NodeIds(Before) => Before.nodes[m] \in Node
        BY GraphTyped
      <4> QED
        BY <4>1 DEF Node, ObligationStatuses, Sources, Explanations
    <3> HIDE DEF heir
    <3>4. m \in NodeIds(Before) => AddNode(Before, heir).nodes[n] = Before.nodes[n]
      <4> SUFFICES ASSUME m \in NodeIds(Before)
                   PROVE  AddNode(Before, heir).nodes[n] = Before.nodes[n]
        OBVIOUS
      <4>1. AddNode(Before, heir).nodes = Append(Before.nodes, heir)
        BY <2>1, AddNodeShape
      <4>2. n \in 1..Len(Before.nodes)
        BY <2>1 DEF NodeIds
      <4>3. Before.nodes \in Seq(Node) /\ heir \in Node
        BY <2>1, <3>3
      <4> QED
        BY <4>1, <4>2, <4>3, AppendProperties
    <3> QED
      BY <3>2, <3>4
  <2> QED
    BY <2>2, <2>3, <2>4, <2>5, <2>6, <2>7, <2>8 DEF Next
<1>2. IInv /\ [Next]_vars
        => [~ok' => \A n \in NodeIds(graph) : graph'.nodes[n].status = graph.nodes[n].status]_vars
  BY <1>1
<1> QED
  BY <1>2, Invariance, PTL DEF Spec, RaisingSettlesNothing

(* The ids of declared obligations are those of nodes, and stay so.        *)
LEMMA DeclaredExist == Spec => [](Declared \subseteq NodeIds(graph))
<1>1. Init => Declared \subseteq NodeIds(graph)
  <2> SUFFICES ASSUME Init PROVE Declared \subseteq NodeIds(graph)
    OBVIOUS
  <2>1. TaskFields(task) /\ graph = FromTask(task) /\ Declared = DeclaredIds(task)
    BY TasksAssumption DEF Init, TaskFields, Declared
  <2> QED
    BY <2>1, FromTaskSound
<1>2. IInv /\ Declared \subseteq NodeIds(graph) /\ [Next]_vars
        => (Declared \subseteq NodeIds(graph))'
  <2> SUFFICES ASSUME IInv, Declared \subseteq NodeIds(graph), [Next]_vars
               PROVE  Declared' \subseteq NodeIds(graph')
    OBVIOUS
  <2>1. task' = task
    BY DEF Next, vars, Returns, AddObligation, AddEvidenceNode, Relate, DischargeNode,
           RefuteNode, DeferNode, EscalateNode, TransferNode
  <2>2. Declared' = Declared
    BY <2>1 DEF Declared
  <2>3. Len(graph.nodes) <= Len(graph'.nodes) /\ IInv'
    BY StepSound DEF Keeps, Grown
  <2>4. Len(graph.nodes) \in Nat /\ Len(graph'.nodes) \in Nat
    BY <2>3, GraphTyped DEF IInv, TypeOK
  <2>5. NodeIds(graph) \subseteq NodeIds(graph')
    BY <2>3, <2>4 DEF NodeIds
  <2> QED
    BY <2>2, <2>5
<1> QED
  BY <1>1, <1>2, Invariance, PTL DEF Spec

(* A conserved graph that grew from one that may be released may be        *)
(* released as well, unless a duty is new in it or set to be unsettled.    *)
LEMMA ReleaseGrows ==
  ASSUME NEW g \in Graph, NEW h \in Graph, Grown(g, h), VerifyConservation(h),
         PromotionAllowed(g, "RELEASED"),
         \A n \in NodeIds(h) : h.nodes[n].blocking /\ h.nodes[n].status \notin Settled
           => n \in NodeIds(g) /\ h.nodes[n].status = g.nodes[n].status
  PROVE  PromotionAllowed(h, "RELEASED")
<1>1. /\ NodeIds(g) \subseteq NodeIds(h)
      /\ \A n \in NodeIds(g) : /\ h.nodes[n].kind = g.nodes[n].kind
                               /\ h.nodes[n].severity = g.nodes[n].severity
                               /\ h.nodes[n].blocking = g.nodes[n].blocking
  <2>1. Len(g.nodes) \in Nat /\ Len(h.nodes) \in Nat
    BY GraphTyped
  <2> QED
    BY <2>1 DEF Grown, Identity, NodeIds
<1>2. Blockers(h) = {}
  <2> SUFFICES ASSUME NEW n \in Blockers(h) PROVE n \in Blockers(g)
    BY DEF PromotionAllowed
  <2>1. /\ n \in NodeIds(h) /\ h.nodes[n].blocking /\ h.nodes[n].kind # "EVIDENCE"
        /\ h.nodes[n].status \in Unresolved /\ h.nodes[n].severity \in {"HIGH", "CRITICAL"}
    BY DEF Blockers, ActiveIds
  <2>2. n \in NodeIds(g) /\ h.nodes[n].status = g.nodes[n].status
    BY <2>1 DEF Settled, Unresolved
  <2> QED
    BY <1>1, <2>1, <2>2 DEF Blockers, ActiveIds
<1>3. \A kind : Find(g, kind) \subseteq Find(h, kind)
  BY <1>1 DEF Find
<1>4. MissingKinds(h, "RELEASED") = {}
  <2> SUFFICES ASSUME NEW kind \in MissingKinds(h, "RELEASED")
               PROVE  kind \in MissingKinds(g, "RELEASED")
    BY DEF PromotionAllowed
  <2>1. CASE Find(h, kind) = {}
    BY <1>3, <2>1 DEF MissingKinds
  <2>2. CASE Find(h, kind) # {}
    <3>1. PICK n \in Find(h, kind) : h.nodes[n].blocking /\ h.nodes[n].status \notin Settled
      BY <2>2 DEF MissingKinds, Settled
    <3>2. n \in Find(g, kind) /\ h.nodes[n].status = g.nodes[n].status
      BY <1>1, <3>1 DEF Find
    <3> QED
      BY <1>1, <3>1, <3>2 DEF MissingKinds, Settled, Find
  <2> QED
    BY <2>1, <2>2
<1> QED
  BY <1>2, <1>3, <1>4 DEF PromotionAllowed

(* promotion_decision: what may be released can be refused again only for a*)
(* duty that is new or was put aside: every operation, raising ones too,   *)
(* keeps the rest of what the decision asks for, conservation included.    *)
THEOREM ReleaseStays == Spec => ReleaseIsKept
<1> DEFINE Kept == PromotionAllowed(graph, "RELEASED") /\ ~PromotionAllowed(graph', "RELEASED") =>
                     \E n \in NodeIds(graph') :
                       /\ graph'.nodes[n].blocking /\ graph'.nodes[n].status \notin Settled
                       /\ n \in NodeIds(graph) => graph'.nodes[n].status # graph.nodes[n].status
<1>1. ASSUME IInv, Declared \subseteq NodeIds(graph), [Next]_vars
      PROVE  Kept
  <2>1. IInv' /\ Keeps(graph, graph')
    BY <1>1, StepSound
  <2>2. SUFFICES ASSUME PromotionAllowed(graph, "RELEASED"),
                        \A n \in NodeIds(graph') :
                          graph'.nodes[n].blocking /\ graph'.nodes[n].status \notin Settled
                            => n \in NodeIds(graph) /\ graph'.nodes[n].status = graph.nodes[n].status
                 PROVE  PromotionAllowed(graph', "RELEASED")
    OBVIOUS
  <2>3. graph \in Graph /\ graph' \in Graph /\ Sound(graph', Declared') /\ Declared' = Declared
    <3>1. task' = task
      BY <1>1 DEF Next, vars, Returns, AddObligation, AddEvidenceNode, Relate, DischargeNode,
             RefuteNode, DeferNode, EscalateNode, TransferNode
    <3>2. graph \in Graph /\ graph' \in Graph /\ Sound(graph', Declared')
      BY <1>1, <2>1 DEF IInv, TypeOK
    <3> QED
      BY <3>1, <3>2 DEF Declared
  <2>4. \A n \in NodeIds(graph') : Accountable(graph', n)
    <3> SUFFICES ASSUME NEW n \in NodeIds(graph') PROVE Accountable(graph', n)
      OBVIOUS
    <3>1. CASE n \in NodeIds(graph)
      BY <2>1, <2>2, <3>1 DEF PromotionAllowed, VerifyConservation, Conserved, Keeps
    <3>2. CASE n \notin NodeIds(graph)
      BY <1>1, <2>3, <3>2 DEF Sound, Conserved
    <3> QED
      BY <3>1, <3>2
  <2>5. VerifyConservation(graph')
    BY <2>3, <2>4 DEF VerifyConservation, Sound, Conserved
  <2> QED
    BY <2>1, <2>2, <2>3, <2>5, ReleaseGrows DEF Keeps
<1>2. IInv /\ Declared \subseteq NodeIds(graph) /\ [Next]_vars => [Kept]_vars
  BY <1>1
<1> QED
  BY <1>2, Invariance, DeclaredExist, PTL DEF Spec, ReleaseIsKept

-----------------------------------------------------------------------------
(* What the events of an operation explain.                                *)

(* The events of g explain how its active set came from another one.       *)
Explained(from, g) ==
  g.recent \in Seq(Event) /\ EventsExplain(from, g.recent, ActiveIds(g))

Differ(A, B) == (A \cup B) \ (A \cap B)

(* The set that the list had reached at an event.                          *)
Reached(from, events, i) == IF i = 0 THEN from ELSE events[i].after

(* Replaying a list, event by event.                                       *)
LEMMA ReplayIs ==
  ASSUME NEW from, NEW events, NEW to
  PROVE  EventsExplain(from, events, to) <=>
           /\ \A i \in 1..Len(events) :
                Differ(Reached(from, events, i - 1), Reached(from, events, i))
                  \subseteq events[i].affected
           /\ Reached(from, events, Len(events)) = to
  BY DEF EventsExplain, Differ, Reached

(* One more event, which names what changed since the one before it.       *)
LEMMA AppendExplains ==
  ASSUME NEW from, NEW events \in Seq(Event), NEW mid, EventsExplain(from, events, mid),
         NEW event \in Event, Differ(mid, event.after) \subseteq event.affected
  PROVE  EventsExplain(from, Append(events, event), event.after)
<1> DEFINE more == Append(events, event)
           n == Len(events)
<1>1. /\ n \in Nat /\ Len(more) = n + 1 /\ more[n + 1] = event
      /\ \A i \in 1..n : more[i] = events[i]
  BY AppendProperties
<1>2. /\ \A i \in 1..n :
           Differ(Reached(from, events, i - 1), Reached(from, events, i)) \subseteq events[i].affected
      /\ Reached(from, events, n) = mid
  BY ReplayIs
<1> HIDE DEF more, n
<1>3. \A i \in 0..n : Reached(from, more, i) = Reached(from, events, i)
  BY <1>1 DEF Reached
<1>4. Reached(from, more, n + 1) = event.after
  BY <1>1 DEF Reached
<1>5. ASSUME NEW i \in 1..(n + 1)
      PROVE  Differ(Reached(from, more, i - 1), Reached(from, more, i)) \subseteq more[i].affected
  <2>1. CASE i \in 1..n
    <3>1. i \in 0..n /\ i - 1 \in 0..n
      BY <1>1, <2>1
    <3> QED
      BY <1>1, <1>2, <1>3, <2>1, <3>1
  <2>2. CASE i = n + 1
    <3>1. n \in 0..n /\ i - 1 = n
      BY <1>1, <2>2
    <3> QED
      BY <1>1, <1>2, <1>3, <1>4, <2>2, <3>1
  <2> QED
    BY <1>1, <2>1, <2>2
<1> QED
  BY <1>1, <1>4, <1>5, ReplayIs DEF more

(* Any number of events during which nothing changed.                      *)
LEMMA IdleExplains ==
  ASSUME NEW from, NEW events \in Seq(Event), NEW mid, EventsExplain(from, events, mid),
         NEW k \in Nat, NEW idle \in [1..k -> Event], \A i \in 1..k : idle[i].after = mid
  PROVE  EventsExplain(from, events \o idle, mid)
<1> DEFINE more == events \o idle
           n == Len(events)
<1>1. n \in Nat /\ idle \in Seq(Event) /\ Len(idle) = k
  BY FunctionIsSeq
<1>2. /\ Len(more) = n + k
      /\ \A i \in 1..n : more[i] = events[i]
      /\ \A i \in (n + 1)..(n + k) : more[i] = idle[i - n]
  <2>1. /\ Len(more) = n + Len(idle)
        /\ \A i \in 1..(n + Len(idle)) : more[i] = IF i <= n THEN events[i] ELSE idle[i - n]
    BY <1>1, ConcatProperties
  <2> HIDE DEF more, n
  <2>2. \A i \in 1..n : i \in 1..(n + k) /\ i <= n
    BY <1>1
  <2>3. \A i \in (n + 1)..(n + k) : i \in 1..(n + k) /\ ~(i <= n)
    BY <1>1
  <2> QED
    BY <1>1, <2>1, <2>2, <2>3
<1>3. /\ \A i \in 1..n :
           Differ(Reached(from, events, i - 1), Reached(from, events, i)) \subseteq events[i].affected
      /\ Reached(from, events, n) = mid
  BY ReplayIs
<1> HIDE DEF more, n
<1>4. \A i \in 0..n : Reached(from, more, i) = Reached(from, events, i)
  BY <1>1, <1>2 DEF Reached
<1>5. \A i \in n..(n + k) : Reached(from, more, i) = mid
  <2>1. n \in 0..n
    BY <1>1
  <2>2. Reached(from, more, n) = mid
    BY <1>3, <1>4, <2>1
  <2>3. ASSUME NEW i \in (n + 1)..(n + k) PROVE Reached(from, more, i) = mid
    <3>1. i # 0 /\ i - n \in 1..k
      BY <1>1
    <3> QED
      BY <1>2, <3>1 DEF Reached
  <2> QED
    BY <1>1, <2>2, <2>3
<1>6. ASSUME NEW i \in 1..(n + k)
      PROVE  Differ(Reached(from, more, i - 1), Reached(from, more, i)) \subseteq more[i].affected
  <2>1. CASE i \in 1..n
    <3>1. i \in 0..n /\ i - 1 \in 0..n
      BY <1>1, <2>1
    <3> QED
      BY <1>2, <1>3, <1>4, <2>1, <3>1
  <2>2. CASE i \notin 1..n
    <3>1. i \in n..(n + k) /\ i - 1 \in n..(n + k)
      BY <1>1, <2>2
    <3> QED
      BY <1>5, <3>1 DEF Differ
  <2> QED
    BY <2>1, <2>2
<1>7. n + k \in n..(n + k)
  BY <1>1
<1> QED
  BY <1>2, <1>5, <1>6, <1>7, ReplayIs DEF more

(* The event that an operation records at its end.                         *)
LEMMA RecordExplains ==
  ASSUME NEW g, Fields(g), g.recent \in Seq(Event), NEW from, NEW mid,
         EventsExplain(from, g.recent, mid), ActiveIds(g) \subseteq Nat,
         NEW operation \in Operations, NEW affected \in SUBSET Nat, NEW before \in SUBSET Nat,
         Differ(mid, ActiveIds(g)) \subseteq affected
  PROVE  Explained(from, Record(g, operation, affected, before))
<1> DEFINE event == [operation |-> operation, affected |-> affected,
                     before |-> before, after |-> ActiveIds(g)]
           h == Record(g, operation, affected, before)
<1>1. event \in Event /\ event.affected = affected /\ event.after = ActiveIds(g)
  BY DEF Event
<1>2. h.recent = Append(g.recent, event) /\ h.nodes = g.nodes
  BY DEF Record, Fields
<1> HIDE DEF event, h
<1>3. ActiveIds(h) = ActiveIds(g)
  BY <1>2 DEF ActiveIds, NodeIds
<1>4. Append(g.recent, event) \in Seq(Event)
  BY <1>1, AppendProperties
<1>5. EventsExplain(from, Append(g.recent, event), ActiveIds(g))
  BY <1>1, AppendExplains
<1> QED
  BY <1>2, <1>3, <1>4, <1>5 DEF Explained, h

(* The events of the loop over evidence_ids.                               *)
LEMMA LinkExplains ==
  ASSUME NEW g \in Graph, NEW from, Explained(from, g), NEW evidence \in Seq(Nat),
         NEW n \in Nat, NEW r, NEW k \in 0..Len(evidence)
  PROVE  LET h == LinkFirst(g, evidence, n, r, k)
         IN  Fields(h) /\ h.nodes = g.nodes /\ Explained(from, h)
<1> DEFINE h == LinkFirst(g, evidence, n, r, k)
           event(i) == [operation |-> "ADD_RELATION", affected |-> {evidence[i], n},
                        before |-> ActiveIds(g), after |-> ActiveIds(g)]
           events == [i \in 1..k |-> event(i)]
<1>1. /\ Fields(g) /\ Len(evidence) \in Nat /\ k \in Nat /\ \A i \in 1..k : evidence[i] \in Nat
      /\ ActiveIds(g) \in SUBSET Nat
  BY GraphFields, GraphTyped
<1>2. \A i \in 1..k : event(i) \in Event /\ event(i).after = ActiveIds(g)
  BY <1>1 DEF Event, Operations
<1>3. h.nodes = g.nodes /\ h.recent = g.recent \o events /\ Fields(h)
  BY <1>1 DEF LinkFirst, Fields
<1> HIDE DEF event, h
<1>4. events \in [1..k -> Event] /\ \A i \in 1..k : events[i].after = ActiveIds(g)
  BY <1>2
<1> HIDE DEF events
<1>5. g.recent \o events \in Seq(Event)
  BY <1>1, <1>4, FunctionIsSeq, ConcatProperties DEF Explained
<1>6. EventsExplain(from, g.recent \o events, ActiveIds(g))
  BY <1>1, <1>4, IdleExplains DEF Explained
<1>7. ActiveIds(h) = ActiveIds(g)
  BY <1>3 DEF ActiveIds, NodeIds
<1> QED
  BY <1>3, <1>5, <1>6, <1>7 DEF Explained, h

(* A status that is set moves no other node in or out of the active set.   *)
LEMMA StatusActive ==
  ASSUME NEW g, Fields(g), g.nodes \in Seq(Node), NEW n \in NodeIds(g),
         NEW status \in ObligationStatuses, NEW why \in Explanations
  PROVE  LET h == SetStatus(g, n, status, why)
         IN  /\ Fields(h) /\ h.recent = g.recent
             /\ Differ(ActiveIds(g), ActiveIds(h)) \subseteq {n}
             /\ ActiveIds(h) \subseteq NodeIds(g)
<1> DEFINE h == SetStatus(g, n, status, why)
<1>1. Fields(h) /\ h.recent = g.recent /\ h.nodes = WithStatus(g.nodes, n, status, why)
  BY DEF SetStatus, Fields, WithStatus
<1>2. /\ Len(h.nodes) = Len(g.nodes)
      /\ \A m \in 1..Len(g.nodes) : m # n => h.nodes[m] = g.nodes[m]
  BY <1>1, WithStatusIs DEF NodeIds
<1> HIDE DEF h
<1> QED
  BY <1>1, <1>2 DEF ActiveIds, NodeIds, Differ, h

(* A status that is set on a graph like g, and the event that says so.     *)
LEMMA SettleExplains ==
  ASSUME NEW g, Fields(g), g.nodes \in Seq(Node), NEW from, Explained(from, g),
         NEW n \in NodeIds(g), NEW status \in ObligationStatuses, NEW why \in Explanations,
         NEW operation \in Operations, NEW affected \in SUBSET Nat, n \in affected,
         NEW before \in SUBSET Nat
  PROVE  Explained(from, Record(SetStatus(g, n, status, why), operation, affected, before))
<1> DEFINE h == SetStatus(g, n, status, why)
<1>1. /\ Fields(h) /\ h.recent = g.recent /\ Differ(ActiveIds(g), ActiveIds(h)) \subseteq affected
      /\ ActiveIds(h) \subseteq Nat
  BY StatusActive DEF NodeIds
<1> HIDE DEF h
<1>2. h.recent \in Seq(Event) /\ EventsExplain(from, h.recent, ActiveIds(g))
  BY <1>1 DEF Explained
<1> QED
  BY <1>1, <1>2, RecordExplains DEF h

(* discharge explains itself, where it returns and where it raises.        *)
LEMMA DischargeExplains ==
  ASSUME NEW g \in Graph, NEW from, Explained(from, g), NEW n \in Nat, NEW evidence \in Seq(Nat)
  PROVE  Explained(from, Discharge(g, n, evidence).graph)
<1> DEFINE stops == {i \in 1..Len(evidence) :
                   ~EdgeAccepted(LinkFirst(g, evidence, n, "DISCHARGES", i - 1),
                                 evidence[i], n, "DISCHARGES")}
           k == Completed(evidence, stops)
           linked == LinkFirst(g, evidence, n, "DISCHARGES", k)
           done == Record(SetStatus(linked, n, "DISCHARGED", "none"), "DISCHARGE_OBLIGATION",
                          {n} \cup Members(evidence), ActiveIds(g))
<1>1. k \in 0..Len(evidence)
  BY CompletedBound
<1>2. \/ Discharge(g, n, evidence).graph = g
      \/ Discharge(g, n, evidence).graph = linked
      \/ n \in NodeIds(g) /\ Discharge(g, n, evidence).graph = done
  BY DEF Discharge, Raised, Ok
<1> HIDE DEF stops, k
<1>3. Fields(linked) /\ linked.nodes = g.nodes /\ Explained(from, linked)
  BY <1>1, LinkExplains
<1>4. /\ g.nodes \in Seq(Node) /\ ActiveIds(g) \in SUBSET Nat
      /\ {n} \cup Members(evidence) \in SUBSET Nat
  BY GraphTyped DEF Members
<1>5. /\ "DISCHARGED" \in ObligationStatuses /\ "none" \in Explanations
      /\ "DISCHARGE_OBLIGATION" \in Operations
  BY DEF ObligationStatuses, Explanations, Operations
<1> HIDE DEF linked
<1>6. n \in NodeIds(g) => n \in NodeIds(linked)
  BY <1>3 DEF NodeIds
<1>7. n \in NodeIds(g) => Explained(from, done)
  BY <1>3, <1>4, <1>5, <1>6, SettleExplains
<1> QED
  BY <1>2, <1>3, <1>7

(* refute explains itself, where it returns and where it raises.           *)
LEMMA RefuteExplains ==
  ASSUME NEW g \in Graph, NEW from, Explained(from, g), NEW n \in Nat, NEW evidence \in Seq(Nat)
  PROVE  Explained(from, Refute(g, n, evidence).graph)
<1> DEFINE others == {i \in 1..Len(evidence) : ~IsEvidence(g, evidence[i])}
           k == Completed(evidence, others)
           linked == LinkFirst(g, evidence, n, "CONTRADICTS", k)
           done == Record(SetStatus(linked, n, "REFUTED", "none"), "REFUTE_OBLIGATION",
                          {n} \cup Members(evidence), ActiveIds(g))
<1>1. k \in 0..Len(evidence)
  BY CompletedBound
<1>2. \/ Refute(g, n, evidence).graph = g
      \/ Refute(g, n, evidence).graph = linked
      \/ n \in NodeIds(g) /\ Refute(g, n, evidence).graph = done
  BY DEF Refute, Raised, Ok
<1> HIDE DEF others, k
<1>3. Fields(linked) /\ linked.nodes = g.nodes /\ Explained(from, linked)
  BY <1>1, LinkExplains
<1>4. /\ g.nodes \in Seq(Node) /\ ActiveIds(g) \in SUBSET Nat
      /\ {n} \cup Members(evidence) \in SUBSET Nat
  BY GraphTyped DEF Members
<1>5. /\ "REFUTED" \in ObligationStatuses /\ "none" \in Explanations
      /\ "REFUTE_OBLIGATION" \in Operations
  BY DEF ObligationStatuses, Explanations, Operations
<1> HIDE DEF linked
<1>6. n \in NodeIds(g) => n \in NodeIds(linked)
  BY <1>3 DEF NodeIds
<1>7. n \in NodeIds(g) => Explained(from, done)
  BY <1>3, <1>4, <1>5, <1>6, SettleExplains
<1> QED
  BY <1>2, <1>3, <1>7

(* add_node: the new node is the only one that may become active.          *)
LEMMA AddNodeExplains ==
  ASSUME NEW g \in Graph, NEW from, Explained(from, g), NEW node \in Node
  PROVE  Explained(from, AddNode(g, node))
<1> DEFINE stored == [g EXCEPT !.nodes = Append(@, node)]
           operation == IF node.kind = "EVIDENCE" THEN "ADD_EVIDENCE" ELSE "CREATE_OBLIGATION"
           new == Len(g.nodes) + 1
<1>1. /\ g.nodes \in Seq(Node) /\ Len(g.nodes) \in Nat /\ ActiveIds(g) \in SUBSET Nat /\ Fields(g)
  BY GraphTyped, GraphFields
<1>2. Fields(stored) /\ stored.nodes = Append(g.nodes, node) /\ stored.recent = g.recent
  BY <1>1 DEF Fields
<1>3. /\ Len(stored.nodes) = new /\ \A i \in 1..Len(g.nodes) : stored.nodes[i] = g.nodes[i]
  BY <1>1, <1>2, AppendProperties
<1> HIDE DEF stored
<1>4. Differ(ActiveIds(g), ActiveIds(stored)) \subseteq {new} /\ ActiveIds(stored) \subseteq Nat
  BY <1>1, <1>3 DEF ActiveIds, NodeIds, Differ
<1>5. operation \in Operations /\ {new} \in SUBSET Nat
  BY <1>1 DEF Operations
<1>6. Explained(from, Record(stored, operation, {new}, ActiveIds(g)))
  BY <1>1, <1>2, <1>4, <1>5, RecordExplains DEF Explained
<1> QED
  BY <1>6 DEF AddNode, stored

(* add_edge moves nothing.                                                 *)
LEMMA AddEdgeExplains ==
  ASSUME NEW g \in Graph, NEW from, Explained(from, g), NEW s \in Nat, NEW t \in Nat, NEW r
  PROVE  /\ Explained(from, AddEdge(g, s, t, r).graph)
         /\ Fields(AddEdge(g, s, t, r).graph) /\ AddEdge(g, s, t, r).graph.nodes = g.nodes
<1> DEFINE stored == [g EXCEPT !.edges = @ \cup {Edge(s, t, r)}]
<1>1. ActiveIds(g) \in SUBSET Nat /\ Fields(g)
  BY GraphTyped, GraphFields
<1>2. Fields(stored) /\ stored.nodes = g.nodes /\ stored.recent = g.recent
  BY <1>1 DEF Fields
<1>3. \/ AddEdge(g, s, t, r).graph = g
      \/ AddEdge(g, s, t, r).graph = Record(stored, "ADD_RELATION", {s, t}, ActiveIds(g))
  BY DEF AddEdge, Ok, Raised
<1> HIDE DEF stored
<1>4. ActiveIds(stored) = ActiveIds(g) /\ "ADD_RELATION" \in Operations
  BY <1>2 DEF ActiveIds, NodeIds, Operations
<1>5. Explained(from, Record(stored, "ADD_RELATION", {s, t}, ActiveIds(g)))
  BY <1>1, <1>2, <1>4, RecordExplains DEF Explained, Differ
<1>6. LET h == Record(stored, "ADD_RELATION", {s, t}, ActiveIds(g))
      IN  Fields(h) /\ h.nodes = g.nodes
  BY <1>2, RecordShape
<1> QED
  BY <1>1, <1>3, <1>5, <1>6

(* transfer, with the events of the heir and of the edge to it.            *)
LEMMA TransferExplains ==
  ASSUME NEW g, NEW exempt, Sound(g, exempt), NEW from, Explained(from, g), NEW n \in Nat,
         NEW r \in {"REFINES", "TRANSFERS", "DECOMPOSES"}
  PROVE  Explained(from, Transfer(g, n, r).graph)
<1> DEFINE new == Len(g.nodes) + 1
           heir == [g.nodes[n] EXCEPT !.status = "OPEN", !.source = "shape_transform", !.why = "none"]
           added == AddNode(g, heir)
           linked == AddEdge(added, new, n, r)
           done == Record(SetStatus(linked.graph, n, "TRANSFERRED", "none"),
                          "TRANSFER_OBLIGATION", {n, new}, ActiveIds(g))
<1>1. \/ Transfer(g, n, r).graph = g
      \/ n \in NodeIds(g) /\ Transfer(g, n, r).graph = linked.graph
      \/ n \in NodeIds(g) /\ Transfer(g, n, r).graph = done
  BY DEF Transfer, Raised, Ok
<1>2. SUFFICES ASSUME n \in NodeIds(g)
               PROVE  Explained(from, linked.graph) /\ Explained(from, done)
  BY <1>1
<1>3. g \in Graph /\ g.nodes[n] \in Node /\ new \in Nat /\ ActiveIds(g) \in SUBSET Nat
  BY <1>2, GraphTyped DEF Sound
<1>4. heir \in Fresh /\ heir \in Node
  BY <1>3 DEF Fresh, Node, ObligationStatuses, Sources, Explanations
<1> HIDE DEF heir
<1>5. Explained(from, added)
  BY <1>3, <1>4, AddNodeExplains
<1>6. added \in Graph /\ added.nodes \in Seq(Node) /\ NodeIds(added) = 1..new
  BY <1>4, AddNodeSound, GraphTyped DEF NodeIds, Improves, Sound
<1> HIDE DEF added
<1>7. Explained(from, linked.graph) /\ Fields(linked.graph) /\ linked.graph.nodes = added.nodes
  BY <1>3, <1>5, <1>6, AddEdgeExplains
<1> HIDE DEF linked
<1>8. n \in NodeIds(linked.graph)
  BY <1>2, <1>3, <1>6, <1>7 DEF NodeIds
<1>9. /\ "TRANSFERRED" \in ObligationStatuses /\ "none" \in Explanations
      /\ "TRANSFER_OBLIGATION" \in Operations /\ {n, new} \in SUBSET Nat
  BY <1>3 DEF ObligationStatuses, Explanations, Operations
<1> HIDE DEF new
<1>10. Explained(from, done)
  BY <1>3, <1>6, <1>7, <1>8, <1>9, SettleExplains
<1> QED
  BY <1>7, <1>10

(* defer and escalate.                                                     *)
LEMMA ReasonExplains ==
  ASSUME NEW g \in Graph, NEW from, Explained(from, g), NEW n \in Nat, NEW why \in Explanations
  PROVE  Explained(from, Defer(g, n, why).graph) /\ Explained(from, Escalate(g, n, why).graph)
<1>1. g.nodes \in Seq(Node) /\ ActiveIds(g) \in SUBSET Nat /\ Fields(g) /\ {n} \in SUBSET Nat
  BY GraphTyped, GraphFields
<1>2. /\ {"DEFERRED", "ESCALATED"} \subseteq ObligationStatuses
      /\ {"DEFER_OBLIGATION", "ESCALATE_OBLIGATION"} \subseteq Operations
  BY DEF ObligationStatuses, Operations
<1>3. n \in NodeIds(g) =>
        /\ Explained(from, Record(SetStatus(g, n, "DEFERRED", why),
                                  "DEFER_OBLIGATION", {n}, ActiveIds(g)))
        /\ Explained(from, Record(SetStatus(g, n, "ESCALATED", why),
                                  "ESCALATE_OBLIGATION", {n}, ActiveIds(g)))
  BY <1>1, <1>2, SettleExplains
<1> QED
  BY <1>3 DEF Defer, Escalate, Ok, Raised

(* What an operation starts from has no events to explain.                 *)
LEMMA BeforeExplained ==
  ASSUME IInv
  PROVE  Before \in Graph /\ Explained(ActiveIds(graph), Before)
<1>1. Before \in Graph /\ Before.nodes = graph.nodes /\ graph \in Graph
  BY FatesBefore DEF IInv, TypeOK
<1>2. Before.recent = << >>
  BY <1>1 DEF Before, Settle, Graph
<1>3. << >> \in Seq(Event) /\ Len(<< >>) = 0
  BY EmptySeq
<1>4. EventsExplain(ActiveIds(graph), << >>, ActiveIds(graph))
  BY <1>3, ReplayIs DEF Reached
<1>5. ActiveIds(Before) = ActiveIds(graph)
  BY <1>1 DEF ActiveIds, NodeIds
<1> QED
  BY <1>1, <1>2, <1>3, <1>4, <1>5 DEF Explained

(* Whatever is called, and wherever it raises, the events it records name  *)
(* every obligation that entered or left the active set meanwhile.         *)
THEOREM EventsTellActiveSet == Spec => ActiveSetExplained
<1>1. ASSUME IInv, Next
      PROVE  EventsExplain(ActiveIds(graph), graph'.recent, ActiveIds(graph'))
  <2> DEFINE from == ActiveIds(graph)
  <2>1. Before \in Graph /\ Explained(from, Before) /\ Sound(Before, Declared)
    BY <1>1, BeforeExplained, BeforeSound
  <2> HIDE DEF from
  <2> SUFFICES Explained(from, graph')
    BY DEF Explained, from
  <2> USE <1>1, <2>1, EvidenceListsTyped
  <2>2. CASE AddObligation
    <3>1. PICK node \in NewNodes : graph' = AddNode(Before, node)
      BY <2>2 DEF AddObligation, Returns, Ok
    <3>2. node \in Node
      BY CallersAssumption
    <3> QED
      BY <3>1, <3>2, AddNodeExplains
  <2>3. CASE AddEvidenceNode
    <3>1. graph' = AddNode(Before, EvidenceNode)
      BY <2>3 DEF AddEvidenceNode, Returns, Ok, AddEvidence
    <3>2. EvidenceNode \in Node
      BY DEF EvidenceNode, Node, ObligationKinds, ObligationStatuses, Severities,
             Sources, Explanations
    <3> QED
      BY <3>1, <3>2, AddNodeExplains
  <2>4. CASE Relate
    <3>1. PICK s \in Ids, t \in Ids, r \in NewRelations : graph' = AddEdge(Before, s, t, r).graph
      BY <2>4 DEF Relate, Returns
    <3> QED
      BY <3>1, AddEdgeExplains
  <2>5. CASE DischargeNode
    <3>1. PICK n \in Ids, ev \in EvidenceLists : graph' = Discharge(Before, n, ev).graph
      BY <2>5 DEF DischargeNode, Returns
    <3> QED
      BY <3>1, DischargeExplains
  <2>6. CASE RefuteNode
    <3>1. PICK n \in Ids, ev \in EvidenceLists : graph' = Refute(Before, n, ev).graph
      BY <2>6 DEF RefuteNode, Returns
    <3> QED
      BY <3>1, RefuteExplains
  <2>7. CASE DeferNode
    <3>1. PICK n \in Ids, why \in Reasons : graph' = Defer(Before, n, why).graph
      BY <2>7 DEF DeferNode, Returns
    <3>2. n \in Nat /\ why \in Explanations
      BY CallersAssumption DEF Explanations
    <3> QED
      BY <3>1, <3>2, ReasonExplains
  <2>8. CASE EscalateNode
    <3>1. PICK n \in Ids : graph' = Escalate(Before, n, "reason").graph
      BY <2>8 DEF EscalateNode, Returns
    <3>2. n \in Nat /\ "reason" \in Explanations
      BY DEF Explanations
    <3> QED
      BY <3>1, <3>2, ReasonExplains
  <2>9. CASE TransferNode
    <3>1. PICK n \in Ids, r \in TransferRelations : graph' = Transfer(Before, n, r).graph
      BY <2>9 DEF TransferNode, Returns
    <3>2. n \in Nat /\ r \in {"REFINES", "TRANSFERS", "DECOMPOSES"}
      BY CallersAssumption
    <3> QED
      BY <3>1, <3>2, TransferExplains
  <2> QED
    BY <2>2, <2>3, <2>4, <2>5, <2>6, <2>7, <2>8, <2>9 DEF Next
<1>2. IInv /\ [Next]_vars
        => [EventsExplain(ActiveIds(graph), graph'.recent, ActiveIds(graph'))]_vars
  BY <1>1
<1> QED
  BY <1>2, Invariance, PTL DEF Spec, ActiveSetExplained

=============================================================================
