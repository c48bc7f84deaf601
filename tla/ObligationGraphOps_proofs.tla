------------------------ MODULE ObligationGraphOps_proofs ------------------------
(***************************************************************************)
(* Facts about the operators of ObligationGraphOps, for any graph: what    *)
(* each operation keeps of a sound graph, which node it may touch, and that*)
(* the graph of a task is sound.  The proofs about the graph by itself     *)
(* (ObligationGraph_proofs) and about a run that builds one                *)
(* (Pipeline_proofs) rest on them.                                         *)
(***************************************************************************)
EXTENDS ObligationGraphOps, SequenceTheorems, WellFoundedInduction, TLAPS

Edges == [source: Nat, target: Nat, relation: Relations]

(* A sound graph: typed, conserved and acyclic.  This is the inductive     *)
(* invariant: conservation alone is not inductive, for an operation looks  *)
(* its arguments up in a typed graph.                                      *)
Sound(g, exempt) ==
  /\ g \in Graph
  /\ Conserved(g, exempt)
  /\ ~Cyclic(g.edges)

(* h is a later state of the graph g: nothing is erased.                   *)
Grown(g, h) ==
  /\ Len(g.nodes) <= Len(h.nodes)
  /\ g.edges \subseteq h.edges
  /\ \A n \in NodeIds(g) : Identity(h.nodes[n]) = Identity(g.nodes[n])

(* ... and no accountable node has lost its accountability.                *)
Keeps(g, h) ==
  /\ Grown(g, h)
  /\ \A n \in NodeIds(g) : Accountable(g, n) => Accountable(h, n)

Improves(g, h, exempt) == Keeps(g, h) /\ Sound(h, exempt)

-----------------------------------------------------------------------------

(* The types of the parts of a graph.                                      *)
LEMMA GraphTyped ==
  ASSUME NEW g \in Graph
  PROVE  /\ g.nodes \in Seq(Node)
         /\ Len(g.nodes) \in Nat
         /\ \A n \in NodeIds(g) : g.nodes[n] \in Node
         /\ g.edges \in SUBSET Edges
         /\ g.recent \in Seq(Event)
         /\ g.mentioned \in SUBSET Nat
         /\ ActiveIds(g) \subseteq NodeIds(g)
         /\ NodeIds(g) \subseteq Nat
<1>1. /\ g.nodes \in Seq(Node) /\ g.edges \in SUBSET Edges
      /\ g.recent \in Seq(Event) /\ g.mentioned \in SUBSET Nat
  BY DEF Graph, Edges
<1>2. /\ Len(g.nodes) \in Nat
      /\ \A n \in NodeIds(g) : g.nodes[n] \in Node
  BY <1>1, LenProperties, ElementOfSeq DEF NodeIds
<1>3. ActiveIds(g) \subseteq NodeIds(g) /\ NodeIds(g) \subseteq Nat
  BY <1>2 DEF ActiveIds, NodeIds
<1>4. QED
  BY <1>1, <1>2, <1>3

(* Accountability of a node whose status did not change is monotone: its   *)
(* evidence and its transport edge are never deleted.                      *)
LEMMA AccountableMonotone ==
  ASSUME NEW g \in Graph, NEW h \in Graph, Grown(g, h),
         NEW n \in NodeIds(g), Accountable(g, n),
         h.nodes[n].status = g.nodes[n].status,
         h.nodes[n].why = g.nodes[n].why
  PROVE  Accountable(h, n)
<1>1. h.nodes[n].kind = g.nodes[n].kind
  BY DEF Grown, Identity
<1>2. EvidenceFor(g, n) \subseteq EvidenceFor(h, n)
  <2>1. \A e \in NodeIds(g) : e \in NodeIds(h) /\ h.nodes[e].kind = g.nodes[e].kind
    BY GraphTyped DEF Grown, Identity, NodeIds
  <2>2. g.edges \subseteq h.edges
    BY DEF Grown
  <2>3. QED
    BY <2>1, <2>2 DEF EvidenceFor
<1>3. HasTransport(g, n) => HasTransport(h, n)
  BY DEF HasTransport, Grown
<1>4. QED
  BY <1>1, <1>2, <1>3 DEF Accountable

(* Keeping nodes and edges composes.                                       *)
LEMMA GrownTransitive ==
  ASSUME NEW f \in Graph, NEW g \in Graph, NEW h \in Graph, Keeps(f, g), Keeps(g, h)
  PROVE  Keeps(f, h)
<1>1. NodeIds(f) \subseteq NodeIds(g)
  BY GraphTyped DEF Keeps, Grown, NodeIds
<1>2. Grown(f, h)
  BY <1>1, GraphTyped DEF Keeps, Grown
<1>3. QED
  BY <1>1, <1>2 DEF Keeps

(* A graph keeps itself.                                                   *)
LEMMA KeepsReflexive ==
  ASSUME NEW g \in Graph
  PROVE  Keeps(g, g)
BY GraphTyped DEF Keeps, Grown

(* An event adds to the log and to nothing else that the checks read.      *)
LEMMA RecordSound ==
  ASSUME NEW g, NEW exempt, Sound(g, exempt),
         NEW operation \in Operations,
         NEW affected \in SUBSET NodeIds(g), NEW before \in SUBSET NodeIds(g)
  PROVE  LET h == Record(g, operation, affected, before)
         IN  /\ Improves(g, h, exempt)
             /\ h.nodes = g.nodes /\ h.edges = g.edges
<1> DEFINE h == Record(g, operation, affected, before)
           event == [operation |-> operation, affected |-> affected,
                     before |-> before, after |-> ActiveIds(g)]
<1>1. g \in Graph /\ affected \subseteq Nat /\ before \subseteq Nat /\ ActiveIds(g) \subseteq Nat
  BY GraphTyped DEF Sound
<1>2. event \in Event
  BY <1>1 DEF Event
<1>3. Append(g.recent, event) \in Seq(Event)
  BY <1>1, <1>2, GraphTyped, AppendProperties
<1>4. h = [g EXCEPT !.recent = Append(g.recent, event),
                    !.mentioned = g.mentioned \cup affected \cup before \cup ActiveIds(g)]
  BY <1>1 DEF Record, Graph
<1>5. h \in Graph /\ h.nodes = g.nodes /\ h.edges = g.edges
      /\ h.mentioned = g.mentioned \cup affected \cup before \cup ActiveIds(g)
  BY <1>1, <1>3, <1>4 DEF Graph
<1>6. Keeps(g, h)
  <2>1. Grown(g, h)
    BY <1>1, <1>5, GraphTyped DEF Grown, Identity
  <2>2. QED
    BY <1>1, <1>5, <2>1, AccountableMonotone DEF Keeps
<1>7. Conserved(h, exempt)
  <2>1. NodeIds(h) = NodeIds(g)
    BY <1>5 DEF NodeIds
  <2>2. h.mentioned \subseteq NodeIds(h)
    BY <1>1, <1>5, <2>1, GraphTyped DEF Sound, Conserved
  <2>3. QED
    BY <1>5, <1>6, <2>1, <2>2 DEF Sound, Conserved, NoDanglingEdge, Keeps
<1>8. QED
  BY <1>5, <1>6, <1>7 DEF Improves, Sound

(* Emptying the recent events changes no node and no edge.                 *)
LEMMA SettleSound ==
  ASSUME NEW g, NEW exempt, Sound(g, exempt)
  PROVE  /\ Improves(g, Settle(g), exempt)
         /\ Settle(g).nodes = g.nodes /\ Settle(g).edges = g.edges
<1>1. g \in Graph /\ << >> \in Seq(Event)
  BY EmptySeq DEF Sound
<1>2. /\ Settle(g) \in Graph
      /\ Settle(g).nodes = g.nodes /\ Settle(g).edges = g.edges
      /\ Settle(g).mentioned = g.mentioned
  BY <1>1 DEF Settle, Graph
<1>3. Keeps(g, Settle(g))
  <2>1. Grown(g, Settle(g))
    BY <1>1, <1>2, GraphTyped DEF Grown, Identity
  <2>2. QED
    BY <1>1, <1>2, <2>1, AccountableMonotone DEF Keeps
<1>4. Conserved(Settle(g), exempt)
  <2>1. NodeIds(Settle(g)) = NodeIds(g)
    BY <1>2 DEF NodeIds
  <2>2. QED
    BY <1>2, <1>3, <2>1 DEF Sound, Conserved, NoDanglingEdge, Keeps
<1>5. QED
  BY <1>2, <1>3, <1>4 DEF Improves, Sound

(* The nodes that add_node is asked to add.                                *)
Fresh == {node \in Node : node.kind = "EVIDENCE" \/ node.status \in {"OPEN", "ACKNOWLEDGED"}}

(* Storing the node, before the event is recorded.                         *)
LEMMA StoreSound ==
  ASSUME NEW g, NEW exempt, Sound(g, exempt), NEW node \in Fresh
  PROVE  LET h == [g EXCEPT !.nodes = Append(@, node)]
         IN  /\ Improves(g, h, exempt)
             /\ Len(h.nodes) = Len(g.nodes) + 1
             /\ h.edges = g.edges
             /\ h.nodes[Len(g.nodes) + 1] = node
<1> DEFINE h == [g EXCEPT !.nodes = Append(@, node)]
<1>1. g \in Graph /\ node \in Node
  BY DEF Sound, Fresh
<1>2. /\ Append(g.nodes, node) \in Seq(Node)
      /\ Len(Append(g.nodes, node)) = Len(g.nodes) + 1
      /\ \A i \in 1..Len(g.nodes) : Append(g.nodes, node)[i] = g.nodes[i]
      /\ Append(g.nodes, node)[Len(g.nodes) + 1] = node
  BY <1>1, GraphTyped, AppendProperties
<1>3. /\ h \in Graph
      /\ h.nodes = Append(g.nodes, node) /\ h.edges = g.edges
      /\ h.mentioned = g.mentioned
  BY <1>1, <1>2 DEF Graph
<1> HIDE DEF h
<1>4. /\ NodeIds(g) \subseteq NodeIds(h)
      /\ \A n \in NodeIds(h) : n \in NodeIds(g) \/ n = Len(g.nodes) + 1
      /\ \A n \in NodeIds(g) : h.nodes[n] = g.nodes[n]
  BY <1>1, <1>2, <1>3, GraphTyped DEF NodeIds
<1>5. Keeps(g, h)
  <2>1. Len(g.nodes) <= Len(h.nodes)
    <3>1. Len(g.nodes) \in Nat /\ Len(h.nodes) = Len(g.nodes) + 1
      BY <1>1, <1>2, <1>3, GraphTyped
    <3>2. QED
      BY <3>1
  <2>2. Grown(g, h)
    BY <1>3, <1>4, <2>1 DEF Grown, Identity
  <2>3. QED
    BY <1>1, <1>3, <1>4, <2>2, AccountableMonotone DEF Keeps
<1>6. Accountable(h, Len(g.nodes) + 1)
  BY <1>2, <1>3 DEF Accountable, Fresh
<1>7. Conserved(h, exempt)
  BY <1>3, <1>4, <1>5, <1>6 DEF Sound, Conserved, NoDanglingEdge, Keeps
<1>8. QED
  BY <1>2, <1>3, <1>5, <1>7 DEF Improves, Sound, h

(* An operation may be taken in several steps.                             *)
LEMMA ImprovesTransitive ==
  ASSUME NEW f, NEW g, NEW h, NEW exempt,
         Sound(f, exempt), Improves(f, g, exempt), Improves(g, h, exempt)
  PROVE  Improves(f, h, exempt)
BY GrownTransitive DEF Improves, Sound

(* add_obligation and add_evidence: the node comes last, nothing else moves. *)
LEMMA AddNodeSound ==
  ASSUME NEW g, NEW exempt, Sound(g, exempt), NEW node \in Fresh
  PROVE  LET h == AddNode(g, node)
         IN  /\ Improves(g, h, exempt)
             /\ Len(h.nodes) = Len(g.nodes) + 1
             /\ h.edges = g.edges
             /\ h.nodes[Len(g.nodes) + 1] = node
<1> DEFINE stored == [g EXCEPT !.nodes = Append(@, node)]
           operation == IF node.kind = "EVIDENCE" THEN "ADD_EVIDENCE" ELSE "CREATE_OBLIGATION"
<1>1. /\ Improves(g, stored, exempt) /\ Len(stored.nodes) = Len(g.nodes) + 1
      /\ stored.edges = g.edges /\ stored.nodes[Len(g.nodes) + 1] = node
  BY StoreSound
<1>2. AddNode(g, node) = Record(stored, operation, {Len(g.nodes) + 1}, ActiveIds(g))
  BY DEF AddNode
<1> HIDE DEF stored
<1>3. /\ Len(g.nodes) \in Nat
      /\ ActiveIds(g) \subseteq NodeIds(g)
  BY GraphTyped DEF Sound
<1>4. NodeIds(stored) = 1..(Len(g.nodes) + 1)
  BY <1>1 DEF NodeIds
<1>5. /\ {Len(g.nodes) + 1} \in SUBSET NodeIds(stored)
      /\ ActiveIds(g) \in SUBSET NodeIds(stored)
  BY <1>3, <1>4 DEF NodeIds
<1>6. operation \in Operations /\ Sound(stored, exempt)
  BY <1>1 DEF Improves, Operations
<1>7. LET h == AddNode(g, node)
      IN  Improves(stored, h, exempt) /\ h.nodes = stored.nodes /\ h.edges = stored.edges
  BY <1>2, <1>5, <1>6, RecordSound
<1>8. QED
  BY <1>1, <1>7, ImprovesTransitive

(* Edges that do not reach the dependency graph cannot close a cycle.      *)
LEMMA ContradictionsAcyclic ==
  ASSUME NEW edges, NEW more, \A e \in more : e.relation = "CONTRADICTS",
         ~Cyclic(edges)
  PROVE  ~Cyclic(edges \cup more)
<1>1. Dependencies(edges \cup more) = Dependencies(edges)
  BY DEF Dependencies
<1>2. QED
  BY <1>1 DEF Cyclic

(* Adding edges between nodes, with any events that name only nodes.       *)
LEMMA LinkSound ==
  ASSUME NEW g, NEW exempt, Sound(g, exempt), NEW h \in Graph, NEW more,
         h.nodes = g.nodes, h.edges = g.edges \cup more,
         h.mentioned \subseteq NodeIds(g),
         \A e \in more : {e.source, e.target} \subseteq NodeIds(g),
         ~Cyclic(g.edges \cup more)
  PROVE  Improves(g, h, exempt)
<1>1. g \in Graph /\ NodeIds(h) = NodeIds(g)
  BY DEF Sound, NodeIds
<1>2. Keeps(g, h)
  <2>1. Len(g.nodes) <= Len(h.nodes)
    BY <1>1, GraphTyped
  <2>2. Grown(g, h)
    BY <2>1 DEF Grown, Identity
  <2>3. QED
    BY <1>1, <2>2, AccountableMonotone DEF Keeps
<1>3. Conserved(h, exempt)
  <2>1. NoDanglingEdge(h)
    BY <1>1 DEF Sound, Conserved, NoDanglingEdge
  <2>2. QED
    BY <1>1, <1>2, <2>1 DEF Sound, Conserved, Keeps
<1>4. QED
  BY <1>2, <1>3 DEF Improves, Sound

(* An edge between nodes of a graph, and its fields.                       *)
LEMMA EdgeTyped ==
  ASSUME NEW g \in Graph, NEW s \in NodeIds(g), NEW t \in NodeIds(g), NEW r \in Relations
  PROVE  /\ Edge(s, t, r) \in Edges
         /\ Edge(s, t, r).source = s /\ Edge(s, t, r).target = t
         /\ Edge(s, t, r).relation = r
BY GraphTyped DEF Edge, Edges

(* add_edge that is accepted adds its edge and no other.                   *)
LEMMA AddEdgeSound ==
  ASSUME NEW g, NEW exempt, Sound(g, exempt), NEW s, NEW t, NEW r \in Relations,
         EdgeAccepted(g, s, t, r)
  PROVE  LET h == AddEdge(g, s, t, r)
         IN  /\ h.ok /\ Improves(g, h.graph, exempt)
             /\ h.graph.nodes = g.nodes
             /\ h.graph.edges = g.edges \cup {Edge(s, t, r)}
<1> DEFINE linked == [g EXCEPT !.edges = @ \cup {Edge(s, t, r)}]
<1>1. g \in Graph /\ s \in NodeIds(g) /\ t \in NodeIds(g)
  BY DEF EdgeAccepted, Sound
<1>2. /\ linked \in Graph /\ linked.nodes = g.nodes
      /\ linked.edges = g.edges \cup {Edge(s, t, r)} /\ linked.mentioned = g.mentioned
  BY <1>1, EdgeTyped DEF Graph, Edges
<1>3. AddEdge(g, s, t, r) = Ok(Record(linked, "ADD_RELATION", {s, t}, ActiveIds(g)))
  BY DEF AddEdge
<1> HIDE DEF linked
<1>4. ~Cyclic(g.edges \cup {Edge(s, t, r)})
  <2>1. CASE r = "CONTRADICTS"
    <3>1. \A e \in {Edge(s, t, r)} : e.relation = "CONTRADICTS"
      BY <1>1, <2>1, EdgeTyped
    <3>2. ~Cyclic(g.edges)
      BY DEF Sound
    <3>3. QED
      BY <3>1, <3>2, ContradictionsAcyclic
  <2>2. CASE r # "CONTRADICTS"
    BY <2>2 DEF EdgeAccepted
  <2>3. QED
    BY <2>1, <2>2
<1>5. Improves(g, linked, exempt)
  <2>1. \A e \in {Edge(s, t, r)} : {e.source, e.target} \subseteq NodeIds(g)
    BY <1>1, EdgeTyped
  <2>2. linked.mentioned \subseteq NodeIds(g)
    BY <1>2 DEF Sound, Conserved
  <2>3. QED
    BY <1>2, <1>4, <2>1, <2>2, LinkSound
<1>6. {s, t} \in SUBSET NodeIds(linked) /\ ActiveIds(g) \in SUBSET NodeIds(linked)
  BY <1>1, <1>2, GraphTyped DEF NodeIds
<1>7. LET h == Record(linked, "ADD_RELATION", {s, t}, ActiveIds(g))
      IN  Improves(linked, h, exempt) /\ h.nodes = linked.nodes /\ h.edges = linked.edges
  <2>1. Sound(linked, exempt) /\ "ADD_RELATION" \in Operations
    BY <1>5 DEF Improves, Operations
  <2>2. QED
    BY <1>6, <2>1, RecordSound
<1>8. QED
  BY <1>2, <1>3, <1>5, <1>7, ImprovesTransitive DEF Ok

(* Setting a status for which the graph already holds the support.         *)
LEMMA StatusSound ==
  ASSUME NEW g, NEW exempt, Sound(g, exempt), NEW n \in NodeIds(g),
         NEW status \in ObligationStatuses, NEW why \in Explanations,
         \/ g.nodes[n].kind = "EVIDENCE"
         \/ status \in {"DISCHARGED", "REFUTED"} /\ EvidenceFor(g, n) # {}
         \/ status \in {"DEFERRED", "ESCALATED"} /\ why # "none"
         \/ status = "TRANSFERRED" /\ HasTransport(g, n)
  PROVE  LET h == SetStatus(g, n, status, why)
         IN  Improves(g, h, exempt) /\ NodeIds(h) = NodeIds(g)
<1> DEFINE h == SetStatus(g, n, status, why)
           changed == [g.nodes[n] EXCEPT !.status = status, !.why = why]
<1>1. g \in Graph /\ g.nodes[n] \in Node /\ g.nodes \in Seq(Node)
  BY GraphTyped DEF Sound
<1>2. /\ changed \in Node /\ changed.status = status /\ changed.why = why
      /\ Identity(changed) = Identity(g.nodes[n]) /\ changed.kind = g.nodes[n].kind
  BY <1>1 DEF Node, Identity
<1>3. h = [g EXCEPT !.nodes = [g.nodes EXCEPT ![n] = changed]]
  BY DEF SetStatus
<1> HIDE DEF changed
<1>4. /\ [g.nodes EXCEPT ![n] = changed] \in Seq(Node)
      /\ Len([g.nodes EXCEPT ![n] = changed]) = Len(g.nodes)
      /\ \A j \in NodeIds(g) :
           [g.nodes EXCEPT ![n] = changed][j] = IF j = n THEN changed ELSE g.nodes[j]
  BY <1>1, <1>2, ExceptSeq DEF NodeIds
<1>5. /\ h \in Graph /\ h.edges = g.edges /\ h.mentioned = g.mentioned
      /\ h.nodes = [g.nodes EXCEPT ![n] = changed]
  BY <1>1, <1>3, <1>4 DEF Graph
<1> HIDE DEF h
<1>6. NodeIds(h) = NodeIds(g) /\ Len(h.nodes) = Len(g.nodes) /\ Len(g.nodes) \in Nat
  BY <1>1, <1>4, <1>5, GraphTyped DEF NodeIds
<1>7. \A j \in NodeIds(g) : h.nodes[j] = IF j = n THEN changed ELSE g.nodes[j]
  BY <1>4, <1>5
<1>8. Grown(g, h)
  BY <1>2, <1>5, <1>6, <1>7 DEF Grown
<1>9. Accountable(h, n)
  <2>1. \A j \in NodeIds(g) : h.nodes[j].kind = g.nodes[j].kind
    BY <1>2, <1>7
  <2>2. EvidenceFor(h, n) = EvidenceFor(g, n)
    BY <1>5, <1>6, <2>1 DEF EvidenceFor
  <2>3. HasTransport(h, n) = HasTransport(g, n)
    BY <1>5 DEF HasTransport
  <2>4. h.nodes[n] = changed
    BY <1>7
  <2>5. QED
    BY <1>2, <2>2, <2>3, <2>4 DEF Accountable
<1>10. Keeps(g, h)
  BY <1>1, <1>5, <1>7, <1>8, <1>9, AccountableMonotone DEF Keeps
<1>11. Conserved(h, exempt)
  BY <1>5, <1>6, <1>10 DEF Sound, Conserved, NoDanglingEdge, Keeps
<1>12. QED
  BY <1>5, <1>6, <1>10, <1>11 DEF Improves, Sound, h

-----------------------------------------------------------------------------
(* The loops over evidence_ids.                                            *)

(* A function on 1..k is a sequence.                                       *)
LEMMA FunctionIsSeq ==
  ASSUME NEW S, NEW k \in Nat, NEW f \in [1..k -> S]
  PROVE  f \in Seq(S)
OBVIOUS

(* How far a loop over evidence gets before the first that is rejected.    *)
LEMMA CompletedBound ==
  ASSUME NEW evidence \in Seq(Nat), NEW rejects \in SUBSET (1..Len(evidence))
  PROVE  /\ Completed(evidence, rejects) \in 0..Len(evidence)
         /\ \A i \in 1..Completed(evidence, rejects) : i \notin rejects
<1>1. Len(evidence) \in Nat
  OBVIOUS
<1>2. CASE rejects = {}
  BY <1>1, <1>2 DEF Completed
<1>3. CASE rejects # {}
  <2>1. PICK less : /\ IsWellFoundedOn(less, Nat)
                    /\ \A i, j \in Nat : j < i => <<j, i>> \in less
    <3>1. \A i, j \in Nat : j < i => <<j, i>> \in OpToRel(<, Nat)
      BY Zenon DEF OpToRel
    <3>2. QED
      BY <3>1, NatLessThanWellFounded, Zenon
  <2>2. \E i \in rejects : \A j \in rejects : i <= j
    <3>1. rejects \subseteq Nat
      BY <1>1
    <3>2. \E i \in rejects : \A j \in rejects : <<j, i>> \notin less
      BY <1>3, <2>1, <3>1, WFMin
    <3>3. PICK i \in rejects : \A j \in rejects : <<j, i>> \notin less
      BY <3>2
    <3>4. \A j \in rejects : ~(j < i)
      BY <2>1, <3>1, <3>3, Zenon
    <3>5. \A j \in rejects : i <= j
      BY <3>1, <3>4
    <3>6. QED
      BY <3>5
  <2>3. PICK m \in rejects : /\ \A j \in rejects : m <= j
                             /\ Completed(evidence, rejects) = m - 1
    BY <1>3, <2>2 DEF Completed
  <2>4. QED
    BY <1>1, <2>3
<1>4. QED
  BY <1>2, <1>3

FirstEdges(evidence, n, r, k) == {Edge(evidence[i], n, r) : i \in 1..k}

(* The edges of one more turn of the loop.                                 *)
LEMMA LastEdge ==
  ASSUME NEW evidence, NEW n, NEW r, NEW k \in Nat \ {0}
  PROVE  FirstEdges(evidence, n, r, k)
           = FirstEdges(evidence, n, r, k - 1) \cup {Edge(evidence[k], n, r)}
<1>1. 1..k = (1..(k - 1)) \cup {k}
  OBVIOUS
<1>2. QED
  BY <1>1 DEF FirstEdges

(* The edges that a loop broken off after k turns leaves.                  *)
LEMMA LinkFirstEdges ==
  ASSUME NEW g \in Graph, NEW evidence, NEW n, NEW r, NEW k
  PROVE  LinkFirst(g, evidence, n, r, k).edges = g.edges \cup FirstEdges(evidence, n, r, k)
BY DEF LinkFirst, FirstEdges, Graph

(* Such a loop improves the graph, if its edges close no cycle.            *)
LEMMA LinkFirstSound ==
  ASSUME NEW g, NEW exempt, Sound(g, exempt), NEW evidence \in Seq(Nat),
         NEW n \in NodeIds(g), NEW r \in Relations, NEW k \in 0..Len(evidence),
         \A i \in 1..k : evidence[i] \in NodeIds(g),
         ~Cyclic(g.edges \cup FirstEdges(evidence, n, r, k))
  PROVE  LET h == LinkFirst(g, evidence, n, r, k)
         IN  /\ Improves(g, h, exempt) /\ h.nodes = g.nodes
             /\ h.edges = g.edges \cup FirstEdges(evidence, n, r, k)
<1> DEFINE h == LinkFirst(g, evidence, n, r, k)
           more == FirstEdges(evidence, n, r, k)
           event(i) == [operation |-> "ADD_RELATION", affected |-> {evidence[i], n},
                        before |-> ActiveIds(g), after |-> ActiveIds(g)]
           events == [i \in 1..k |-> event(i)]
           named == UNION {{evidence[i], n} \cup ActiveIds(g) : i \in 1..k}
<1>1. /\ g \in Graph /\ k \in Nat /\ g.recent \in Seq(Event)
      /\ ActiveIds(g) \subseteq NodeIds(g) /\ NodeIds(g) \subseteq Nat
      /\ g.edges \subseteq Edges /\ g.mentioned \subseteq Nat
  BY GraphTyped DEF Sound
<1>2. g.recent \o events \in Seq(Event)
  <2>1. \A i \in 1..k : event(i) \in Event
    BY <1>1 DEF Event, Operations
  <2>2. events \in Seq(Event)
    BY <1>1, <2>1, FunctionIsSeq
  <2>3. QED
    BY <1>1, <2>2, ConcatProperties
<1>3. \A e \in more : e \in Edges /\ {e.source, e.target} \subseteq NodeIds(g)
  BY <1>1, EdgeTyped DEF FirstEdges
<1>4. named \subseteq NodeIds(g)
  BY <1>1
<1>5. h = [g EXCEPT !.edges = g.edges \cup more, !.recent = g.recent \o events,
                    !.mentioned = g.mentioned \cup named]
  BY <1>1 DEF LinkFirst, FirstEdges, Graph
<1> HIDE DEF more, event, events, named
<1>6. /\ h.nodes = g.nodes /\ h.edges = g.edges \cup more
      /\ h.recent = g.recent \o events /\ h.mentioned = g.mentioned \cup named
      /\ h \in Graph
  BY <1>1, <1>2, <1>3, <1>4, <1>5 DEF Graph, Edges
<1> HIDE DEF h
<1>7. h.mentioned \subseteq NodeIds(g)
  BY <1>4, <1>6 DEF Sound, Conserved
<1>8. Improves(g, h, exempt)
  BY <1>3, <1>6, <1>7, LinkSound DEF more
<1>9. QED
  BY <1>6, <1>8 DEF h, more

(* discharge, where it returns and where it raises.                        *)
LEMMA DischargeSound ==
  ASSUME NEW g, NEW exempt, Sound(g, exempt), NEW n \in Nat, NEW evidence \in Seq(Nat)
  PROVE  LET result == Discharge(g, n, evidence)
         IN  result.ok \in BOOLEAN /\ Improves(g, result.graph, exempt)
<1> DEFINE refused == \/ n \notin NodeIds(g) \/ IsEvidence(g, n) \/ evidence = << >>
                      \/ \E e \in Members(evidence) : ~IsEvidence(g, e)
           cyclic == {i \in 1..Len(evidence) :
                        ~EdgeAccepted(LinkFirst(g, evidence, n, "DISCHARGES", i - 1),
                                      evidence[i], n, "DISCHARGES")}
           k == Completed(evidence, cyclic)
           linked == LinkFirst(g, evidence, n, "DISCHARGES", k)
           settled == SetStatus(linked, n, "DISCHARGED", "none")
           done == Record(settled, "DISCHARGE_OBLIGATION", {n} \cup Members(evidence), ActiveIds(g))
<1>1. Discharge(g, n, evidence) = IF refused THEN Raised(g)
                                  ELSE IF k < Len(evidence) THEN Raised(linked) ELSE Ok(done)
  BY DEF Discharge
<1>2. /\ k \in 0..Len(evidence) /\ Len(evidence) \in Nat
      /\ \A i \in 1..k : EdgeAccepted(LinkFirst(g, evidence, n, "DISCHARGES", i - 1),
                                     evidence[i], n, "DISCHARGES")
  BY CompletedBound
<1> HIDE DEF cyclic, k, linked
<1>3. CASE refused
  <2>1. Discharge(g, n, evidence) = Raised(g)
    BY <1>1, <1>3
  <2>2. QED
    BY <2>1, KeepsReflexive DEF Raised, Improves, Sound
<1>4. CASE ~refused
  <2>1. /\ g \in Graph /\ n \in NodeIds(g) /\ Len(evidence) \in Nat \ {0}
        /\ \A i \in 1..Len(evidence) : evidence[i] \in NodeIds(g)
                                       /\ g.nodes[evidence[i]].kind = "EVIDENCE"
    BY <1>4, EmptySeq DEF Sound, IsEvidence, Members
  <2>2. Discharge(g, n, evidence) = IF k < Len(evidence) THEN Raised(linked) ELSE Ok(done)
    BY <1>1, <1>4
  <2>3. ~Cyclic(g.edges \cup FirstEdges(evidence, n, "DISCHARGES", k))
    <3>1. CASE k = 0
      <4>1. FirstEdges(evidence, n, "DISCHARGES", k) = {}
        BY <3>1 DEF FirstEdges
      <4>2. QED
        BY <4>1 DEF Sound
    <3>2. CASE k # 0
      <4>1. k \in Nat \ {0} /\ k \in 1..k
        BY <1>2, <3>2
      <4>2. ~Cyclic(LinkFirst(g, evidence, n, "DISCHARGES", k - 1).edges
                      \cup {Edge(evidence[k], n, "DISCHARGES")})
        BY <1>2, <4>1 DEF EdgeAccepted
      <4>3. LinkFirst(g, evidence, n, "DISCHARGES", k - 1).edges
              = g.edges \cup FirstEdges(evidence, n, "DISCHARGES", k - 1)
        BY <2>1, LinkFirstEdges
      <4>4. g.edges \cup FirstEdges(evidence, n, "DISCHARGES", k)
              = LinkFirst(g, evidence, n, "DISCHARGES", k - 1).edges
                  \cup {Edge(evidence[k], n, "DISCHARGES")}
        BY <4>1, <4>3, LastEdge
      <4>5. QED
        BY <4>2, <4>4
    <3>3. QED
      BY <3>1, <3>2
  <2>4. /\ Improves(g, linked, exempt) /\ linked.nodes = g.nodes
        /\ linked.edges = g.edges \cup FirstEdges(evidence, n, "DISCHARGES", k)
    <3>1. "DISCHARGES" \in Relations /\ \A i \in 1..k : evidence[i] \in NodeIds(g)
      BY <1>2, <2>1 DEF Relations
    <3>2. QED
      BY <1>2, <2>1, <2>3, <3>1, LinkFirstSound DEF linked
  <2>5. CASE k < Len(evidence)
    BY <2>2, <2>4, <2>5 DEF Raised
  <2>6. CASE ~(k < Len(evidence))
    <3>1. k = Len(evidence) /\ 1 \in 1..k
      BY <1>2, <2>1, <2>6
    <3>2. Edge(evidence[1], n, "DISCHARGES") \in linked.edges
      BY <2>4, <3>1 DEF FirstEdges
    <3>3. EvidenceFor(linked, n) # {}
      BY <2>1, <2>4, <3>1, <3>2 DEF EvidenceFor, NodeIds
    <3>4. Sound(linked, exempt) /\ n \in NodeIds(linked) /\ NodeIds(linked) = NodeIds(g)
      BY <2>1, <2>4 DEF Improves, NodeIds
    <3>5. Improves(linked, settled, exempt) /\ NodeIds(settled) = NodeIds(g)
      <4>1. "DISCHARGED" \in ObligationStatuses /\ "none" \in Explanations
        BY DEF ObligationStatuses, Explanations
      <4>2. QED
        BY <3>3, <3>4, <4>1, StatusSound
    <3> HIDE DEF settled
    <3>6. Improves(settled, done, exempt)
      <4>1. {n} \cup Members(evidence) \in SUBSET NodeIds(settled)
        BY <2>1, <3>5 DEF Members
      <4>2. ActiveIds(g) \in SUBSET NodeIds(settled)
        BY <2>1, <3>5, GraphTyped
      <4>3. "DISCHARGE_OBLIGATION" \in Operations /\ Sound(settled, exempt)
        BY <3>5 DEF Operations, Improves
      <4>4. QED
        BY <4>1, <4>2, <4>3, RecordSound
    <3>7. Improves(g, done, exempt)
      BY <2>4, <3>4, <3>5, <3>6, ImprovesTransitive
    <3>8. QED
      BY <2>2, <2>6, <3>7 DEF Ok
  <2>7. QED
    BY <2>5, <2>6
<1>5. QED
  BY <1>3, <1>4

(* refute, where it returns and where it raises.                           *)
LEMMA RefuteSound ==
  ASSUME NEW g, NEW exempt, Sound(g, exempt), NEW n \in Nat, NEW evidence \in Seq(Nat)
  PROVE  LET result == Refute(g, n, evidence)
         IN  result.ok \in BOOLEAN /\ Improves(g, result.graph, exempt)
<1> DEFINE refused == n \notin NodeIds(g) \/ evidence = << >>
           others == {i \in 1..Len(evidence) : ~IsEvidence(g, evidence[i])}
           k == Completed(evidence, others)
           linked == LinkFirst(g, evidence, n, "CONTRADICTS", k)
           settled == SetStatus(linked, n, "REFUTED", "none")
           done == Record(settled, "REFUTE_OBLIGATION", {n} \cup Members(evidence), ActiveIds(g))
<1>1. Refute(g, n, evidence) = IF refused THEN Raised(g)
                               ELSE IF k < Len(evidence) THEN Raised(linked) ELSE Ok(done)
  BY DEF Refute
<1>2. /\ k \in 0..Len(evidence) /\ Len(evidence) \in Nat
      /\ \A i \in 1..k : IsEvidence(g, evidence[i])
  BY CompletedBound
<1> HIDE DEF others, k, linked
<1>3. CASE refused
  <2>1. Refute(g, n, evidence) = Raised(g)
    BY <1>1, <1>3
  <2>2. QED
    BY <2>1, KeepsReflexive DEF Raised, Improves, Sound
<1>4. CASE ~refused
  <2>1. /\ g \in Graph /\ n \in NodeIds(g) /\ Len(evidence) \in Nat \ {0}
        /\ \A i \in 1..k : evidence[i] \in NodeIds(g) /\ g.nodes[evidence[i]].kind = "EVIDENCE"
    BY <1>2, <1>4, EmptySeq DEF Sound, IsEvidence
  <2>2. Refute(g, n, evidence) = IF k < Len(evidence) THEN Raised(linked) ELSE Ok(done)
    BY <1>1, <1>4
  <2>3. ~Cyclic(g.edges \cup FirstEdges(evidence, n, "CONTRADICTS", k))
    <3>1. \A e \in FirstEdges(evidence, n, "CONTRADICTS", k) : e.relation = "CONTRADICTS"
      BY DEF FirstEdges, Edge
    <3>2. ~Cyclic(g.edges)
      BY DEF Sound
    <3>3. QED
      BY <3>1, <3>2, ContradictionsAcyclic
  <2>4. /\ Improves(g, linked, exempt) /\ linked.nodes = g.nodes
        /\ linked.edges = g.edges \cup FirstEdges(evidence, n, "CONTRADICTS", k)
    <3>1. "CONTRADICTS" \in Relations
      BY DEF Relations
    <3>2. QED
      BY <1>2, <2>1, <2>3, <3>1, LinkFirstSound DEF linked
  <2>5. CASE k < Len(evidence)
    BY <2>2, <2>4, <2>5 DEF Raised
  <2>6. CASE ~(k < Len(evidence))
    <3>1. k = Len(evidence) /\ 1 \in 1..k
      BY <1>2, <2>1, <2>6
    <3>2. Edge(evidence[1], n, "CONTRADICTS") \in linked.edges
      BY <2>4, <3>1 DEF FirstEdges
    <3>3. EvidenceFor(linked, n) # {}
      BY <2>1, <2>4, <3>1, <3>2 DEF EvidenceFor, NodeIds
    <3>4. Sound(linked, exempt) /\ n \in NodeIds(linked) /\ NodeIds(linked) = NodeIds(g)
      BY <2>1, <2>4 DEF Improves, NodeIds
    <3>5. Improves(linked, settled, exempt) /\ NodeIds(settled) = NodeIds(g)
      <4>1. "REFUTED" \in ObligationStatuses /\ "none" \in Explanations
        BY DEF ObligationStatuses, Explanations
      <4>2. QED
        BY <3>3, <3>4, <4>1, StatusSound
    <3> HIDE DEF settled
    <3>6. Improves(settled, done, exempt)
      <4>1. {n} \cup Members(evidence) \in SUBSET NodeIds(settled)
        BY <2>1, <3>1, <3>5 DEF Members
      <4>2. ActiveIds(g) \in SUBSET NodeIds(settled)
        BY <2>1, <3>5, GraphTyped
      <4>3. "REFUTE_OBLIGATION" \in Operations /\ Sound(settled, exempt)
        BY <3>5 DEF Operations, Improves
      <4>4. QED
        BY <4>1, <4>2, <4>3, RecordSound
    <3>7. Improves(g, done, exempt)
      BY <2>4, <3>4, <3>5, <3>6, ImprovesTransitive
    <3>8. QED
      BY <2>2, <2>6, <3>7 DEF Ok
  <2>7. QED
    BY <2>5, <2>6
<1>5. QED
  BY <1>3, <1>4

(* defer and escalate: a status that needs no support but a reason.        *)
LEMMA ExplainSound ==
  ASSUME NEW g, NEW exempt, Sound(g, exempt), NEW n \in NodeIds(g),
         NEW status \in {"DEFERRED", "ESCALATED"}, NEW why \in {"reason", "reason+retry"},
         NEW operation \in Operations
  PROVE  Improves(g, Record(SetStatus(g, n, status, why), operation, {n}, ActiveIds(g)), exempt)
<1> DEFINE explained == SetStatus(g, n, status, why)
<1>1. Improves(g, explained, exempt) /\ NodeIds(explained) = NodeIds(g)
  <2>1. status \in ObligationStatuses /\ why \in Explanations /\ why # "none"
    BY DEF ObligationStatuses, Explanations
  <2>2. QED
    BY <2>1, StatusSound
<1> HIDE DEF explained
<1>2. /\ {n} \in SUBSET NodeIds(explained) /\ ActiveIds(g) \in SUBSET NodeIds(explained)
      /\ Sound(explained, exempt)
  BY <1>1, GraphTyped DEF Sound, Improves
<1>3. Improves(explained, Record(explained, operation, {n}, ActiveIds(g)), exempt)
  BY <1>2, RecordSound
<1>4. Improves(g, Record(explained, operation, {n}, ActiveIds(g)), exempt)
  BY <1>1, <1>3, ImprovesTransitive
<1>5. QED
  BY <1>4 DEF explained

(* defer keeps the reason it is given.                                     *)
LEMMA DeferSound ==
  ASSUME NEW g, NEW exempt, Sound(g, exempt), NEW n, NEW why \in {"reason", "reason+retry"}
  PROVE  LET result == Defer(g, n, why)
         IN  result.ok \in BOOLEAN /\ Improves(g, result.graph, exempt)
<1>1. CASE n \notin NodeIds(g)
  BY <1>1, KeepsReflexive DEF Defer, Raised, Improves, Sound
<1>2. CASE n \in NodeIds(g)
  <2>1. "DEFER_OBLIGATION" \in Operations
    BY DEF Operations
  <2>2. QED
    BY <1>2, <2>1, ExplainSound DEF Defer, Ok
<1>3. QED
  BY <1>1, <1>2

(* escalate keeps the reason it is given.                                  *)
LEMMA EscalateSound ==
  ASSUME NEW g, NEW exempt, Sound(g, exempt), NEW n, NEW why \in {"reason", "reason+retry"}
  PROVE  LET result == Escalate(g, n, why)
         IN  result.ok \in BOOLEAN /\ Improves(g, result.graph, exempt)
<1>1. CASE n \notin NodeIds(g)
  BY <1>1, KeepsReflexive DEF Escalate, Raised, Improves, Sound
<1>2. CASE n \in NodeIds(g)
  <2>1. "ESCALATE_OBLIGATION" \in Operations
    BY DEF Operations
  <2>2. QED
    BY <1>2, <2>1, ExplainSound DEF Escalate, Ok
<1>3. QED
  BY <1>1, <1>2

(* transfer, with the heir and the edge to it.                             *)
LEMMA TransferSound ==
  ASSUME NEW g, NEW exempt, Sound(g, exempt), NEW n,
         NEW r \in {"REFINES", "TRANSFERS", "DECOMPOSES"}
  PROVE  LET result == Transfer(g, n, r)
         IN  result.ok \in BOOLEAN /\ Improves(g, result.graph, exempt)
<1> DEFINE new == Len(g.nodes) + 1
           heir == [g.nodes[n] EXCEPT !.status = "OPEN", !.source = "shape_transform", !.why = "none"]
           added == AddNode(g, heir)
           linked == AddEdge(added, new, n, r)
           settled == SetStatus(linked.graph, n, "TRANSFERRED", "none")
           done == Record(settled, "TRANSFER_OBLIGATION", {n, new}, ActiveIds(g))
<1>1. Transfer(g, n, r) = IF n \notin NodeIds(g) THEN Raised(g)
                          ELSE IF ~linked.ok THEN linked ELSE Ok(done)
  BY DEF Transfer
<1>2. CASE n \notin NodeIds(g)
  BY <1>1, <1>2, KeepsReflexive DEF Raised, Improves, Sound
<1>3. CASE n \in NodeIds(g)
  <2>1. g \in Graph /\ g.nodes[n] \in Node /\ new \in Nat \ {0} /\ n \in Nat
    BY <1>3, GraphTyped DEF Sound
  <2>2. heir \in Fresh
    BY <2>1 DEF Fresh, Node, ObligationStatuses, Sources, Explanations
  <2> HIDE DEF heir
  <2>3. Improves(g, added, exempt) /\ NodeIds(added) = 1..new
    BY <2>2, AddNodeSound DEF NodeIds
  <2>4. {n, new} \subseteq NodeIds(added) /\ NodeIds(g) \subseteq NodeIds(added)
    BY <1>3, <2>1, <2>3 DEF NodeIds
  <2> HIDE DEF added, new
  <2>5. r \in Relations /\ Sound(added, exempt)
    BY <2>3 DEF Relations, Improves
  <2>6. CASE ~EdgeAccepted(added, new, n, r)
    <3>1. linked = Raised(added)
      BY <2>6 DEF AddEdge
    <3>2. QED
      BY <1>1, <1>3, <2>3, <3>1 DEF Raised
  <2>7. CASE EdgeAccepted(added, new, n, r)
    <3>1. /\ linked.ok /\ Improves(added, linked.graph, exempt)
          /\ linked.graph.nodes = added.nodes
          /\ linked.graph.edges = added.edges \cup {Edge(new, n, r)}
      BY <2>5, <2>7, AddEdgeSound
    <3> HIDE DEF linked
    <3>2. HasTransport(linked.graph, n)
      <4>1. Edge(new, n, r) \in linked.graph.edges /\ Edge(new, n, r).target = n
            /\ Edge(new, n, r).relation = r
        BY <3>1 DEF Edge
      <4>2. QED
        BY <4>1 DEF HasTransport
    <3>3. /\ Sound(linked.graph, exempt) /\ n \in NodeIds(linked.graph)
          /\ NodeIds(linked.graph) = NodeIds(added)
      BY <2>4, <3>1 DEF Improves, NodeIds
    <3>4. Improves(linked.graph, settled, exempt) /\ NodeIds(settled) = NodeIds(added)
      <4>1. "TRANSFERRED" \in ObligationStatuses /\ "none" \in Explanations
        BY DEF ObligationStatuses, Explanations
      <4>2. QED
        BY <3>2, <3>3, <4>1, StatusSound
    <3> HIDE DEF settled
    <3>5. Improves(settled, done, exempt)
      <4>1. {n, new} \in SUBSET NodeIds(settled) /\ ActiveIds(g) \in SUBSET NodeIds(settled)
        BY <2>1, <2>4, <3>4, GraphTyped
      <4>2. "TRANSFER_OBLIGATION" \in Operations /\ Sound(settled, exempt)
        BY <3>4 DEF Operations, Improves
      <4>3. QED
        BY <4>1, <4>2, RecordSound
    <3> HIDE DEF done
    <3>6. Improves(g, linked.graph, exempt)
      BY <2>3, <2>5, <3>1, ImprovesTransitive
    <3>7. Improves(g, done, exempt)
      BY <3>4, <3>5, <3>6, ImprovesTransitive
    <3>8. QED
      BY <1>1, <1>3, <3>1, <3>7 DEF Ok
  <2>8. QED
    BY <2>6, <2>7
<1>4. QED
  BY <1>2, <1>3

-----------------------------------------------------------------------------
(* The graph a task starts with.                                           *)

(* What from_task reads of a task.                                         *)
TaskFields(t) ==
  /\ t.assumptions \in Nat /\ t.successConditions \in Nat /\ t.prohibitedShortcuts \in Nat
  /\ t.initialObligations \in Seq(Node)

(* The node of the intent, and what from_task makes nodes of.              *)
IntentNode == TaskNode("INTENT", "OPEN", "HIGH", TRUE, "task")

FromTheTask == {node \in Fresh : node.source \in {"task", "task.success_conditions"}}

(* The nodes of one kind that from_task makes.                             *)
LEMMA RepeatTyped ==
  ASSUME NEW S, NEW node \in S, NEW count \in Nat
  PROVE  Repeat(node, count) \in Seq(S) /\ Len(Repeat(node, count)) = count
<1>1. Repeat(node, count) \in [1..count -> S]
  BY DEF Repeat
<1>2. QED
  BY <1>1, FunctionIsSeq, LenProperties

(* A single node as a list.                                                *)
LEMMA SingletonTyped ==
  ASSUME NEW S, NEW x \in S
  PROVE  <<x>> \in Seq(S) /\ Len(<<x>>) = 1
OBVIOUS

(* The lists of from_task joined.                                          *)
LEMMA ConcatTyped ==
  ASSUME NEW S, NEW u \in Seq(S), NEW v \in Seq(S)
  PROVE  /\ u \o v \in Seq(S) /\ Len(u \o v) = Len(u) + Len(v)
         /\ Len(u) >= 1 => (u \o v)[1] = u[1]
BY ConcatProperties, LenProperties

(* Every edge of a new graph goes from a node to the intent, node 1, and   *)
(* none leaves the intent.                                                 *)
LEMMA StarAcyclic ==
  ASSUME NEW edges, \A e \in edges : e.target = 1 /\ e.source # 1
  PROVE  ~Cyclic(edges)
BY DEF Cyclic, Dependencies

(* from_task: typed, acyclic, and accountable but for what the task        *)
(* declares; the first node is the intent.                                 *)
LEMMA FromTaskSound ==
  ASSUME NEW t, TaskFields(t)
  PROVE  LET g == FromTask(t)
         IN  /\ Sound(g, DeclaredIds(t))
             /\ \A e \in g.edges : e.target = 1
             /\ \A n \in NodeIds(g) : n \in DeclaredIds(t) \/ g.nodes[n] \in FromTheTask
             /\ 1 \notin DeclaredIds(t) /\ 1 \in NodeIds(g) /\ g.nodes[1] = IntentNode
             /\ DeclaredIds(t) \subseteq NodeIds(g)
<1> DEFINE a == t.assumptions
           s == t.successConditions
           p == t.prohibitedShortcuts
           declared == t.initialObligations
           one == <<IntentNode>>
           as == Repeat(TaskNode("ASSUMPTION", "ACKNOWLEDGED", "MEDIUM", FALSE, "task"), a)
           ss == Repeat(TaskNode("REQUIREMENT", "OPEN", "HIGH", TRUE, "task.success_conditions"), s)
           ps == Repeat(TaskNode("POLICY", "ACKNOWLEDGED", "HIGH", FALSE, "task"), p)
           nodes == one \o as \o ss \o ps \o declared
           edges == {Edge(n, 1, "SUPPORTS") : n \in 2..(1 + a)}
                    \cup {Edge(n, 1, "REFINES") : n \in (2 + a)..(1 + a + s)}
                    \cup {Edge(n, 1, "BLOCKS") : n \in (2 + a + s)..(1 + a + s + p)}
           base == 1 + a + s + p
           new == [nodes |-> nodes, edges |-> edges,
                   recent |-> << >>, mentioned |-> 1..Len(nodes)]
<1>1. FromTask(t) = Record(new, "task_initialized", {}, ActiveIds(new))
  BY DEF FromTask, Checkpoint, IntentNode
<1>2. a \in Nat /\ s \in Nat /\ p \in Nat /\ declared \in Seq(Node) /\ base \in Nat
      /\ Len(declared) \in Nat
  BY LenProperties DEF TaskFields
<1>3. /\ one \o as \o ss \o ps \in Seq(FromTheTask) /\ Len(one \o as \o ss \o ps) = base
      /\ (one \o as \o ss \o ps)[1] = IntentNode
  <2>1. /\ IntentNode \in FromTheTask
        /\ TaskNode("ASSUMPTION", "ACKNOWLEDGED", "MEDIUM", FALSE, "task") \in FromTheTask
        /\ TaskNode("REQUIREMENT", "OPEN", "HIGH", TRUE, "task.success_conditions") \in FromTheTask
        /\ TaskNode("POLICY", "ACKNOWLEDGED", "HIGH", FALSE, "task") \in FromTheTask
    BY DEF TaskNode, IntentNode, FromTheTask, Fresh, Node, ObligationKinds,
           ObligationStatuses, Severities, Sources, Explanations
  <2>2. one \in Seq(FromTheTask) /\ Len(one) = 1 /\ one[1] = IntentNode
    BY <2>1, SingletonTyped
  <2>3. as \in Seq(FromTheTask) /\ Len(as) = a
    BY <1>2, <2>1, RepeatTyped
  <2>4. ss \in Seq(FromTheTask) /\ Len(ss) = s
    BY <1>2, <2>1, RepeatTyped
  <2>5. ps \in Seq(FromTheTask) /\ Len(ps) = p
    BY <1>2, <2>1, RepeatTyped
  <2> HIDE DEF one, as, ss, ps, nodes, edges, new, a, s, p, declared
  <2>6. /\ one \o as \o ss \o ps \in Seq(FromTheTask)
        /\ Len(one \o as \o ss \o ps) = Len(one) + Len(as) + Len(ss) + Len(ps)
        /\ (one \o as \o ss \o ps)[1] = one[1]
    <3>1. /\ one \in Seq(FromTheTask) /\ as \in Seq(FromTheTask)
          /\ ss \in Seq(FromTheTask) /\ ps \in Seq(FromTheTask)
      BY <2>2, <2>3, <2>4, <2>5
    <3>2. Len(one) >= 1 /\ Len(one) + Len(as) >= 1 /\ Len(one) + Len(as) + Len(ss) >= 1
      BY <1>2, <2>2, <2>3, <2>4
    <3>3. /\ one \o as \in Seq(FromTheTask) /\ Len(one \o as) = Len(one) + Len(as)
          /\ (one \o as)[1] = one[1]
      <4>1. one \o as \in Seq(FromTheTask) /\ Len(one \o as) = Len(one) + Len(as)
        BY <3>1, ConcatTyped
      <4>2. (one \o as)[1] = one[1]
        BY <3>1, <3>2, ConcatTyped
      <4>3. QED
        BY <4>1, <4>2
    <3>4. /\ (one \o as) \o ss \in Seq(FromTheTask)
          /\ Len((one \o as) \o ss) = Len(one \o as) + Len(ss)
          /\ ((one \o as) \o ss)[1] = (one \o as)[1]
      BY <3>1, <3>2, <3>3, ConcatTyped
    <3>5. /\ ((one \o as) \o ss) \o ps \in Seq(FromTheTask)
          /\ Len(((one \o as) \o ss) \o ps) = Len((one \o as) \o ss) + Len(ps)
          /\ (((one \o as) \o ss) \o ps)[1] = ((one \o as) \o ss)[1]
      BY <3>1, <3>2, <3>3, <3>4, ConcatTyped
    <3>6. QED
      BY <3>3, <3>4, <3>5
  <2>7. QED
    BY <2>2, <2>3, <2>4, <2>5, <2>6
<1> DEFINE front == one \o as \o ss \o ps
<1>4. /\ nodes \in Seq(Node) /\ Len(nodes) = base + Len(declared)
      /\ \A n \in 1..base : nodes[n] \in FromTheTask
      /\ nodes[1] = IntentNode
  <2>1. /\ front \in Seq(FromTheTask) /\ Len(front) = base /\ front \in Seq(Node)
        /\ front[1] = IntentNode
    <3>1. front \in Seq(FromTheTask) /\ Len(front) = base /\ front[1] = IntentNode
      BY <1>3
    <3> HIDE DEF front
    <3>2. front \in Seq(Node)
      BY <3>1 DEF FromTheTask, Fresh
    <3>3. QED
      BY <3>1, <3>2
  <2>2. nodes = front \o declared
    OBVIOUS
  <2> HIDE DEF front, nodes, declared, base
  <2>3. nodes \in Seq(Node) /\ Len(nodes) = base + Len(declared)
    BY <1>2, <2>1, <2>2, ConcatProperties
  <2>4. \A n \in 1..base : nodes[n] = front[n]
    BY <1>2, <2>1, <2>2, ConcatProperties
  <2>5. \A n \in 1..base : front[n] \in FromTheTask
    BY <1>2, <2>1, ElementOfSeq
  <2>6. nodes[1] = IntentNode
    <3>1. 1 \in 1..base
      BY <1>2 DEF base
    <3>2. QED
      BY <2>1, <2>4, <3>1
  <2>7. QED
    BY <2>3, <2>4, <2>5, <2>6
<1> HIDE DEF nodes
<1>5. \A e \in edges : e \in Edges /\ e.target = 1 /\ e.source \in 2..base
  <2>1. \A n \in 2..base, r \in {"SUPPORTS", "REFINES", "BLOCKS"} :
           LET e == Edge(n, 1, r) IN e \in Edges /\ e.target = 1 /\ e.source \in 2..base
    BY <1>2 DEF Edge, Edges, Relations
  <2>2. /\ 2..(1 + a) \subseteq 2..base
        /\ (2 + a)..(1 + a + s) \subseteq 2..base
        /\ (2 + a + s)..(1 + a + s + p) \subseteq 2..base
    BY <1>2
  <2>3. QED
    BY <2>1, <2>2
<1> HIDE DEF edges
<1>6. ~Cyclic(edges)
  BY <1>2, <1>5, StarAcyclic
<1>7. /\ new \in Graph /\ new.nodes = nodes /\ new.edges = edges
      /\ new.mentioned = 1..Len(nodes)
  <2>1. << >> \in Seq(Event) /\ edges \in SUBSET Edges /\ 1..Len(nodes) \in SUBSET Nat
    BY <1>2, <1>4, <1>5, EmptySeq
  <2>2. QED
    BY <1>4, <2>1 DEF Graph, Edges
<1> HIDE DEF new
<1>8. Conserved(new, DeclaredIds(t))
  <2>1. NodeIds(new) = 1..(base + Len(declared)) /\ new.mentioned = NodeIds(new)
    BY <1>4, <1>7 DEF NodeIds
  <2>2. NoDanglingEdge(new)
    BY <1>2, <1>5, <1>7, <2>1 DEF NoDanglingEdge
  <2>3. \A n \in 1..base : Accountable(new, n)
    BY <1>4, <1>7 DEF Accountable, FromTheTask, Fresh
  <2>4. \A n \in NodeIds(new) : n \in DeclaredIds(t) \/ n \in 1..base
    BY <1>2, <2>1 DEF DeclaredIds
  <2>5. QED
    BY <2>1, <2>2, <2>3, <2>4 DEF Conserved
<1>9. Sound(new, DeclaredIds(t))
  BY <1>6, <1>7, <1>8 DEF Sound
<1>10. ActiveIds(new) \in SUBSET NodeIds(new) /\ {} \in SUBSET NodeIds(new)
  BY <1>7, GraphTyped
<1>11. LET g == FromTask(t)
       IN  Improves(new, g, DeclaredIds(t)) /\ g.nodes = new.nodes /\ g.edges = new.edges
  BY <1>1, <1>9, <1>10, RecordSound DEF Operations
<1>12. /\ \A n \in NodeIds(new) : n \in DeclaredIds(t) \/ nodes[n] \in FromTheTask
       /\ DeclaredIds(t) \subseteq NodeIds(new) /\ 1 \in NodeIds(new)
  <2>1. NodeIds(new) = 1..(base + Len(declared)) /\ base \in Nat /\ base >= 1
    BY <1>2, <1>4, <1>7 DEF NodeIds
  <2>2. DeclaredIds(t) = (base + 1)..(base + Len(declared)) /\ Len(declared) \in Nat
    BY <1>2 DEF DeclaredIds
  <2>3. \A n \in NodeIds(new) : n \in DeclaredIds(t) \/ n \in 1..base
    BY <2>1, <2>2
  <2>4. DeclaredIds(t) \subseteq NodeIds(new) /\ 1 \in NodeIds(new)
    BY <2>1, <2>2
  <2> QED
    BY <1>4, <2>3, <2>4
<1>13. 1 \notin DeclaredIds(t)
  BY <1>2 DEF DeclaredIds
<1>14. QED
  BY <1>4, <1>5, <1>7, <1>11, <1>12, <1>13 DEF Improves, NodeIds

-----------------------------------------------------------------------------
(* What the operations do to nodes and edges.                              *)

(* What SetStatus does to the nodes.                                       *)
WithStatus(nodes, n, status, why) ==
  [nodes EXCEPT ![n] = [nodes[n] EXCEPT !.status = status, !.why = why]]

(* A record that may be updated as a graph is, before it is known to be    *)
(* one.                                                                    *)
Fields(g) == {"nodes", "edges", "recent", "mentioned"} \subseteq DOMAIN g

(* An event leaves nodes and edges.                                        *)
LEMMA RecordShape ==
  ASSUME NEW g, Fields(g), NEW operation, NEW affected, NEW before
  PROVE  LET h == Record(g, operation, affected, before)
         IN  Fields(h) /\ h.nodes = g.nodes /\ h.edges = g.edges
  BY DEF Record, Fields

(* The loop over evidence_ids adds its edges, and leaves the nodes.        *)
LEMMA LinkShape ==
  ASSUME NEW g, Fields(g), NEW evidence, NEW n, NEW r, NEW k
  PROVE  LET h == LinkFirst(g, evidence, n, r, k)
         IN  /\ Fields(h) /\ h.nodes = g.nodes
             /\ h.edges = g.edges \cup FirstEdges(evidence, n, r, k)
  BY DEF LinkFirst, FirstEdges, Fields

(* A status that is set leaves the edges.                                  *)
LEMMA StatusShape ==
  ASSUME NEW g, Fields(g), NEW n, NEW status, NEW why
  PROVE  LET h == SetStatus(g, n, status, why)
         IN  /\ Fields(h) /\ h.edges = g.edges
             /\ h.nodes = WithStatus(g.nodes, n, status, why)
  BY DEF SetStatus, Fields, WithStatus

(* A graph is such a record.                                               *)
LEMMA GraphFields == ASSUME NEW g \in Graph PROVE Fields(g)
  BY DEF Graph, Fields

(* The edges of the loop go to the obligation.                             *)
LEMMA FirstEdgesTarget ==
  ASSUME NEW evidence, NEW n, NEW r, NEW k
  PROVE  \A e \in FirstEdges(evidence, n, r, k) : e.target = n
  BY DEF FirstEdges, Edge

(* Some evidence of g is connected to n.                                   *)
Backed(g, edges, n) ==
  \E e \in NodeIds(g), r \in {"DISCHARGES", "CONTRADICTS"} :
    g.nodes[e].kind = "EVIDENCE" /\ Edge(e, n, r) \in edges

(* What the loop over evidence_ids adds to a list that has been checked.   *)
LEMMA AllEdgesBack ==
  ASSUME NEW g, NEW evidence \in Seq(Nat), NEW n, NEW r \in {"DISCHARGES", "CONTRADICTS"},
         NEW k, k = Len(evidence), evidence # << >>,
         \A e \in Members(evidence) : IsEvidence(g, e)
  PROVE  Backed(g, FirstEdges(evidence, n, r, k), n)
<1>1. k \in Nat /\ 1 \in 1..k
  BY EmptySeq, LenProperties
<1>2. evidence[1] \in NodeIds(g) /\ g.nodes[evidence[1]].kind = "EVIDENCE"
  BY <1>1 DEF Members, IsEvidence
<1>3. Edge(evidence[1], n, r) \in FirstEdges(evidence, n, r, k)
  BY <1>1 DEF FirstEdges
<1> QED
  BY <1>2, <1>3 DEF Backed

(* A result in which n, at most, was given a status, with new edges to it, *)
(* and with what supports that status.                                     *)
SetsAtMost(g, result, n, statuses) ==
  LET h == result.graph
  IN  /\ \A e \in h.edges \ g.edges : e.target = n
      /\ ~result.ok => h.nodes = g.nodes
      /\ result.ok => /\ n \in NodeIds(g)
                      /\ \E status \in statuses, why \in Explanations :
                           /\ h.nodes = WithStatus(g.nodes, n, status, why)
                           /\ \/ status \in {"DISCHARGED", "REFUTED"} /\ Backed(g, h.edges, n)
                              \/ status \in {"DEFERRED", "ESCALATED"} /\ why # "none"

(* discharge: the status only when every edge was accepted.                *)
LEMMA DischargeShape ==
  ASSUME NEW g \in Graph, NEW n, NEW evidence \in Seq(Nat)
  PROVE  SetsAtMost(g, Discharge(g, n, evidence), n, {"DISCHARGED"})
<1> DEFINE stops == {i \in 1..Len(evidence) :
                   ~EdgeAccepted(LinkFirst(g, evidence, n, "DISCHARGES", i - 1),
                                 evidence[i], n, "DISCHARGES")}
           k == Completed(evidence, stops)
           linked == LinkFirst(g, evidence, n, "DISCHARGES", k)
           settled == SetStatus(linked, n, "DISCHARGED", "none")
           done == Record(settled, "DISCHARGE_OBLIGATION", {n} \cup Members(evidence), ActiveIds(g))
<1>1. \/ Discharge(g, n, evidence) = Raised(g)
      \/ Discharge(g, n, evidence) = Raised(linked)
      \/ /\ Discharge(g, n, evidence) = Ok(done) /\ n \in NodeIds(g)
         /\ evidence # << >> /\ ~(k < Len(evidence))
         /\ \A e \in Members(evidence) : IsEvidence(g, e)
  BY DEF Discharge
<1>2. evidence # << >> /\ ~(k < Len(evidence)) /\ (\A e \in Members(evidence) : IsEvidence(g, e))
        => Backed(g, FirstEdges(evidence, n, "DISCHARGES", k), n)
  <2>1. k \in 0..Len(evidence) /\ Len(evidence) \in Nat
    BY CompletedBound
  <2>2. ~(k < Len(evidence)) => k = Len(evidence)
    BY <2>1
  <2> HIDE DEF k, stops
  <2> QED
    BY <2>2, AllEdgesBack
<1> HIDE DEF k, stops
<1>3. /\ Fields(linked) /\ linked.nodes = g.nodes
      /\ linked.edges = g.edges \cup FirstEdges(evidence, n, "DISCHARGES", k)
  BY GraphFields, LinkShape
<1> HIDE DEF linked
<1>4. /\ Fields(settled) /\ settled.edges = linked.edges
      /\ settled.nodes = WithStatus(g.nodes, n, "DISCHARGED", "none")
  BY <1>3, StatusShape
<1> HIDE DEF settled
<1>5. done.nodes = settled.nodes /\ done.edges = settled.edges
  BY <1>4, RecordShape
<1> HIDE DEF done
<1>6. "none" \in Explanations
  BY DEF Explanations
<1>7. Backed(g, FirstEdges(evidence, n, "DISCHARGES", k), n) => Backed(g, linked.edges, n)
  BY <1>3 DEF Backed
<1>8. \A e \in linked.edges \ g.edges : e.target = n
  BY <1>3, FirstEdgesTarget
<1>9. CASE Discharge(g, n, evidence) = Raised(g) \/ Discharge(g, n, evidence) = Raised(linked)
  BY <1>3, <1>8, <1>9 DEF SetsAtMost, Raised
<1>10. CASE /\ Discharge(g, n, evidence) = Ok(done) /\ n \in NodeIds(g)
            /\ Backed(g, FirstEdges(evidence, n, "DISCHARGES", k), n)
  <2>1. done.edges = linked.edges /\ Backed(g, done.edges, n)
        /\ done.nodes = WithStatus(g.nodes, n, "DISCHARGED", "none")
    BY <1>4, <1>5, <1>7, <1>10
  <2> QED
    BY <1>6, <1>8, <1>10, <2>1 DEF SetsAtMost, Ok
<1> QED
  BY <1>1, <1>2, <1>9, <1>10

(* refute: the status only when every id was that of an evidence node.     *)
LEMMA RefuteShape ==
  ASSUME NEW g \in Graph, NEW n, NEW evidence \in Seq(Nat)
  PROVE  SetsAtMost(g, Refute(g, n, evidence), n, {"REFUTED"})
<1> DEFINE stops == {i \in 1..Len(evidence) : ~IsEvidence(g, evidence[i])}
           k == Completed(evidence, stops)
           linked == LinkFirst(g, evidence, n, "CONTRADICTS", k)
           settled == SetStatus(linked, n, "REFUTED", "none")
           done == Record(settled, "REFUTE_OBLIGATION", {n} \cup Members(evidence), ActiveIds(g))
<1>1. \/ Refute(g, n, evidence) = Raised(g)
      \/ Refute(g, n, evidence) = Raised(linked)
      \/ /\ Refute(g, n, evidence) = Ok(done) /\ n \in NodeIds(g)
         /\ evidence # << >> /\ ~(k < Len(evidence))
  BY DEF Refute
<1>2. evidence # << >> /\ ~(k < Len(evidence))
        => Backed(g, FirstEdges(evidence, n, "CONTRADICTS", k), n)
  <2>1. k \in 0..Len(evidence) /\ Len(evidence) \in Nat /\ \A i \in 1..k : i \notin stops
    BY CompletedBound
  <2>2. ~(k < Len(evidence)) => k = Len(evidence) /\ \A e \in Members(evidence) : IsEvidence(g, e)
    BY <2>1 DEF Members
  <2> HIDE DEF k, stops
  <2> QED
    BY <2>2, AllEdgesBack
<1> HIDE DEF k, stops
<1>3. /\ Fields(linked) /\ linked.nodes = g.nodes
      /\ linked.edges = g.edges \cup FirstEdges(evidence, n, "CONTRADICTS", k)
  BY GraphFields, LinkShape
<1> HIDE DEF linked
<1>4. /\ Fields(settled) /\ settled.edges = linked.edges
      /\ settled.nodes = WithStatus(g.nodes, n, "REFUTED", "none")
  BY <1>3, StatusShape
<1> HIDE DEF settled
<1>5. done.nodes = settled.nodes /\ done.edges = settled.edges
  BY <1>4, RecordShape
<1> HIDE DEF done
<1>6. "none" \in Explanations
  BY DEF Explanations
<1>7. Backed(g, FirstEdges(evidence, n, "CONTRADICTS", k), n) => Backed(g, linked.edges, n)
  BY <1>3 DEF Backed
<1>8. \A e \in linked.edges \ g.edges : e.target = n
  BY <1>3, FirstEdgesTarget
<1>9. CASE Refute(g, n, evidence) = Raised(g) \/ Refute(g, n, evidence) = Raised(linked)
  BY <1>3, <1>8, <1>9 DEF SetsAtMost, Raised
<1>10. CASE /\ Refute(g, n, evidence) = Ok(done) /\ n \in NodeIds(g)
            /\ Backed(g, FirstEdges(evidence, n, "CONTRADICTS", k), n)
  <2>1. done.edges = linked.edges /\ Backed(g, done.edges, n)
        /\ done.nodes = WithStatus(g.nodes, n, "REFUTED", "none")
    BY <1>4, <1>5, <1>7, <1>10
  <2> QED
    BY <1>6, <1>8, <1>10, <2>1 DEF SetsAtMost, Ok
<1> QED
  BY <1>1, <1>2, <1>9, <1>10

(* defer and escalate: the status with its reason.                         *)
LEMMA ExplainShape ==
  ASSUME NEW g \in Graph, NEW n, NEW why \in {"reason", "reason+retry"}
  PROVE  /\ SetsAtMost(g, Defer(g, n, why), n, {"DEFERRED"})
         /\ SetsAtMost(g, Escalate(g, n, why), n, {"ESCALATED"})
<1>1. ASSUME NEW status, NEW operation
      PROVE  LET h == Record(SetStatus(g, n, status, why), operation, {n}, ActiveIds(g))
             IN  /\ h.edges = g.edges
                 /\ h.nodes = WithStatus(g.nodes, n, status, why)
  <2>1. /\ Fields(SetStatus(g, n, status, why)) /\ SetStatus(g, n, status, why).edges = g.edges
        /\ SetStatus(g, n, status, why).nodes
             = WithStatus(g.nodes, n, status, why)
    BY GraphFields, StatusShape
  <2> QED
    BY <2>1, RecordShape
<1>2. why \in Explanations
  BY DEF Explanations
<1>3. SetsAtMost(g, Defer(g, n, why), n, {"DEFERRED"})
  BY <1>1, <1>2 DEF SetsAtMost, Defer, Raised, Ok
<1>4. SetsAtMost(g, Escalate(g, n, why), n, {"ESCALATED"})
  BY <1>1, <1>2 DEF SetsAtMost, Escalate, Raised, Ok
<1> QED
  BY <1>3, <1>4

(* The nodes when one of them was given a status.                          *)
LEMMA WithStatusIs ==
  ASSUME NEW nodes \in Seq(Node), NEW n \in 1..Len(nodes),
         NEW status \in ObligationStatuses, NEW why \in Explanations
  PROVE  LET to == WithStatus(nodes, n, status, why)
         IN  /\ Len(to) = Len(nodes)
             /\ \A m \in 1..Len(nodes) : m # n => to[m] = nodes[m]
             /\ to[n].status = status /\ to[n].why = why
             /\ to[n].kind = nodes[n].kind
<1> DEFINE changed == [nodes[n] EXCEPT !.status = status, !.why = why]
<1>1. nodes[n] \in Node
  BY ElementOfSeq
<1>2. /\ changed \in Node /\ changed.status = status /\ changed.why = why
      /\ changed.kind = nodes[n].kind
  BY <1>1 DEF Node
<1> HIDE DEF changed
<1>3. /\ Len([nodes EXCEPT ![n] = changed]) = Len(nodes)
      /\ \A m \in 1..Len(nodes) :
           [nodes EXCEPT ![n] = changed][m] = IF m = n THEN changed ELSE nodes[m]
  BY <1>2, ExceptSeq
<1>4. WithStatus(nodes, n, status, why) = [nodes EXCEPT ![n] = changed]
  BY DEF WithStatus, changed
<1> QED
  BY <1>2, <1>3, <1>4

(* add_node appends, and leaves the edges.                                 *)
LEMMA AddNodeShape ==
  ASSUME NEW g \in Graph, NEW node
  PROVE  AddNode(g, node).nodes = Append(g.nodes, node) /\ AddNode(g, node).edges = g.edges
<1> DEFINE stored == [g EXCEPT !.nodes = Append(@, node)]
<1>1. Fields(stored) /\ stored.nodes = Append(g.nodes, node) /\ stored.edges = g.edges
  BY GraphFields DEF Fields
<1> HIDE DEF stored
<1>2. \A operation, affected, before :
        LET h == Record(stored, operation, affected, before)
        IN  h.nodes = stored.nodes /\ h.edges = stored.edges
  BY <1>1, RecordShape
<1> QED
  BY <1>1, <1>2 DEF AddNode, stored

=============================================================================
