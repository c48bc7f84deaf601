---------------------------- MODULE ObligationGraph ----------------------------
(***************************************************************************)
(* One obligation graph of core/obligation_graph.py, created from a task   *)
(* (from_task) and then driven by any sequence of its operations, those    *)
(* that raise included.  The operators that say what an operation does     *)
(* are in ObligationGraphOps.                                              *)
(***************************************************************************)
EXTENDS ObligationGraphOps

CONSTANTS
  Tasks,              \* the tasks a graph may be created from
  NewNodes,           \* the nodes that add_node may be asked to add
  NewRelations,       \* the relations add_edge may be asked to add
  Reasons,            \* the explanations defer and escalate are given
  TransferRelations,  \* the relations transfer may be given
  MaxNodes,           \* bound: no operation adds a node beyond this many
  MaxEdges            \* bound: no operation starts with this many edges

(* Every caller in the repository creates a node OPEN or ACKNOWLEDGED      *)
(* (add_evidence alone creates it DISCHARGED), gives defer and escalate a  *)
(* nonempty reason, and leaves transfer its default relation, REFINES.     *)
(* Only a task's initial_obligations declare a status of their own.        *)
ASSUME CallersAssumption ==
  /\ NewNodes \subseteq {node \in Node : /\ node.status \in {"OPEN", "ACKNOWLEDGED"}
                                         /\ node.why = "none"}
  /\ NewRelations \subseteq Relations
  /\ Reasons \subseteq {"reason", "reason+retry"}
  /\ TransferRelations \subseteq {"REFINES", "TRANSFERS", "DECOMPOSES"}
  /\ MaxNodes \in Nat /\ MaxEdges \in Nat

ASSUME TasksAssumption ==
  Tasks \subseteq [assumptions: Nat, successConditions: Nat,
                   prohibitedShortcuts: Nat, initialObligations: Seq(Node)]

VARIABLES
  task,    \* the task the graph was created from; never changes
  graph,   \* the graph, see ObligationGraphOps
  ok       \* did the latest operation return normally?

vars == <<task, graph, ok>>

Init ==
  /\ task \in Tasks
  /\ graph = FromTask(task)
  /\ ok = TRUE

-----------------------------------------------------------------------------

Returns(result) == graph' = result.graph /\ ok' = result.ok /\ UNCHANGED task

Before == Settle(graph)

RoomForNode == Len(graph.nodes) < MaxNodes
RoomForEdge == Cardinality(graph.edges) < MaxEdges

Ids == 1..(MaxNodes + 1)   \* one of them is never a node: _node raises on it

AddObligation == RoomForNode /\ \E node \in NewNodes : Returns(Ok(AddNode(Before, node)))

AddEvidenceNode == RoomForNode /\ Returns(Ok(AddEvidence(Before)))

Relate ==
  /\ RoomForEdge
  /\ \E s, t \in Ids, r \in NewRelations : Returns(AddEdge(Before, s, t, r))

EvidenceLists == {<< >>} \cup {<<e>> : e \in Ids} \cup {<<e, f>> : e, f \in Ids}

DischargeNode ==
  RoomForEdge /\ \E n \in Ids, ev \in EvidenceLists : Returns(Discharge(Before, n, ev))

RefuteNode ==
  RoomForEdge /\ \E n \in Ids, ev \in EvidenceLists : Returns(Refute(Before, n, ev))

DeferNode == \E n \in Ids, why \in Reasons : Returns(Defer(Before, n, why))

EscalateNode == \E n \in Ids : Returns(Escalate(Before, n, "reason"))

TransferNode ==
  /\ RoomForNode /\ RoomForEdge
  /\ \E n \in Ids, r \in TransferRelations : Returns(Transfer(Before, n, r))

Next ==
  \/ AddObligation \/ AddEvidenceNode \/ Relate
  \/ DischargeNode \/ RefuteNode \/ DeferNode \/ EscalateNode \/ TransferNode

Spec == Init /\ [][Next]_vars

-----------------------------------------------------------------------------

(* Every variable has its type.                                            *)
TypeOK == task \in Tasks /\ graph \in Graph /\ ok \in BOOLEAN

(* The conservation law as a state: whatever was called, in whatever       *)
(* order, and wherever an operation raised half way, every obligation      *)
(* whose status an operation set is accountable (discharged or refuted     *)
(* with evidence, deferred or escalated with a reason, transferred with a  *)
(* transport edge), no edge dangles, and the history names only nodes      *)
(* that still exist.                                                       *)
Declared == DeclaredIds(task)

ConservationLaw == Conserved(graph, Declared)

(* add_edge rolls back the edge that would close a cycle, and the edges    *)
(* that discharge adds one by one go through it: the dependencies never    *)
(* form a cycle.                                                           *)
Acyclic == ~Cyclic(graph.edges)

(* A status the task author declared becomes accountable once an operation *)
(* sets it, and no operation takes accountability away, from any node.     *)
AccountabilityKept ==
  [][\A n \in NodeIds(graph) : Accountable(graph, n) => Accountable(graph', n)]_vars

(* Nodes and edges are never deleted, and what a node is never changes.    *)
NothingErased ==
  [][/\ Len(graph.nodes) <= Len(graph'.nodes)
     /\ graph.edges \subseteq graph'.edges
     /\ \A n \in NodeIds(graph) : Identity(graph'.nodes[n]) = Identity(graph.nodes[n])]_vars

(* An operation that raises settles nothing: it may leave edges or a new   *)
(* node behind, and the status of every existing node stays.               *)
RaisingSettlesNothing ==
  [][~ok' => \A n \in NodeIds(graph) : graph'.nodes[n].status = graph.nodes[n].status]_vars

(* The event list explains the active set: replayed from the active set    *)
(* before the operation, each event names every obligation that entered or *)
(* left since the event before it, and the last one ends in the active     *)
(* set of the graph.                                                       *)
EventsExplain(from, events, to) ==
  LET at(i) == IF i = 0 THEN from ELSE events[i].after
  IN  /\ \A i \in 1..Len(events) :
           (at(i - 1) \cup at(i)) \ (at(i - 1) \cap at(i)) \subseteq events[i].affected
      /\ at(Len(events)) = to

ActiveSetExplained ==
  [][EventsExplain(ActiveIds(graph), graph'.recent, ActiveIds(graph'))]_vars

(* What was allowed to be released is refused later only for a duty that   *)
(* is new, or was put aside or handed over since: never for more evidence, *)
(* for settling another duty, for what an edge brings about, or for what an*)
(* operation leaves behind that raised.                                    *)
Settled == {"DISCHARGED", "REFUTED", "ACKNOWLEDGED"}

ReleaseIsKept ==
  [][PromotionAllowed(graph, "RELEASED") /\ ~PromotionAllowed(graph', "RELEASED") =>
       \E n \in NodeIds(graph') :
         /\ graph'.nodes[n].blocking /\ graph'.nodes[n].status \notin Settled
         /\ n \in NodeIds(graph) => graph'.nodes[n].status # graph.nodes[n].status]_vars

(* docs/OBLIGATION_GRAPH.md, promotion rule 3: the required duties "exist  *)
(* and are satisfied".  The gate counts a refuted duty among the satisfied.*)
PromotedDutiesSatisfied ==
  PromotionAllowed(graph, "RELEASED") =>
    \A kind \in RequiredKinds("RELEASED") : \A n \in Find(graph, kind) :
      graph.nodes[n].blocking => graph.nodes[n].status # "REFUTED"

(* What the graph implements: the fates of AccountableObligations.         *)
Fate(n) ==
  IF n \notin NodeIds(graph) \/ IsEvidence(graph, n) THEN "absent"
  ELSE LET status == graph.nodes[n].status IN
    CASE n \in Declared /\ ~Accountable(graph, n) -> "declared"
      [] status = "OPEN" -> "open"
      [] status = "ACKNOWLEDGED" -> "acknowledged"
      [] status \in {"DEFERRED", "ESCALATED"} /\ Accountable(graph, n) -> "documented"
      [] status \in {"DISCHARGED", "REFUTED"} /\ Accountable(graph, n) -> "evidenced"
      [] status = "TRANSFERRED" /\ Accountable(graph, n) -> "transported"
      [] OTHER -> "lost"

Fates == [n \in 1..MaxNodes |-> Fate(n)]

Promise == INSTANCE AccountableObligations WITH Id <- 1..MaxNodes, fate <- Fates

ImplementsPromise == Promise!Spec
=============================================================================
