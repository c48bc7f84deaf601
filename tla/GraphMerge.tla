------------------------------- MODULE GraphMerge -------------------------------
(***************************************************************************)
(* The merge of the obligation graphs of several repositories              *)
(* (federation/graph_merge.py).  A caller holds the graphs as dictionaries,*)
(* computes digests of them to pin links, changes them, and merges some.   *)
(*                                                                         *)
(* namespace_graph writes the repository into the metadata of each node.   *)
(* The copy it makes of a node is shallow, so a metadata dictionary that   *)
(* exists is the caller's own; and the digest is taken afterwards.  Here   *)
(* mark says what the metadata of a node holds: NoMetadata when there is no*)
(* such entry, NoRepository when it names none, or the repository.         *)
(* A digest is the graph itself.                                           *)
(*                                                                         *)
(* Node ids are joined to names of repositories by colons, and both may    *)
(* hold colons themselves: a name is the sequence of its parts between     *)
(* them.  Repositories are numbered in the order of their names.           *)
(***************************************************************************)
EXTENDS Naturals, Sequences

CONSTANTS
  Repository, Node,
  Part,          \* what stands between the colons of a name
  RepositoryName, NodeName,   \* the sequences of the parts of names
  FirstGraphs,   \* what each repository's graph may be at first
  NoMetadata, NoRepository,
  NoPin,         \* required_digest left out
  MaxLinks,      \* bound: links declared
  MaxChanges     \* bound: edges added by callers

(* A dictionary: what the metadata of each node holds, and the edges.      *)
Dictionaries ==
  [mark: UNION {[nodes -> {NoMetadata, NoRepository} \cup Repository] : nodes \in SUBSET Node},
   edges: SUBSET (Node \X Node)]

MergeConstantsAreRight ==
  /\ Repository \subseteq Nat
  /\ RepositoryName \in [Repository -> Seq(Part)] /\ NodeName \in [Node -> Seq(Part)]
  /\ \A r, q \in Repository : RepositoryName[r] = RepositoryName[q] => r = q
  /\ \A n, m \in Node : NodeName[n] = NodeName[m] => n = m
  /\ FirstGraphs \subseteq Dictionaries
  /\ \A g \in FirstGraphs : \A n \in DOMAIN g.mark : g.mark[n] \in {NoMetadata, NoRepository}
  /\ MaxLinks \in Nat /\ MaxChanges \in Nat

VARIABLES
  graphs,    \* graphs[r] = [mark, edges], the dictionary of r
  links,     \* the CrossRepositoryObligations
  merged,    \* the result of the latest merge, or NoMerge
  changes    \* edges added so far

mergeVars == <<graphs, links, merged, changes>>

NoMerge == [valid |-> FALSE, repositories |-> {}]

MergeInit ==
  /\ graphs \in [Repository -> FirstGraphs]
  /\ links = << >> /\ merged = NoMerge /\ changes = 0

-----------------------------------------------------------------------------

NodesOf(g) == DOMAIN g.mark

GraphDigest(g) == g

(* What a digest is a digest of, but for the repository's mark.            *)
Content(g) == [nodes |-> NodesOf(g), edges |-> g.edges]

(* namespace_graph raises KeyError at an edge to a node that is not there, *)
(* when it has marked the nodes already.                                   *)
Resolvable(g) == \A e \in g.edges : {e[1], e[2]} \subseteq NodesOf(g)

(* Fault: the node's own id is written in the place of its repository.     *)
MarkedById(g, r) == [g EXCEPT !.mark = [n \in NodesOf(g) |-> n]]

Marked(g, r) ==
  [g EXCEPT !.mark = [n \in NodesOf(g) |-> IF g.mark[n] = NoMetadata THEN NoMetadata ELSE r]]

(* Fault: the nodes keep their own ids.                                    *)
IdOfNode(r, n) == NodeName[n]

Id(r, n) == RepositoryName[r] \o NodeName[n]

LinkedIds(g, r) == {[source |-> Id(r, e[1]), target |-> Id(r, e[2])] : e \in g.edges}

(* Fault: nodes without metadata are skipped.                              *)
NamespacedWithMetadata(g, r) ==
  [nodes |-> {[id |-> Id(r, n), repository |-> r] :
                n \in {m \in NodesOf(g) : g.mark[m] # NoMetadata}},
   edges |-> LinkedIds(g, r)]

Namespaced(g, r) ==
  [nodes |-> {[id |-> Id(r, n), repository |-> r] : n \in NodesOf(g)},
   edges |-> LinkedIds(g, r)]

NodesIn(gs, rs) == UNION {Namespaced(gs[r], r).nodes : r \in rs}

Ids(nodes) == {n.id : n \in nodes}

LinkIds(link) ==
  [source |-> Id(link.source[1], link.source[2]), target |-> Id(link.target[1], link.target[2])]

(* Fault: the digest covers the nodes and not the edges.                   *)
ResolvesByNodes(link, gs, rs) ==
  /\ {LinkIds(link).source, LinkIds(link).target} \subseteq Ids(NodesIn(gs, rs))
  /\ link.pin # NoPin =>
       link.target[1] \in rs /\ NodesOf(link.pin) = NodesOf(gs[link.target[1]])

(* One round of the loop over the links, when the graphs rs are merged and *)
(* gs is what they are by now: the ids are looked up among all the nodes.  *)
Resolves(link, gs, rs) ==
  /\ {LinkIds(link).source, LinkIds(link).target} \subseteq Ids(NodesIn(gs, rs))
  /\ link.pin # NoPin => link.target[1] \in rs /\ link.pin = GraphDigest(gs[link.target[1]])

Unresolved(gs, rs) == {i \in DOMAIN links : ~Resolves(links[i], gs, rs)}

Merged(gs, rs) ==
  [valid        |-> Unresolved(gs, rs) = {},
   repositories |-> rs,
   contents     |-> [r \in rs |-> Content(gs[r])],
   nodes        |-> NodesIn(gs, rs),
   edges        |-> (UNION {Namespaced(gs[r], r).edges : r \in rs})
                    \cup {LinkIds(links[i]) : i \in DOMAIN links \ Unresolved(gs, rs)},
   declared     |-> links,
   unresolved   |-> Unresolved(gs, rs)]

-----------------------------------------------------------------------------
(* Operations.                                                             *)

AddLink(s, t, pinned) ==
  /\ Len(links) < MaxLinks /\ s[1] # t[1]
  /\ links' = Append(links, [source |-> s, target |-> t,
                             pin |-> IF pinned THEN GraphDigest(graphs[t[1]]) ELSE NoPin])
  /\ UNCHANGED <<graphs, merged, changes>>

(* The graph of a repository goes on: a node is linked to another one.     *)
Change(r, n, m) ==
  /\ changes < MaxChanges
  /\ changes' = changes + 1
  /\ graphs' = [graphs EXCEPT ![r].edges = @ \cup {<<n, m>>}]
  /\ UNCHANGED <<links, merged>>

(* Repositories are namespaced in the order of their names; the first that *)
(* cannot be stops the merge, and leaves its mark and those before it.     *)
Merge(rs) ==
  LET marked(upto) ==
        [r \in Repository |-> IF r \in upto THEN Marked(graphs[r], r) ELSE graphs[r]]
  IN  \/ /\ \A r \in rs : Resolvable(graphs[r])
         /\ graphs' = marked(rs)
         /\ merged' = Merged(graphs', rs)
         /\ UNCHANGED <<links, changes>>
      \/ \E r \in rs :
           /\ ~Resolvable(graphs[r])
           /\ \A q \in rs : q < r => Resolvable(graphs[q])
           /\ graphs' = marked({q \in rs : q <= r})
           /\ UNCHANGED <<links, merged, changes>>

MergeNext ==
  \/ \E r, q \in Repository, n, m \in Node, pinned \in BOOLEAN :
       AddLink(<<r, n>>, <<q, m>>, pinned)
  \/ \E r \in Repository, n, m \in Node : Change(r, n, m)
  \/ \E rs \in (SUBSET Repository) \ {{}} : Merge(rs)

MergeSpec == MergeInit /\ [][MergeNext]_mergeVars

-----------------------------------------------------------------------------
(* Properties.                                                             *)

(* Types.                                                                  *)
MergeTypeOK ==
  /\ \A r \in Repository :
       /\ NodesOf(graphs[r]) \subseteq Node
       /\ \A n \in NodesOf(graphs[r]) : graphs[r].mark[n] \in {NoMetadata, NoRepository, r}
       /\ graphs[r].edges \subseteq Node \X Node
  /\ Len(links) <= MaxLinks /\ changes <= MaxChanges
  /\ merged.valid \in BOOLEAN /\ merged.repositories \subseteq Repository

(* One name begins with the other one and a colon.                         *)
Nested(r, q) ==
  \E longer \in {r, q}, shorter \in {r, q} :
    /\ Len(RepositoryName[shorter]) < Len(RepositoryName[longer])
    /\ SubSeq(RepositoryName[longer], 1, Len(RepositoryName[shorter])) = RepositoryName[shorter]

(* The merged graph is a graph again: each edge, those of the repositories *)
(* and the cross-repository ones, joins two of its nodes.                  *)
EdgesJoinNodes ==
  merged # NoMerge =>
    \A e \in merged.edges : {e.source, e.target} \subseteq Ids(merged.nodes)

(* An id stands for one node, and a link that became an edge joins nodes of*)
(* the repositories that it names, unless one repository has a name that   *)
(* begins with the other's and a colon: "a:b:c" may be b:c of "a" or c of  *)
(* "a:b", and a link to the one is then satisfied by the other.            *)
EndsMeet(end, n) == n.repository = end[1] \/ Nested(n.repository, end[1])

IdsAreOfOneNode ==
  merged # NoMerge =>
    /\ \A n, m \in merged.nodes : n.id = m.id => n = m \/ Nested(n.repository, m.repository)
    /\ \A i \in DOMAIN merged.declared \ merged.unresolved : \A n \in merged.nodes :
         /\ n.id = LinkIds(merged.declared[i]).source => EndsMeet(merged.declared[i].source, n)
         /\ n.id = LinkIds(merged.declared[i]).target => EndsMeet(merged.declared[i].target, n)

(* A link that names a digest holds only against that version of its       *)
(* target: when it becomes an edge, nobody changed the graph meanwhile.    *)
PinnedEdgeMeansSameContent ==
  merged # NoMerge =>
    \A i \in DOMAIN merged.declared \ merged.unresolved :
      LET link == merged.declared[i]
      IN  link.pin # NoPin => /\ link.target[1] \in merged.repositories
                              /\ Content(link.pin) = merged.contents[link.target[1]]

(* The result of a merge is a graph, and none of its edges was pinned to   *)
(* another version of its target than the one that was merged.             *)
MergeIsFaithful ==
  MergeTypeOK /\ EdgesJoinNodes /\ IdsAreOfOneNode /\ PinnedEdgeMeansSameContent

=============================================================================
