----------------------------- MODULE Evidence_proofs -----------------------------
(***************************************************************************)
(* What independent parties say of a result: the evidence ledger, the      *)
(* tension engine that reads it, and the reproductions.  First the ledger  *)
(* alone, with none of the assumptions of the tension engine: an approval  *)
(* is accounted for when it is given, whatever was altered and submitted   *)
(* anew before, an objection that is on file is heeded, and support never  *)
(* costs an approval.  Then the tension engine: it finds a                 *)
(* tension exactly where the ledger finds a conflict, repetitions of a     *)
(* source leave the score as it is, a result counts once and for what it   *)
(* tells, and no cheaper experiment tells more than the one recommended.   *)
(* The merge of obligation graphs, which the federation has too, stands by *)
(* itself, as do the reproductions: what is called reproduced is agreed on *)
(* by all of the evaluators, each in a process of its own, from inputs     *)
(* nobody changed, and a run that was alone leaves the directory to itself.*)
(***************************************************************************)
EXTENDS Tension, GraphMerge, Reproduction, FiniteSums, SequenceTheorems

(* ApprovalIsBacked is inductive with the types: that the organizations of *)
(* those who support are those they are registered for is verified, and    *)
(* what they support is what they signed.                                  *)
IInv ==
  /\ TypeOK /\ ApprovalIsBacked
  /\ IsFiniteSet(file) /\ decisions = [o \in Obligation |-> decisions[o]]

-----------------------------------------------------------------------------

(* The initial state satisfies the invariant: nothing is on file.          *)
LEMMA InitInv == Init => IInv
<1> SUFFICES ASSUME Init PROVE IInv
  OBVIOUS
<1>1. IsFiniteSet({})
  BY FS_EmptySet
<1>2. \A o \in Obligation : decisions[o] = NoDecision /\ decisions[o].status # "APPROVED"
  BY DEF Init, NoDecision
<1>3. TypeOK
  BY <1>2 DEF Init, TypeOK
<1>4. ApprovalIsBacked
  BY <1>2 DEF ApprovalIsBacked
<1> QED
  BY <1>1, <1>3, <1>4 DEF IInv, Init

(* What Submit, Alter and Sign do to the file: one submission is the one   *)
(* they give, and has its id.                                              *)
Files(e) ==
  /\ file' = Filed(e) /\ UNCHANGED <<actors, active, satisfied, decisions>>
  /\ IsSubmission(e) /\ e.signature.actor \in actors
  /\ e.signature.organization = Identity[e.signature.actor].organization

(* What is signed is such a submission.                                    *)
LEMMA SignedFiles ==
  ASSUME IInv, NEW id \in SubmissionId, NEW s \in Statement, MaySign(s),
         file' = Filed(Signed(id, s)), UNCHANGED <<actors, active, satisfied, decisions>>
  PROVE  Files(Signed(id, s))
<1>1. /\ Signed(id, s) = [id |-> id, says |-> s, signature |-> s]
      /\ Signed(id, s).id = id /\ Signed(id, s).says = s /\ Signed(id, s).signature = s
  BY DEF Signed
<1>2. IsSubmission(Signed(id, s))
  BY <1>1 DEF IsSubmission
<1>3. s.actor \in actors /\ s.organization = Identity[s.actor].organization
  BY DEF MaySign, IInv, TypeOK
<1> QED
  BY <1>1, <1>2, <1>3 DEF Files

(* So is one that is altered.                                              *)
LEMMA AlterFiles ==
  ASSUME IInv, NEW e \in file, NEW s \in Statement, Alter(e, s)
  PROVE  Files([e EXCEPT !.says = s])
<1> DEFINE altered == [e EXCEPT !.says = s]
<1>1. /\ IsSubmission(e) /\ e.signature.actor \in actors
      /\ e.signature.organization = Identity[e.signature.actor].organization
  BY DEF IInv, TypeOK
<1>2. /\ altered = [id |-> e.id, says |-> s, signature |-> e.signature]
      /\ altered.id = e.id /\ altered.says = s /\ altered.signature = e.signature
  BY <1>1 DEF IsSubmission
<1>3. file' = Filed(altered) /\ UNCHANGED <<actors, active, satisfied, decisions>>
  BY DEF Alter
<1> HIDE DEF altered
<1>4. IsSubmission(altered)
  BY <1>1, <1>2 DEF IsSubmission
<1>5. Files(altered)
  BY <1>1, <1>2, <1>3, <1>4 DEF Files
<1> QED
  BY <1>5 DEF altered

(* Every step that changes the file files a submission.                    *)
LEMMA StepFiles ==
  ASSUME IInv, [Next]_vars, file' # file
  PROVE  \E e : Files(e)
<1>1. ASSUME NEW id \in SubmissionId, NEW s \in Offer, Submit(id, s)
      PROVE  Files(Signed(id, s))
  <2>1. s \in Statement /\ MaySign(s)
    BY <1>1, StatementAssumption DEF Submit
  <2> QED
    BY <1>1, <2>1, SignedFiles DEF Submit
<1>2. ASSUME NEW e \in file, Sign(e)
      PROVE  Files(Signed(e.id, e.says))
  <2>1. e.id \in SubmissionId /\ e.says \in Statement /\ MaySign(e.says)
    BY <1>2 DEF IInv, TypeOK, IsSubmission, Sign
  <2> QED
    BY <1>2, <2>1, SignedFiles DEF Sign
<1> QED
  BY <1>1, <1>2, AlterFiles
  DEF Next, vars, RegisterActor, SetActive, MarkDependency, Evaluate

(* What is filed keeps the invariant: decisions read signatures of their   *)
(* own, so they do not notice.                                             *)
LEMMA FilesPreserves ==
  ASSUME IInv, NEW e, Files(e)
  PROVE  IInv'
<1>1. /\ file' = {f \in file : f.id # e.id} \cup {e}
      /\ UNCHANGED <<actors, active, satisfied, decisions>>
  BY DEF Files, Filed
<1>2. IsFiniteSet(file')
  <2>1. IsFiniteSet({f \in file : f.id # e.id})
    BY FS_Subset DEF IInv
  <2> QED
    BY <1>1, <2>1, FS_AddElement
<1>3. \A f \in file' :
        /\ IsSubmission(f) /\ f.signature.actor \in actors
        /\ f.signature.organization = Identity[f.signature.actor].organization
  BY <1>1 DEF IInv, TypeOK, Files
<1>4. \A f, g \in file' : f.id = g.id => f = g
  BY <1>1 DEF IInv, TypeOK
<1>5. TypeOK'
  BY <1>1, <1>3, <1>4 DEF IInv, TypeOK, IsSubmission
<1>6. ApprovalIsBacked'
  BY <1>1 DEF IInv, ApprovalIsBacked, Backed
<1> QED
  BY <1>1, <1>2, <1>5, <1>6 DEF IInv

(* An approval is given on a quorum of what is then counted.               *)
LEMMA ApprovalNeedsQuorum ==
  ASSUME NEW o, NEW p, Status(file, o, p) = "APPROVED"
  PROVE  Quorum(file, o, p)
  BY DEF Status

(* What verifies was signed as it is.                                      *)
LEMMA ValidIsSigned ==
  ASSUME IInv, NEW o, NEW verdict, NEW e \in Valid(file, o, verdict)
  PROVE  /\ e \in file /\ e.signature = e.says /\ e.says.actor \in actors
         /\ e.says.obligation = o /\ e.says.verdict = verdict
         /\ e.says.organization = Identity[e.says.actor].organization
  BY DEF Valid, EvidenceFor, Verifies, IInv, TypeOK

(* A decision that approves is backed by what it lists.                    *)
LEMMA DecisionIsBacked ==
  ASSUME IInv, NEW o \in Obligation, NEW p \in Policies, Status(file, o, p) = "APPROVED"
  PROVE  Backed(o, p, Decision(o, p).supporting) /\ Decision(o, p).policy = p
<1> DEFINE supporting == Valid(file, o, "SUPPORTS")
           signatures == {e.signature : e \in supporting}
<1>1. Quorum(file, o, p)
  BY ApprovalNeedsQuorum
<1>2. \A e \in supporting :
        /\ e.signature = e.says /\ e.says.actor \in actors
        /\ e.says.obligation = o /\ e.says.verdict = "SUPPORTS"
        /\ e.says.organization = Identity[e.says.actor].organization
  BY ValidIsSigned
<1>3. /\ Cardinality(Organizations(supporting)) >= p.organizations
      /\ Cardinality(Groups(supporting)) >= p.groups
      /\ p.roles \subseteq RolesPresent(supporting)
  BY <1>1 DEF Quorum
<1>4. Decision(o, p).supporting = signatures /\ Decision(o, p).policy = p
  BY DEF Decision
<1> HIDE DEF supporting
<1>5. Organizations(supporting) = {Identity[s.actor].organization : s \in signatures}
  BY <1>2 DEF Organizations
<1>6. Groups(supporting) = {s.group : s \in signatures}
  BY <1>2 DEF Groups
<1>7. RolesPresent(supporting) = UNION {Identity[s.actor].roles : s \in signatures}
  <2>1. {Identity[e.says.actor].roles : e \in supporting}
          = {Identity[s.actor].roles : s \in signatures}
    BY <1>2
  <2> QED
    BY <2>1 DEF RolesPresent
<1>8. \A s \in signatures : s.actor \in actors /\ s.obligation = o /\ s.verdict = "SUPPORTS"
  BY <1>2
<1> HIDE DEF signatures
<1> QED
  BY <1>3, <1>4, <1>5, <1>6, <1>7, <1>8 DEF Backed

(* Every step of the ledger preserves the invariant.                       *)
LEMMA StepInv == IInv /\ [Next]_vars => IInv'
<1> SUFFICES ASSUME IInv, [Next]_vars PROVE IInv'
  OBVIOUS
<1>1. ASSUME UNCHANGED <<file, decisions>>, actors \subseteq actors', actors' \subseteq Actor,
             active' \subseteq actors', satisfied' \subseteq Dependency
      PROVE IInv'
  <2>1. TypeOK'
    BY <1>1 DEF IInv, TypeOK, IsSubmission
  <2>2. ApprovalIsBacked'
    BY <1>1 DEF IInv, ApprovalIsBacked, Backed
  <2> QED
    BY <1>1, <2>1, <2>2 DEF IInv
<1>2. ASSUME NEW a \in Actor, NEW isActive \in BOOLEAN, RegisterActor(a, isActive) PROVE IInv'
  BY <1>1, <1>2 DEF RegisterActor, IInv, TypeOK
<1>3. ASSUME NEW a \in Actor, NEW isActive \in BOOLEAN, SetActive(a, isActive) PROVE IInv'
  BY <1>1, <1>3 DEF SetActive, IInv, TypeOK
<1>4. ASSUME NEW d \in Dependency, NEW isSatisfied \in BOOLEAN, MarkDependency(d, isSatisfied)
      PROVE IInv'
  BY <1>1, <1>4 DEF MarkDependency, IInv, TypeOK
<1>5. CASE file' # file
  BY <1>5, StepFiles, FilesPreserves
<1>6. ASSUME NEW o \in Obligation, NEW p \in Policies, Evaluate(o, p) PROVE IInv'
  <2>1. /\ decisions' = [decisions EXCEPT ![o] = Decision(o, p)]
        /\ UNCHANGED <<actors, active, file, satisfied>>
    BY <1>6 DEF Evaluate
  <2>2. /\ decisions' = [q \in Obligation |-> decisions'[q]]
        /\ decisions'[o] = Decision(o, p)
        /\ \A q \in Obligation \ {o} : decisions'[q] = decisions[q]
    BY <2>1 DEF IInv
  <2>3. /\ Decision(o, p).status = Status(file, o, p)
        /\ Status(file, o, p) \in Statuses
    BY DEF Decision, Status, Statuses
  <2>4. Status(file, o, p) = "APPROVED" =>
          Backed(o, p, Decision(o, p).supporting) /\ Decision(o, p).policy = p
    BY DecisionIsBacked
  <2>5. \A q \in Obligation : decisions'[q].status = "APPROVED" =>
          /\ decisions'[q].policy \in Policies
          /\ Backed(q, decisions'[q].policy, decisions'[q].supporting)
    BY <2>2, <2>3, <2>4 DEF IInv, TypeOK, ApprovalIsBacked
  <2>6. \A q \in Obligation : decisions'[q] = NoDecision \/ decisions'[q].status \in Statuses
    BY <2>2, <2>3 DEF IInv, TypeOK
  <2>7. TypeOK'
    BY <2>1, <2>5, <2>6 DEF IInv, TypeOK, IsSubmission
  <2>8. ApprovalIsBacked'
    BY <2>1, <2>5 DEF ApprovalIsBacked, Backed
  <2> QED
    BY <2>1, <2>2, <2>7, <2>8 DEF IInv
<1>7. CASE UNCHANGED vars
  BY <1>1, <1>7 DEF vars, IInv, TypeOK
<1>8. CASE file' = file
  BY <1>1, <1>2, <1>3, <1>4, <1>6, <1>7, <1>8
  DEF Next, Submit, Alter, Sign, IInv, TypeOK
<1> QED
  BY <1>5, <1>8

(* The invariant holds in every reachable state.                           *)
LEMMA Invariance == Spec => []IInv
  BY InitInv, StepInv, PTL DEF Spec

-----------------------------------------------------------------------------

(* The types of federation/ledger.py: whatever submissions were altered to *)
(* say, and whatever took the place of what, each has an id of its own and *)
(* a signature that a registered actor gave for its own organization.      *)
THEOREM LedgerTypeCorrect == Spec => []TypeOK
<1>1. IInv => TypeOK
  BY DEF IInv
<1> QED
  BY <1>1, Invariance, PTL

(* EvidenceLedger.evaluate: an approval rests on what registered actors of *)
(* as many organizations and provenance groups as the policy asked for, and*)
(* with its roles, signed in support of the obligation, whatever was       *)
(* altered, in which field, or replaced before it.                         *)
THEOREM ApprovalStaysBacked == Spec => []DecisionsAreBacked
<1>1. IInv => DecisionsAreBacked
  BY DEF IInv, DecisionsAreBacked
<1> QED
  BY <1>1, Invariance, PTL

(* While what was signed as a refutation is on file for an obligation, no  *)
(* evaluation approves it: one that verifies leaves a reason, and so does  *)
(* one that no longer does.                                                *)
LEMMA RefutedIsNotApproved ==
  ASSUME NEW o, NEW p, NEW e \in Objecting(o)
  PROVE  Status(file, o, p) # "APPROVED"
<1>1. e \in EvidenceFor(file, o) /\ e.signature.verdict = "REFUTES"
  BY DEF Objecting
<1>2. CASE Verifies(e)
  <2>1. e.signature = e.says
    BY <1>2 DEF Verifies
  <2> QED
    BY <1>1, <1>2, <2>1, ApprovalNeedsQuorum DEF Quorum, Valid
<1>3. CASE ~Verifies(e)
  BY <1>1, <1>3, ApprovalNeedsQuorum DEF Quorum, InvalidReasons
<1> QED
  BY <1>2, <1>3

(* "The runtime does not average contradictory evidence": a refutation on  *)
(* file holds every approval up, under every policy, and nothing but its   *)
(* own alteration or replacement takes it off the file.                    *)
THEOREM RefutationIsHeeded == Spec => ObjectionsStand
<1>1. ASSUME IInv, [Next]_vars, NEW o \in Obligation, NEW e \in Objecting(o)
      PROVE  decisions'[o] = decisions[o] \/ decisions'[o].status # "APPROVED"
  <2>1. ASSUME NEW q \in Obligation, NEW p \in Policies, Evaluate(q, p)
        PROVE  decisions'[o] = decisions[o] \/ decisions'[o].status # "APPROVED"
    <3>1. decisions' = [decisions EXCEPT ![q] = Decision(q, p)]
      BY <2>1 DEF Evaluate
    <3>2. CASE q = o
      <4>1. decisions'[o] = Decision(o, p)
        BY <1>1, <3>1, <3>2 DEF IInv
      <4>2. Status(file, o, p) # "APPROVED"
        BY <1>1, RefutedIsNotApproved
      <4> QED
        BY <4>1, <4>2 DEF Decision
    <3>3. CASE q # o
      BY <1>1, <3>1, <3>3 DEF IInv
    <3> QED
      BY <3>2, <3>3
  <2> QED
    BY <1>1, <2>1
    DEF Next, RegisterActor, SetActive, MarkDependency, Submit, Alter, Sign, vars
<1>2. ASSUME IInv, [Next]_vars, NEW o \in Obligation, NEW e \in Objecting(o)
      PROVE  e \in file' \/ \E f \in file' \ file : f.id = e.id
  <2>1. e \in file
    BY <1>2 DEF Objecting, EvidenceFor
  <2>2. CASE file' # file
    <3>1. PICK g : file' = {f \in file : f.id # g.id} \cup {g}
      BY <1>2, <2>2, StepFiles DEF Files, Filed
    <3>2. CASE e.id = g.id
      <4>1. g \in file => g = e
        BY <1>2, <2>1, <3>2 DEF IInv, TypeOK
      <4> QED
        BY <3>1, <3>2, <4>1
    <3> QED
      BY <2>1, <3>1, <3>2
  <2> QED
    BY <2>1, <2>2
<1>3. IInv /\ [Next]_vars => ObjectionStands
  BY <1>1, <1>2 DEF ObjectionStands
<1> QED
  BY <1>3, Invariance, PTL DEF Spec, ObjectionsStand

-----------------------------------------------------------------------------

(* The weight of a set of submissions is a total.                          *)
LEMMA WeightIsTotal ==
  ASSUME NEW S, IsFiniteSet(S), \A e \in S : Identity[e.says.actor].weight \in Int
  PROVE  TotalWeight(S) = Total([e \in S |-> Identity[e.says.actor].weight], S)
<1> DEFINE f == [e \in S |-> Identity[e.says.actor].weight]
           iter == CHOOSE h : h = [s \in SUBSET S |->
                     IF s = {} THEN 0
                     ELSE LET x == CHOOSE x \in s : TRUE
                          IN  Identity[x.says.actor].weight + h[s \ {x}]]
<1>1. TotalWeight(S) = iter[S]
  BY DEF TotalWeight, MapThenSumSet, MapThenFoldSet
<1>2. PICK g \in [SUBSET S -> Int] : Adds(g, f, S)
  BY AddsExists
<1>3. \A s \in SUBSET S : s # {} => Pick(s) \in S
  BY DEF Pick
<1>4. \A s \in SUBSET S : s # {} => f[Pick(s)] = Identity[Pick(s).says.actor].weight
  BY <1>3
<1>5. g = [s \in SUBSET S |->
             IF s = {} THEN 0
             ELSE LET x == CHOOSE x \in s : TRUE IN Identity[x.says.actor].weight + g[s \ {x}]]
  BY <1>2, <1>4 DEF Adds, Pick
<1>6. iter = [s \in SUBSET S |->
                IF s = {} THEN 0
                ELSE LET x == CHOOSE x \in s : TRUE IN Identity[x.says.actor].weight + iter[s \ {x}]]
  BY <1>5
<1> HIDE DEF iter
<1>7. Adds(iter, f, S)
  BY <1>4, <1>6 DEF Adds, Pick
<1>8. Total(f, S) = iter[S]
  BY <1>7, TotalIs
<1> QED
  BY <1>1, <1>8

(* More submissions weigh no less.                                         *)
LEMMA MoreWeighs ==
  ASSUME NEW T, IsFiniteSet(T), \A e \in T : Identity[e.says.actor].weight \in Nat,
         NEW S \in SUBSET T
  PROVE  TotalWeight(S) \in Nat /\ TotalWeight(T) \in Nat /\ TotalWeight(S) <= TotalWeight(T)
<1> DEFINE f == [e \in T |-> Identity[e.says.actor].weight]
           g == [e \in S |-> Identity[e.says.actor].weight]
<1>1. IsFiniteSet(S)
  BY FS_Subset
<1>2. /\ \A e \in T : f[e] \in Nat /\ f[e] \in Int
      /\ \A e \in S : f[e] \in Nat /\ f[e] \in Int /\ g[e] = f[e]
      /\ \A e \in T : Identity[e.says.actor].weight \in Int
  OBVIOUS
<1>3. TotalWeight(T) = Total(f, T)
  BY <1>2, WeightIsTotal
<1>4. TotalWeight(S) = Total(g, S)
  BY <1>1, <1>2, WeightIsTotal
<1> HIDE DEF f, g
<1>5. Total(g, S) = Total(f, S)
  BY <1>1, <1>2, TotalSame
<1>6. Total(f, S) \in Nat
  BY <1>1, <1>2, TotalOfNaturals
<1>7. Total(f, T) \in Nat
  BY <1>2, TotalOfNaturals
<1>8. Total(f, S) <= Total(f, T)
  BY <1>2, TotalGrows
<1> QED
  BY <1>3, <1>4, <1>5, <1>6, <1>7, <1>8

(* With more support, each dimension of a quorum has no less.              *)
LEMMA MoreIsMore ==
  ASSUME NEW S, IsFiniteSet(S), NEW e,
         \A f \in S \cup {e} : Identity[f.says.actor].weight \in Nat
  PROVE  \A n \in Nat :
           /\ Cardinality(Organizations(S)) >= n => Cardinality(Organizations(S \cup {e})) >= n
           /\ Cardinality(Groups(S)) >= n => Cardinality(Groups(S \cup {e})) >= n
           /\ TotalWeight(S) >= n => TotalWeight(S \cup {e}) >= n
<1> DEFINE T == S \cup {e}
<1>1. IsFiniteSet(T)
  BY FS_AddElement
<1>2. S \subseteq T /\ \A f \in T : Identity[f.says.actor].weight \in Nat
  OBVIOUS
<1> HIDE DEF T
<1>3. /\ IsFiniteSet(Organizations(T)) /\ Organizations(S) \subseteq Organizations(T)
      /\ IsFiniteSet(Groups(T)) /\ Groups(S) \subseteq Groups(T)
  <2>1. [f \in T |-> f.says.organization] \in Surjection(T, Organizations(T))
    BY DEF Surjection, Organizations
  <2>2. [f \in T |-> f.says.group] \in Surjection(T, Groups(T))
    BY DEF Surjection, Groups
  <2>3. IsFiniteSet(Organizations(T))
    BY <1>1, <2>1, FS_Surjection
  <2>4. IsFiniteSet(Groups(T))
    BY <1>1, <2>2, FS_Surjection
  <2> QED
    BY <1>2, <2>3, <2>4 DEF Organizations, Groups
<1>4. /\ Cardinality(Organizations(S)) <= Cardinality(Organizations(T))
      /\ Cardinality(Groups(S)) <= Cardinality(Groups(T))
      /\ IsFiniteSet(Organizations(S)) /\ IsFiniteSet(Groups(S))
  BY <1>3, FS_Subset
<1>5. /\ Cardinality(Organizations(S)) \in Nat /\ Cardinality(Organizations(T)) \in Nat
      /\ Cardinality(Groups(S)) \in Nat /\ Cardinality(Groups(T)) \in Nat
  BY <1>3, <1>4, FS_CardinalityType
<1>6. TotalWeight(S) \in Nat /\ TotalWeight(T) \in Nat /\ TotalWeight(S) <= TotalWeight(T)
  BY <1>1, <1>2, MoreWeighs
<1>7. \A n \in Nat :
        /\ Cardinality(Organizations(S)) >= n => Cardinality(Organizations(T)) >= n
        /\ Cardinality(Groups(S)) >= n => Cardinality(Groups(T)) >= n
        /\ TotalWeight(S) >= n => TotalWeight(T) >= n
  BY <1>4, <1>5, <1>6
<1> QED
  BY <1>7 DEF T

(* EvidenceLedger.evaluate: what would be approved now would be approved   *)
(* after any further support that submit accepts.                          *)
THEOREM SupportIsNoLoss == Spec => []SupportIsMonotone
<1>1. IInv => SupportIsMonotone
  <2> SUFFICES ASSUME IInv, NEW o \in Obligation, NEW p \in Policies,
                      Status(file, o, p) = "APPROVED", NEW r \in Offer,
                      r.obligation = o, r.verdict = "SUPPORTS", Verifies(Signed(Unfiled, r))
               PROVE  Status(file \cup {Signed(Unfiled, r)}, o, p) = "APPROVED"
    BY DEF SupportIsMonotone
  <2> DEFINE s == Signed(Unfiled, r)
             more == file \cup {s}
             supporting == Valid(file, o, "SUPPORTS")
  <2>1. s.says.obligation = o /\ s.says.verdict = "SUPPORTS" /\ s.says.actor = r.actor
    BY DEF Signed
  <2>2. Verifies(s)
    OBVIOUS
  <2> HIDE DEF s
  <2>3. /\ p.dependencies \subseteq satisfied /\ Quorum(file, o, p)
    BY DEF Status
  <2>4. /\ InvalidReasons(file, o) = {} /\ Valid(file, o, "REFUTES") = {}
        /\ Cardinality(Organizations(supporting)) >= p.organizations
        /\ Cardinality(Groups(supporting)) >= p.groups
        /\ TotalWeight(supporting) >= p.weight
        /\ p.roles \subseteq RolesPresent(supporting)
        /\ Valid(file, o, "INCONCLUSIVE") = {} \/ p.inconclusive
    BY <2>3 DEF Quorum
  <2>5. /\ InvalidReasons(more, o) = InvalidReasons(file, o)
        /\ Valid(more, o, "SUPPORTS") = supporting \cup {s}
        /\ Valid(more, o, "REFUTES") = Valid(file, o, "REFUTES")
        /\ Valid(more, o, "INCONCLUSIVE") = Valid(file, o, "INCONCLUSIVE")
    BY <2>1, <2>2 DEF InvalidReasons, Valid, EvidenceFor
  <2>6. IsFiniteSet(supporting) /\ supporting \subseteq file
    <3>1. supporting \subseteq file
      BY DEF Valid, EvidenceFor
    <3> QED
      BY <3>1, FS_Subset DEF IInv
  <2>7. \A f \in supporting \cup {s} : Identity[f.says.actor].weight \in Nat
    <3>1. \A f \in file : f.says.actor \in Actor
      BY StatementAssumption DEF IInv, TypeOK, IsSubmission
    <3>2. r.actor \in Actor
      BY StatementAssumption
    <3> QED
      BY <2>1, <2>6, <3>1, <3>2, ActorAssumption
  <2>8. \A n \in Nat :
          /\ Cardinality(Organizations(supporting)) >= n
               => Cardinality(Organizations(supporting \cup {s})) >= n
          /\ Cardinality(Groups(supporting)) >= n => Cardinality(Groups(supporting \cup {s})) >= n
          /\ TotalWeight(supporting) >= n => TotalWeight(supporting \cup {s}) >= n
    <3> HIDE DEF supporting
    <3> QED
      BY <2>6, <2>7, MoreIsMore
  <2>9. Quorum(more, o, p)
    <3>1. p.organizations \in Nat /\ p.groups \in Nat /\ p.weight \in Nat
      BY PolicyAssumption
    <3>2. RolesPresent(supporting) \subseteq RolesPresent(supporting \cup {s})
      BY DEF RolesPresent
    <3> HIDE DEF more, supporting
    <3>3. /\ Cardinality(Organizations(supporting \cup {s})) >= p.organizations
          /\ Cardinality(Groups(supporting \cup {s})) >= p.groups
          /\ TotalWeight(supporting \cup {s}) >= p.weight
      BY <2>4, <2>8, <3>1
    <3>4. p.roles \subseteq RolesPresent(supporting \cup {s})
      BY <2>4, <3>2
    <3> QED
      BY <2>4, <2>5, <3>3, <3>4 DEF Quorum
  <2>10. ~Conflicting(more, o) /\ Vetoes(more, o, p) = {}
    BY <2>4, <2>5 DEF Conflicting, Vetoes
  <2> HIDE DEF more
  <2>11. Status(more, o, p) = "APPROVED"
    BY <2>3, <2>9, <2>10 DEF Status
  <2> QED
    BY <2>11 DEF more, s
<1> QED
  BY <1>1, Invariance, PTL

-----------------------------------------------------------------------------
(* The tension engine.                                                     *)

(* The weight of a side is a total.                                        *)
LEMMA SideIsTotal ==
  ASSUME NEW S, IsFiniteSet(S), \A t \in S : t.weight \in Int
  PROVE  SideWeight(S) = Total([t \in S |-> t.weight], S)
<1> DEFINE f == [t \in S |-> t.weight]
           iter == CHOOSE h : h = [s \in SUBSET S |->
                     IF s = {} THEN 0
                     ELSE LET x == CHOOSE x \in s : TRUE
                          IN  x.weight + h[s \ {x}]]
<1>1. SideWeight(S) = iter[S]
  BY DEF SideWeight, MapThenSumSet, MapThenFoldSet
<1>2. PICK g \in [SUBSET S -> Int] : Adds(g, f, S)
  BY AddsExists
<1>3. \A s \in SUBSET S : s # {} => Pick(s) \in S
  BY DEF Pick
<1>4. \A s \in SUBSET S : s # {} => f[Pick(s)] = Pick(s).weight
  BY <1>3
<1>5. g = [s \in SUBSET S |->
             IF s = {} THEN 0
             ELSE LET x == CHOOSE x \in s : TRUE IN x.weight + g[s \ {x}]]
  BY <1>2, <1>4 DEF Adds, Pick
<1>6. iter = [s \in SUBSET S |->
                IF s = {} THEN 0
                ELSE LET x == CHOOSE x \in s : TRUE IN x.weight + iter[s \ {x}]]
  BY <1>5
<1> HIDE DEF iter
<1>7. Adds(iter, f, S)
  BY <1>4, <1>6 DEF Adds, Pick
<1>8. Total(f, S) = iter[S]
  BY <1>7, TotalIs
<1> QED
  BY <1>1, <1>8

(* It is a natural number, and zero only of the empty side.                *)
LEMMA SideHasWeight ==
  ASSUME NEW S, IsFiniteSet(S), \A t \in S : t.weight \in Nat /\ t.weight > 0
  PROVE  SideWeight(S) \in Nat /\ (SideWeight(S) = 0 <=> S = {})
<1> DEFINE f == [t \in S |-> t.weight]
<1>1. \A t \in S : f[t] \in Nat /\ f[t] \in Int /\ f[t] > 0 /\ t.weight \in Int
  OBVIOUS
<1>2. SideWeight(S) = Total(f, S)
  BY <1>1, SideIsTotal
<1> HIDE DEF f
<1>3. SideWeight(S) \in Nat
  BY <1>1, <1>2, TotalOfNaturals
<1>4. CASE S = {}
  BY <1>2, <1>3, <1>4, TotalOfNone
<1>5. CASE S # {}
  <2>1. PICK x \in S : TRUE
    BY <1>5
  <2> DEFINE R == S \ {x}
  <2>2. IsFiniteSet(R) /\ \A t \in R : f[t] \in Nat
    BY <1>1, FS_Subset
  <2>3. Total(f, S) = f[x] + Total(f, R)
    BY <1>1, TotalWithout
  <2> HIDE DEF R
  <2>4. Total(f, R) \in Nat
    BY <2>2, TotalOfNaturals
  <2> QED
    BY <1>1, <1>2, <1>3, <1>5, <2>3, <2>4
<1> QED
  BY <1>3, <1>4, <1>5

(* Evidence that detection can rank.                                       *)
Ranked(S) == IsFiniteSet(S) /\ \A e \in S : Weight(e) \in Nat /\ Weight(e) > 0

(* What counts of a submission, and which submissions count.               *)
Share(e) == [group |-> e.says.group, weight |-> Weight(e)]

Leads(e, S) == \A g \in S : g.says.group = e.says.group => Weight(g) <= Weight(e)

LEMMA StrongestIs ==
  ASSUME NEW S
  PROVE  \A t : t \in Strongest(S) <=> \E e \in S : Leads(e, S) /\ t = Share(e)
  BY DEF Strongest, Share, Leads

(* Where there is evidence there is a strongest one.                       *)
LEMMA SomeIsStrongest ==
  ASSUME NEW S, Ranked(S), S # {}
  PROVE  Strongest(S) # {}
<1> DEFINE R == {r \in S \X S : Weight(r[1]) <= Weight(r[2])}
<1>1. \A x, y \in S : <<x, y>> \in R <=> Weight(x) <= Weight(y)
  OBVIOUS
<1>2. \A x \in S : Weight(x) \in Nat
  BY DEF Ranked
<1> HIDE DEF R
<1>3. ASSUME NEW x \in S, NEW y \in S PROVE <<x, y>> \in R \/ <<y, x>> \in R
  <2>1. Weight(x) \in Nat /\ Weight(y) \in Nat
    BY <1>2
  <2>2. Weight(x) <= Weight(y) \/ Weight(y) <= Weight(x)
    BY <2>1
  <2> QED
    BY <1>1, <2>2
<1>4. \A x, y, z \in S : <<x, y>> \in R /\ <<y, z>> \in R => <<x, z>> \in R
  BY <1>1, <1>2
<1>5. IsFiniteSet(S)
  BY DEF Ranked
<1>6. PICK m \in S : \A x \in S : x = m \/ <<x, m>> \in R
  BY <1>3, <1>4, <1>5, FiniteHasTop
<1>7. ASSUME NEW x \in S PROVE Weight(x) <= Weight(m)
  <2>1. <<x, m>> \in R
    BY <1>3, <1>6
  <2> QED
    BY <1>1, <2>1
<1>8. Leads(m, S)
  BY <1>7 DEF Leads
<1>9. Share(m) \in Strongest(S)
  BY <1>8, StrongestIs
<1> QED
  BY <1>9

(* A side is finite, and each share of it has some weight.                 *)
LEMMA StrongestIsFinite ==
  ASSUME NEW S, Ranked(S)
  PROVE  /\ IsFiniteSet(Strongest(S))
         /\ \A t \in Strongest(S) : t.weight \in Nat /\ t.weight > 0
<1> DEFINE shares == {Share(e) : e \in S}
<1>1. [e \in S |-> Share(e)] \in Surjection(S, shares)
  BY DEF Surjection
<1>2. IsFiniteSet(shares)
  BY <1>1, FS_Surjection DEF Ranked
<1>3. Strongest(S) \subseteq shares
  BY StrongestIs
<1>4. \A t \in shares : t.weight \in Nat /\ t.weight > 0
  BY DEF Ranked, Share
<1> HIDE DEF shares
<1> QED
  BY <1>2, <1>3, <1>4, FS_Subset

(* A repetition counts no more than what it repeats, nor does it weaken any*)
(* other evidence.                                                         *)
LEMMA RepetitionIsNotStronger ==
  ASSUME NEW S, Ranked(S), NEW n, Weight(n) \in Nat,
         NEW f \in S, f.says.group = n.says.group, Weight(f) >= Weight(n)
  PROVE  Strongest(S \cup {n}) = Strongest(S)
<1> DEFINE T == S \cup {n}
<1>1. \A e \in S : Weight(e) \in Nat
  BY DEF Ranked
<1>2. ASSUME NEW e \in S, Leads(e, S) PROVE Leads(e, T)
  BY <1>1, <1>2 DEF Leads
<1>3. ASSUME NEW e \in S, Leads(e, T) PROVE Leads(e, S)
  BY <1>3 DEF Leads
<1>4. ASSUME Leads(n, T) PROVE Leads(f, S) /\ Share(f) = Share(n)
  <2>1. Weight(f) <= Weight(n)
    BY <1>4 DEF Leads
  <2>2. Weight(f) = Weight(n)
    BY <1>1, <2>1
  <2>3. Leads(f, S)
    BY <1>4, <2>2 DEF Leads
  <2> QED
    BY <2>2, <2>3 DEF Share
<1> HIDE DEF T
<1>5. \A t : t \in Strongest(T) <=> t \in Strongest(S)
  <2> SUFFICES ASSUME NEW t PROVE t \in Strongest(T) <=> t \in Strongest(S)
    OBVIOUS
  <2>1. T = S \cup {n}
    BY DEF T
  <2>2. t \in Strongest(S) <=> \E e \in S : Leads(e, S) /\ t = Share(e)
    BY StrongestIs
  <2>3. t \in Strongest(T) <=> \E e \in T : Leads(e, T) /\ t = Share(e)
    BY StrongestIs
  <2>4. ASSUME t \in Strongest(S) PROVE t \in Strongest(T)
    BY <1>2, <2>1, <2>2, <2>3, <2>4
  <2>5. ASSUME t \in Strongest(T) PROVE t \in Strongest(S)
    <3>1. PICK e \in T : Leads(e, T) /\ t = Share(e)
      BY <2>3, <2>5
    <3>2. CASE e = n
      BY <1>4, <2>2, <3>1, <3>2
    <3>3. CASE e \in S
      BY <1>3, <2>2, <3>1, <3>3
    <3> QED
      BY <2>1, <3>2, <3>3
  <2> QED
    BY <2>4, <2>5
<1>6. Strongest(T) = Strongest(S)
  <2>1. Strongest(T) \subseteq Strongest(S) /\ Strongest(S) \subseteq Strongest(T)
    BY <1>5
  <2> QED
    BY <2>1
<1> QED
  BY <1>6 DEF T

(* The registered actors have some weight: RegisterActor refuses others.   *)
KnownWeigh == \A a \in actors : Identity[a].weight > 0

DiscoveryInv == IInv /\ KnownWeigh

(* The ledger goes on as it does without the engine: a run of the engine   *)
(* writes nothing to it.                                                   *)
LEMMA LedgerGoesOn ==
  ASSUME [DiscoveryNext]_<<vars, tensionVars>>
  PROVE  [Next]_vars
<1>1. ASSUME NEW a \in Actor, RegisterActor(a, TRUE) PROVE Next
  BY <1>1 DEF Next
<1>2. ASSUME NEW a \in Actor, NEW isActive \in BOOLEAN, SetActive(a, isActive) PROVE Next
  BY <1>2 DEF Next
<1>3. ASSUME NEW id \in SubmissionId, NEW s \in Offer, Submit(id, s) PROVE Next
  BY <1>3 DEF Next
<1>4. ASSUME NEW e \in file, NEW s \in Statement, Alter(e, s) PROVE Next
  BY <1>4 DEF Next
<1>5. ASSUME NEW e \in file, Sign(e) PROVE Next
  BY <1>5 DEF Next
<1>6. ASSUME NEW o, NEW chosen, NEW tests, NEW result, Discover(o, chosen, tests, result)
      PROVE  UNCHANGED vars
  BY <1>6 DEF Discover
<1>7. CASE UNCHANGED <<vars, tensionVars>>
  BY <1>7
<1> QED
  BY <1>1, <1>2, <1>3, <1>4, <1>5, <1>6, <1>7 DEF DiscoveryNext

(* Initially and by every step.                                            *)
LEMMA InitDiscovery == TensionInit => DiscoveryInv
<1> SUFFICES ASSUME TensionInit PROVE DiscoveryInv
  OBVIOUS
<1>1. Init
  BY DEF TensionInit
<1>2. KnownWeigh
  BY <1>1 DEF Init, KnownWeigh
<1> QED
  BY <1>1, <1>2, InitInv DEF DiscoveryInv

(* The registered actors keep having some weight.                          *)
LEMMA StepDiscovery ==
  DiscoveryInv /\ [DiscoveryNext]_<<vars, tensionVars>> => DiscoveryInv'
<1> SUFFICES ASSUME DiscoveryInv, [DiscoveryNext]_<<vars, tensionVars>> PROVE DiscoveryInv'
  OBVIOUS
<1>1. [Next]_vars
  BY LedgerGoesOn
<1>2. IInv'
  BY <1>1, StepInv DEF DiscoveryInv
<1>3. KnownWeigh'
  BY <1>1 DEF DiscoveryInv, KnownWeigh, Next, vars, RegisterActor, SetActive, MarkDependency,
                 Submit, Alter, Sign, Evaluate
<1> QED
  BY <1>2, <1>3 DEF DiscoveryInv

LEMMA DiscoveryInvariance == DiscoverySpec => []DiscoveryInv
  BY InitDiscovery, StepDiscovery, PTL DEF DiscoverySpec

(* Whatever evidence is valid can be ranked.                               *)
LEMMA ValidIsRanked ==
  ASSUME DiscoveryInv, NEW o, NEW verdict
  PROVE  Ranked(Valid(file, o, verdict))
<1>1. Valid(file, o, verdict) \subseteq file
  BY DEF Valid, EvidenceFor
<1>2. IsFiniteSet(Valid(file, o, verdict))
  BY <1>1, FS_Subset DEF DiscoveryInv, IInv
<1>3. \A e \in Valid(file, o, verdict) : e.says.actor \in actors /\ e.says.actor \in Actor
  BY ValidIsSigned DEF DiscoveryInv, IInv, TypeOK
<1>4. \A e \in Valid(file, o, verdict) : Weight(e) \in Nat /\ Weight(e) > 0
  BY <1>3, ActorAssumption DEF DiscoveryInv, KnownWeigh, Weight
<1> QED
  BY <1>2, <1>4 DEF Ranked

(* A side of the conflict has no weight only if there is nothing on it.    *)
LEMMA SideWeighs ==
  ASSUME DiscoveryInv, NEW o, NEW verdict
  PROVE  LET side == Strongest(Valid(file, o, verdict))
         IN  /\ IsFiniteSet(side) /\ SideWeight(side) \in Nat
             /\ SideWeight(side) = 0 <=> Valid(file, o, verdict) = {}
<1> DEFINE V == Valid(file, o, verdict)
<1>1. Ranked(V)
  BY ValidIsRanked
<1> HIDE DEF V
<1>2. /\ IsFiniteSet(Strongest(V))
      /\ \A t \in Strongest(V) : t.weight \in Nat /\ t.weight > 0
  BY <1>1, StrongestIsFinite
<1>3. SideWeight(Strongest(V)) \in Nat /\ (SideWeight(Strongest(V)) = 0 <=> Strongest(V) = {})
  BY <1>2, SideHasWeight
<1>4. Strongest(V) = {} <=> V = {}
  <2>1. V = {} => Strongest(V) = {}
    BY StrongestIs
  <2>2. V # {} => Strongest(V) # {}
    BY <1>1, SomeIsStrongest
  <2> QED
    BY <2>1, <2>2
<1> QED
  BY <1>2, <1>3, <1>4 DEF V

(* TensionEngine.detect and EvidenceLedger.evaluate read the same evidence *)
(* in two ways and agree: there is a tension exactly where a policy that   *)
(* forbids conflicts would find one.                                       *)
THEOREM TensionMeansConflict == DiscoverySpec => []TensionIsConflict
<1>1. DiscoveryInv => TensionIsConflict
  <2> SUFFICES ASSUME DiscoveryInv, NEW o \in Obligation
               PROVE  Detect(file, o) # NoTension <=> Conflicting(file, o)
    BY DEF TensionIsConflict
  <2> DEFINE support == SideWeight(Strongest(Valid(file, o, "SUPPORTS")))
             refute == SideWeight(Strongest(Valid(file, o, "REFUTES")))
  <2>1. support = 0 <=> Valid(file, o, "SUPPORTS") = {}
    BY SideWeighs
  <2>2. refute = 0 <=> Valid(file, o, "REFUTES") = {}
    BY SideWeighs
  <2>3. Detect(file, o) = NoTension <=> support = 0 \/ refute = 0
    <3>1. support = 0 \/ refute = 0 => Detect(file, o) = NoTension
      BY DEF Detect, Sides
    <3>2. ~(support = 0 \/ refute = 0) => "kind" \in DOMAIN Detect(file, o)
      BY DEF Detect, Sides
    <3>3. "kind" \notin DOMAIN NoTension
      BY DEF NoTension
    <3> QED
      BY <3>1, <3>2, <3>3
  <2> QED
    BY <2>1, <2>2, <2>3 DEF Conflicting
<1> QED
  BY <1>1, DiscoveryInvariance, PTL

(* A submission that repeats what a heavier or equal one of its provenance *)
(* group says leaves the sides of the conflict as they are.                *)
LEMMA RepetitionKeepsSides ==
  ASSUME DiscoveryInv, NEW id \in SubmissionId \ {e.id : e \in file},
         NEW s \in Offer, Submit(id, s), Repeats(s)
  PROVE  Sides(file', s.obligation) = Sides(file, s.obligation)
<1> DEFINE o == s.obligation
           n == Signed(id, s)
<1>1. /\ Verifies(n) /\ n.id = id /\ n.says = s
      /\ file' = {f \in file : f.id # n.id} \cup {n}
  BY DEF Submit, Signed, Filed
<1> HIDE DEF n
<1>2. file' = file \cup {n}
  BY <1>1
<1>3. \A verdict : verdict # s.verdict => Valid(file', o, verdict) = Valid(file, o, verdict)
  BY <1>1, <1>2 DEF Valid, EvidenceFor
<1>4. Valid(file', o, s.verdict) = Valid(file, o, s.verdict) \cup {n}
  BY <1>1, <1>2 DEF Valid, EvidenceFor
<1>5. PICK f \in Valid(file, o, s.verdict) :
        f.says.group = s.group /\ Weight(f) >= Identity[s.actor].weight
  BY DEF Repeats
<1>6. Weight(n) \in Nat /\ Weight(f) >= Weight(n) /\ f.says.group = n.says.group
  BY <1>1, <1>5, StatementAssumption, ActorAssumption DEF Weight
<1>7. Ranked(Valid(file, o, s.verdict))
  BY ValidIsRanked
<1>8. Strongest(Valid(file, o, s.verdict) \cup {n}) = Strongest(Valid(file, o, s.verdict))
  BY <1>6, <1>7, RepetitionIsNotStronger
<1>9. \A verdict : Strongest(Valid(file', o, verdict)) = Strongest(Valid(file, o, verdict))
  BY <1>3, <1>4, <1>8
<1> QED
  BY <1>9 DEF Sides

(* "Repeated signatures from one underlying source do not create           *)
(* independent evidence": the engine gives the conflict the score it had.  *)
THEOREM RepetitionDoesNotScore == DiscoverySpec => RepeatsDoNotScore
<1> DEFINE Unmoved ==
             \A id \in SubmissionId \ {e.id : e \in file}, s \in Offer :
               Submit(id, s) /\ Repeats(s)
                 => Detect(file', s.obligation).score = Detect(file, s.obligation).score
<1>1. DiscoveryInv => Unmoved
  <2> SUFFICES ASSUME DiscoveryInv, NEW id \in SubmissionId \ {e.id : e \in file},
                      NEW s \in Offer, Submit(id, s), Repeats(s)
               PROVE  Detect(file', s.obligation) = Detect(file, s.obligation)
    OBVIOUS
  <2>1. Sides(file', s.obligation) = Sides(file, s.obligation)
    BY RepetitionKeepsSides
  <2> QED
    BY <2>1 DEF Detect
<1>2. RepeatsDoNotScore <=> [][Unmoved]_vars
  BY DEF RepeatsDoNotScore
<1> HIDE DEF Unmoved
<1> QED
  BY <1>1, <1>2, DiscoveryInvariance, PTL

-----------------------------------------------------------------------------
(* The arithmetic of the engine's weights.                                 *)

(* A product of numbers is one.                                            *)
LEMMA TimesIsTyped ==
  ASSUME NEW a \in Nat, NEW b \in Nat
  PROVE  a * b \in Nat
OBVIOUS

(* Products keep the order of their factors.                               *)
LEMMA TimesGrows ==
  ASSUME NEW a \in Int, NEW b \in Int, NEW c \in Nat, a <= b
  PROVE  a * c <= b * c
<1>1. (b - a) * c >= 0
  OBVIOUS
<1>2. (b - a) * c = b * c - a * c
  OBVIOUS
<1> QED
  BY <1>1, <1>2

(* A factor cancels.                                                       *)
LEMMA Cancel ==
  ASSUME NEW a \in Nat, NEW b \in Nat, NEW c \in Nat \ {0}, a * c = b * c
  PROVE  a = b
<1>1. (a - b) * c = 0
  OBVIOUS
<1> QED
  BY <1>1

(* Where nothing remains, division undoes multiplication.                  *)
LEMMA Divides ==
  ASSUME NEW a \in Nat, NEW b \in Nat \ {0}, a % b = 0
  PROVE  a \div b \in Nat /\ (a \div b) * b = a
OBVIOUS

(* A multiple is divided without remainder.                                *)
LEMMA Multiple ==
  ASSUME NEW k \in Nat, NEW b \in Nat \ {0}
  PROVE  (k * b) % b = 0 /\ (k * b) \div b = k
OBVIOUS

(* A quotient is off by less than its divisor.                             *)
LEMMA Quotient ==
  ASSUME NEW a \in Int, NEW b \in Nat \ {0}
  PROVE  /\ a \div b \in Int
         /\ b * (a \div b) <= a
         /\ a < b * (a \div b) + b
OBVIOUS

-----------------------------------------------------------------------------
(* Sums and proportions.                                                   *)

(* The distributions of the engine: natural weights on finitely many       *)
(* hypotheses.                                                             *)
Weights(f) ==
  /\ IsFiniteSet(DOMAIN f) /\ f = [x \in DOMAIN f |-> f[x]]
  /\ \A x \in DOMAIN f : f[x] \in Nat

(* The sum of a function is a total over its domain.                       *)
LEMMA SumIsTotal ==
  ASSUME NEW f PROVE Sum(f) = Total(f, DOMAIN f)
BY DEF Sum, FoldFunction, FoldFunctionOnSet, Total, MapThenSumSet

(* Scaled weights have the scaled total.                                   *)
LEMMA TotalScaled ==
  ASSUME NEW f, NEW g, NEW S, IsFiniteSet(S), NEW c \in Int,
         \A x \in S : f[x] \in Int /\ g[x] = f[x] * c
  PROVE  Total(g, S) = Total(f, S) * c
<1> DEFINE P == {s \in SUBSET S : Total(g, s) = Total(f, s) * c}
<1>1. {} \in P
  BY TotalOfNone
<1>2. ASSUME NEW s \in SUBSET S, s # {}, s \ {Pick(s)} \in P
      PROVE  s \in P
  <2> DEFINE x == Pick(s)
             r == s \ {x}
  <2>1. IsFiniteSet(s) /\ x \in s
    BY <1>2, FS_Subset DEF Pick
  <2>2. /\ \A y \in s : f[y] \in Int /\ g[y] \in Int
        /\ f[x] \in Int /\ g[x] = f[x] * c
    BY <2>1
  <2> HIDE DEF x
  <2>3. /\ Total(f, r) \in Int /\ Total(f, s) = f[x] + Total(f, r)
        /\ Total(g, s) = g[x] + Total(g, r)
    <3>1. Total(f, r) \in Int /\ Total(f, s) = f[x] + Total(f, r)
      BY <2>1, <2>2, TotalWithout
    <3>2. Total(g, s) = g[x] + Total(g, r)
      BY <2>1, <2>2, TotalWithout
    <3> QED
      BY <3>1, <3>2
  <2>4. Total(g, r) = Total(f, r) * c
    BY <1>2 DEF x
  <2> HIDE DEF r
  <2>5. Total(g, s) = f[x] * c + Total(f, r) * c
    BY <2>2, <2>3, <2>4
  <2>6. Total(g, s) = (f[x] + Total(f, r)) * c
    BY <2>2, <2>3, <2>5
  <2> QED
    BY <2>3, <2>6
<1> HIDE DEF P
<1>3. \A s \in SUBSET S : s \in P
  BY <1>1, <1>2, SubsetInduction
<1> QED
  BY <1>3 DEF P

(* No weight exceeds the sum of all.                                       *)
LEMMA SumOfWeights ==
  ASSUME NEW f, Weights(f)
  PROVE  /\ Sum(f) \in Nat
         /\ \A x \in DOMAIN f : f[x] <= Sum(f)
<1>1. Sum(f) = Total(f, DOMAIN f) /\ Sum(f) \in Nat
  BY SumIsTotal, TotalOfNaturals DEF Weights
<1>2. ASSUME NEW x \in DOMAIN f PROVE f[x] <= Sum(f)
  <2>1. /\ Total(f, DOMAIN f) = f[x] + Total(f, DOMAIN f \ {x})
    BY TotalWithout DEF Weights
  <2>2. Total(f, DOMAIN f \ {x}) \in Nat
    <3>1. IsFiniteSet(DOMAIN f \ {x}) /\ \A y \in DOMAIN f \ {x} : f[y] \in Nat
      BY FS_Subset DEF Weights
    <3> QED
      BY <3>1, TotalOfNaturals
  <2>3. f[x] \in Nat
    BY DEF Weights
  <2> QED
    BY <1>1, <2>1, <2>2, <2>3
<1> QED
  BY <1>1, <1>2

(* A finite set of numbers has a least one.                                *)
LEMMA LeastOf ==
  ASSUME NEW S \in SUBSET Nat, IsFiniteSet(S), S # {}
  PROVE  \E n \in S : \A m \in S : n <= m
<1> DEFINE R == {p \in S \X S : p[1] > p[2]}
<1>1. \A x, y \in S : x = y \/ <<x, y>> \in R \/ <<y, x>> \in R
  OBVIOUS
<1>2. \A x, y, z \in S : <<x, y>> \in R /\ <<y, z>> \in R => <<x, z>> \in R
  OBVIOUS
<1>3. \A x, y \in S : <<x, y>> \in R => x > y
  OBVIOUS
<1> HIDE DEF R
<1>4. PICK n \in S : \A m \in S : m = n \/ <<m, n>> \in R
  BY <1>1, <1>2, FiniteHasTop
<1>5. \A m \in S : m = n \/ m > n
  BY <1>3, <1>4, Zenon
<1> QED
  BY <1>5

(* There is a least common denominator, at most the total itself.          *)
LEMMA LeastIsDenominator ==
  ASSUME NEW f, Weights(f), NEW total \in Nat \ {0}
  PROVE  /\ LeastDenominator(f, total) \in 1..total
         /\ Denominator(f, total, LeastDenominator(f, total))
         /\ \A m \in 1..(LeastDenominator(f, total) - 1) : ~Denominator(f, total, m)
<1> DEFINE S == {n \in 1..total : Denominator(f, total, n)}
<1>1. total \in S
  BY Multiple DEF Denominator, Weights
<1>2. IsFiniteSet(S)
  BY PositionsFinite
<1>3. S # {} /\ S \in SUBSET Nat
  BY <1>1
<1> HIDE DEF S
<1>4. PICK n \in S : \A m \in S : n <= m
  BY <1>2, <1>3, LeastOf
<1>5. n \in 1..total /\ Denominator(f, total, n)
  BY DEF S
<1>6. ASSUME NEW m \in 1..(n - 1), Denominator(f, total, m) PROVE FALSE
  <2>1. m \in 1..total /\ m < n
    BY <1>5
  <2>2. m \in S
    BY <1>6, <2>1 DEF S
  <2> QED
    BY <1>4, <1>5, <2>1, <2>2
<1> QED
  BY <1>5, <1>6 DEF LeastDenominator

(* Normalized weights are the shares of the given ones, in parts of their  *)
(* least common denominator.                                               *)
LEMMA NormalizedIs ==
  ASSUME NEW f, Weights(f), Sum(f) # 0
  PROVE  LET n == LeastDenominator(f, Sum(f))
         IN  /\ n \in 1..Sum(f)
             /\ Weights(Normalize(f)) /\ DOMAIN Normalize(f) = DOMAIN f
             /\ \A x \in DOMAIN f : Normalize(f)[x] * Sum(f) = f[x] * n
             /\ Sum(Normalize(f)) = n
<1> DEFINE total == Sum(f)
           n == LeastDenominator(f, total)
           g == [x \in DOMAIN f |-> (f[x] * n) \div total]
<1>1. total \in Nat \ {0} /\ \A x \in DOMAIN f : f[x] \in Nat
  BY SumOfWeights DEF Weights
<1>2. Normalize(f) = g
  BY DEF Normalize
<1>3. n \in 1..total /\ Denominator(f, total, n)
  BY <1>1, LeastIsDenominator
<1>4. n \in Nat
  BY <1>1, <1>3
<1> HIDE DEF n, total
<1>5. ASSUME NEW x \in DOMAIN f PROVE g[x] \in Nat /\ g[x] * total = f[x] * n
  <2>1. f[x] * n \in Nat /\ (f[x] * n) % total = 0
    BY <1>1, <1>3, <1>4, TimesIsTyped DEF Denominator
  <2> QED
    BY <1>1, <2>1, Divides
<1>6. DOMAIN g = DOMAIN f /\ Weights(g)
  BY <1>5 DEF Weights
<1> HIDE DEF g
<1>7. Sum(g) = n
  <2> DEFINE h == [x \in DOMAIN f |-> g[x] * total]
             D == DOMAIN f
  <2>1. \A x \in D : /\ g[x] \in Int /\ h[x] = g[x] * total
                      /\ f[x] \in Int /\ h[x] = f[x] * n
    BY <1>1, <1>5
  <2>2. IsFiniteSet(D)
    BY DEF Weights
  <2>3. total \in Int /\ n \in Int
    BY <1>1, <1>4
  <2> HIDE DEF h, D
  <2>4. Total(h, D) = Total(g, D) * total
    BY <2>1, <2>2, <2>3, TotalScaled
  <2>5. Total(h, D) = Total(f, D) * n
    BY <2>1, <2>2, <2>3, TotalScaled
  <2>6. Total(f, D) = total /\ Total(g, D) = Sum(g)
    BY <1>6, SumIsTotal DEF D, total
  <2>7. Sum(g) \in Nat
    BY <1>6, SumOfWeights
  <2>8. Sum(g) * total = n * total
    BY <1>1, <1>4, <2>4, <2>5, <2>6, <2>7
  <2> QED
    BY <1>1, <1>4, <2>7, <2>8, Cancel, Zenon
<1> QED
  BY <1>2, <1>3, <1>5, <1>6, <1>7 DEF n, total

(* Equal shares have the same common denominators,                         *)
LEMMA SameDenominators ==
  ASSUME NEW f, Weights(f), Sum(f) # 0, NEW g, Weights(g), Sum(g) # 0, DOMAIN g = DOMAIN f,
         \A x \in DOMAIN f : f[x] * Sum(g) = g[x] * Sum(f),
         NEW n \in Nat, Denominator(f, Sum(f), n)
  PROVE  Denominator(g, Sum(g), n)
<1> SUFFICES ASSUME NEW x \in DOMAIN f PROVE (g[x] * n) % Sum(g) = 0
  BY DEF Denominator
<1> DEFINE s == Sum(f)
           t == Sum(g)
           k == (f[x] * n) \div s
<1>1. s \in Nat \ {0} /\ t \in Nat \ {0} /\ f[x] \in Nat /\ g[x] \in Nat
  BY SumOfWeights DEF Weights
<1>2. f[x] * t = g[x] * s
  OBVIOUS
<1>3. (f[x] * n) % s = 0 /\ f[x] * n \in Nat
  BY <1>1, TimesIsTyped DEF Denominator
<1> HIDE DEF s, t
<1>4. k \in Nat /\ k * s = f[x] * n
  BY <1>1, <1>3, Divides
<1> HIDE DEF k
<1>5. (g[x] * n) * s = (k * t) * s
  <2>1. (g[x] * n) * s = (g[x] * s) * n
    BY <1>1
  <2>2. (f[x] * t) * n = (f[x] * n) * t
    BY <1>1
  <2>3. (k * s) * t = (k * t) * s
    BY <1>1, <1>4
  <2> QED
    BY <1>2, <1>4, <2>1, <2>2, <2>3
<1>6. g[x] * n \in Nat /\ k * t \in Nat
  BY <1>1, <1>4, TimesIsTyped
<1>7. g[x] * n = k * t
  BY <1>1, <1>5, <1>6, Cancel, Zenon
<1> QED
  BY <1>1, <1>4, <1>7, Multiple DEF t

(* and so the same normal form: _normalize depends on the shares only.     *)
LEMMA SameProportions ==
  ASSUME NEW f, Weights(f), Sum(f) # 0, NEW g, Weights(g), Sum(g) # 0, DOMAIN g = DOMAIN f,
         \A x \in DOMAIN f : f[x] * Sum(g) = g[x] * Sum(f)
  PROVE  Normalize(f) = Normalize(g)
<1> DEFINE s == Sum(f)
           t == Sum(g)
           m == LeastDenominator(f, s)
           n == LeastDenominator(g, t)
           D == DOMAIN f
<1>1. /\ s \in Nat \ {0} /\ t \in Nat \ {0}
      /\ \A x \in D : f[x] \in Nat /\ g[x] \in Nat
  BY SumOfWeights DEF Weights
<1>2. /\ m \in 1..s /\ Denominator(f, s, m)
      /\ \A i \in 1..(m - 1) : ~Denominator(f, s, i)
  BY <1>1, LeastIsDenominator
<1>3. /\ n \in 1..t /\ Denominator(g, t, n)
      /\ \A i \in 1..(n - 1) : ~Denominator(g, t, i)
  BY <1>1, LeastIsDenominator
<1>4. m \in Nat /\ n \in Nat
  BY <1>1, <1>2, <1>3
<1>5. Denominator(g, t, m)
  BY <1>2, <1>4, SameDenominators
<1>6. Denominator(f, s, n)
  BY <1>3, <1>4, SameDenominators
<1> HIDE DEF m, n
<1>7. m = n
  BY <1>2, <1>3, <1>4, <1>5, <1>6
<1>8. \A x \in D : /\ Normalize(f)[x] \in Nat /\ Normalize(f)[x] * s = f[x] * m
                    /\ Normalize(g)[x] \in Nat /\ Normalize(g)[x] * t = g[x] * n
  BY NormalizedIs DEF m, n, Weights
<1>9. ASSUME NEW x \in D PROVE Normalize(f)[x] = Normalize(g)[x]
  <2> DEFINE a == Normalize(f)[x]
             b == Normalize(g)[x]
  <2>1. /\ a \in Nat /\ b \in Nat /\ a * s = f[x] * m /\ b * t = g[x] * m
        /\ f[x] \in Nat /\ g[x] \in Nat /\ f[x] * t = g[x] * s
    BY <1>1, <1>7, <1>8
  <2> HIDE DEF a, b, s, t
  <2>2. a * (s * t) = b * (s * t)
    <3>1. a * (s * t) = (a * s) * t /\ b * (s * t) = (b * t) * s
      BY <1>1, <2>1
    <3>2. (f[x] * m) * t = (f[x] * t) * m /\ (g[x] * m) * s = (g[x] * s) * m
      BY <1>1, <1>4, <2>1
    <3> QED
      BY <2>1, <3>1, <3>2
  <2>3. s * t \in Nat \ {0}
    BY <1>1
  <2>4. a = b
    BY <2>1, <2>2, <2>3, Cancel, Zenon
  <2> QED
    BY <2>4 DEF a, b
<1>10. /\ Normalize(f) = [x \in D |-> Normalize(f)[x]]
       /\ Normalize(g) = [x \in D |-> Normalize(g)[x]]
  <2>1. Weights(Normalize(f)) /\ DOMAIN Normalize(f) = D
    BY NormalizedIs
  <2>2. Weights(Normalize(g)) /\ DOMAIN Normalize(g) = D
    BY NormalizedIs
  <2> QED
    BY <2>1, <2>2 DEF Weights
<1> QED
  BY <1>9, <1>10

(* Equal weights are normalized as they are.                               *)
LEMMA OnesStay ==
  ASSUME NEW D, IsFiniteSet(D)
  PROVE  /\ Weights([x \in D |-> 1])
         /\ Normalize([x \in D |-> 1]) = [x \in D |-> 1]
         /\ D # {} => Sum([x \in D |-> 1]) \in Nat \ {0}
<1> DEFINE f == [x \in D |-> 1]
<1>1. Weights(f) /\ DOMAIN f = D /\ \A x \in D : f[x] = 1
  BY DEF Weights
<1>2. f = [x \in D |-> 1]
  OBVIOUS
<1> HIDE DEF f
<1>3. Sum(f) \in Nat /\ \A x \in D : 1 <= Sum(f)
  BY <1>1, SumOfWeights
<1>4. D # {} => Sum(f) \in Nat \ {0}
  BY <1>3
<1>5. CASE Sum(f) = 0
  <2>1. Normalize(f) = f
    BY <1>1, <1>2, <1>5 DEF Normalize
  <2> QED
    BY <1>1, <1>2, <1>4, <2>1
<1>6. CASE Sum(f) # 0
  <2> DEFINE s == Sum(f)
             n == LeastDenominator(f, s)
  <2>1. s \in Nat \ {0}
    BY <1>3, <1>6
  <2>2. n \in 1..s /\ Denominator(f, s, n)
    BY <1>1, <2>1, LeastIsDenominator
  <2>3. D # {}
    <3>1. SUFFICES ASSUME D = {} PROVE FALSE
      OBVIOUS
    <3>2. Total(f, {}) = 0
      BY TotalOfNone
    <3> QED
      BY <1>1, <1>6, <3>1, <3>2, SumIsTotal
  <2> HIDE DEF n, s
  <2>4. PICK x \in D : TRUE
    BY <2>3
  <2>5. (1 * n) % s = 0
    BY <1>1, <2>2, <2>4 DEF Denominator, s
  <2>6. n = s
    <3>1. n < s => n % s = n
      BY <2>1, <2>2
    <3> QED
      BY <2>1, <2>2, <2>5, <3>1
  <2>7. (1 * n) \div s = 1
    BY <2>1, <2>6, Multiple
  <2>8. Normalize(f) = [y \in D |-> (f[y] * n) \div s]
    BY <1>1, <1>6 DEF Normalize, n, s
  <2>9. Normalize(f) = f
    BY <1>1, <1>2, <2>7, <2>8
  <2> QED
    BY <1>1, <1>2, <1>4, <2>9
<1> QED
  BY <1>5, <1>6

(* Whatever weights there are, even all zero, their normal form is a       *)
(* distribution over the same hypotheses.                                  *)
LEMMA NormalizeWeighs ==
  ASSUME NEW f, Weights(f)
  PROVE  /\ Weights(Normalize(f)) /\ DOMAIN Normalize(f) = DOMAIN f
         /\ DOMAIN f # {} => Sum(Normalize(f)) \in Nat \ {0}
<1>1. CASE Sum(f) = 0
  BY <1>1, OnesStay DEF Normalize, Weights
<1>2. CASE Sum(f) # 0
  BY <1>2, NormalizedIs, SumOfWeights
<1> QED
  BY <1>1, <1>2

(* A run may normalize again what an earlier run wrote to the hypotheses of*)
(* a caller: nothing changes.                                              *)
LEMMA NormalizeTwice ==
  ASSUME NEW f, Weights(f)
  PROVE  Normalize(Normalize(f)) = Normalize(f)
<1>1. CASE Sum(f) = 0
  BY <1>1, OnesStay DEF Normalize, Weights
<1>2. CASE Sum(f) # 0
  <2> DEFINE g == Normalize(f)
  <2>1. /\ Weights(g) /\ DOMAIN g = DOMAIN f /\ Sum(g) # 0
        /\ \A x \in DOMAIN f : g[x] * Sum(f) = f[x] * Sum(g)
    BY <1>2, NormalizedIs, SumOfWeights
  <2> HIDE DEF g
  <2>2. Normalize(g) = Normalize(f)
    BY <1>2, <2>1, SameProportions
  <2> QED
    BY <2>2 DEF g
<1> QED
  BY <1>1, <1>2

(* An outcome that all hypotheses expect equally leaves the distribution as*)
(* it is.                                                                  *)
LEMMA NormalizeScaled ==
  ASSUME NEW f, Weights(f), NEW c \in Nat \ {0}
  PROVE  Normalize([x \in DOMAIN f |-> f[x] * c]) = Normalize(f)
<1> DEFINE g == [x \in DOMAIN f |-> f[x] * c]
           D == DOMAIN f
<1>1. \A x \in D : f[x] \in Nat /\ f[x] \in Int /\ g[x] = f[x] * c /\ g[x] \in Nat
  BY TimesIsTyped DEF Weights
<1>2. Weights(g) /\ DOMAIN g = D
  BY <1>1 DEF Weights
<1> HIDE DEF g
<1>3. Sum(g) = Sum(f) * c
  <2>1. IsFiniteSet(D) /\ c \in Int
    BY DEF Weights
  <2> HIDE DEF D
  <2>2. Total(g, D) = Total(f, D) * c
    BY <1>1, <2>1, TotalScaled
  <2> QED
    BY <1>2, <2>2, SumIsTotal DEF D
<1>4. Sum(f) \in Nat
  BY SumOfWeights
<1>5. CASE Sum(f) = 0
  <2>1. Sum(g) = 0
    BY <1>3, <1>5
  <2>2. Normalize(g) = Normalize(f)
    BY <1>2, <1>5, <2>1 DEF Normalize
  <2> QED
    BY <2>2 DEF g
<1>6. CASE Sum(f) # 0
  <2>1. Sum(g) # 0
    BY <1>3, <1>4, <1>6
  <2>2. \A x \in D : f[x] * Sum(g) = g[x] * Sum(f)
    BY <1>1, <1>3, <1>4
  <2>3. Normalize(g) = Normalize(f)
    BY <1>2, <1>6, <2>1, <2>2, SameProportions
  <2> QED
    BY <2>3 DEF g
<1> QED
  BY <1>5, <1>6

(* TLC is given the part of the table of logarithms that it needs; the     *)
(* theorems on entropies take it to go on. With WeightsAssumption it grows *)
(* faster than its argument, as n log2 n does.                             *)
TableIsFull == NLog \in [Nat -> Nat]

(* The logarithms of the parts do not exceed that of the whole,            *)
LEMMA LogsOfParts ==
  ASSUME TableIsFull, NEW f, NEW S, IsFiniteSet(S), \A x \in S : f[x] \in Nat
  PROVE  /\ Total([x \in S |-> NLog[f[x]]], S) \in Int
         /\ Total([x \in S |-> NLog[f[x]]], S) <= NLog[Total(f, S)]
<1> DEFINE g == [x \in S |-> NLog[f[x]]]
           P == {s \in SUBSET S : Total(g, s) <= NLog[Total(f, s)]}
<1>0. \A n \in Nat : NLog[n] \in Nat
  BY DEF TableIsFull
<1>1. \A x \in S : f[x] \in Nat /\ f[x] \in Int /\ g[x] = NLog[f[x]] /\ g[x] \in Nat /\ g[x] \in Int
  BY <1>0
<1> HIDE DEF g
<1>2. \A m, n \in Nat : NLog[m] + NLog[n] <= NLog[m + n]
  BY WeightsAssumption DEF TableIsFull
<1>3. {} \in P
  <2>1. Total(g, {}) = 0 /\ Total(f, {}) = 0
    BY TotalOfNone
  <2> QED
    BY <1>0, <2>1
<1>4. ASSUME NEW s \in SUBSET S, s # {}, s \ {Pick(s)} \in P
      PROVE  s \in P
  <2> DEFINE x == Pick(s)
             r == s \ {x}
  <2>1. IsFiniteSet(s) /\ IsFiniteSet(r) /\ x \in s
    BY <1>4, FS_Subset DEF Pick
  <2>2. Total(g, r) <= NLog[Total(f, r)]
    BY <1>4
  <2> HIDE DEF x
  <2>3. /\ \A y \in s : f[y] \in Int /\ g[y] \in Int
        /\ \A y \in r : f[y] \in Nat
        /\ f[x] \in Nat /\ g[x] = NLog[f[x]]
    BY <1>1, <2>1
  <2>4. /\ Total(g, r) \in Int /\ Total(g, s) = g[x] + Total(g, r)
        /\ Total(f, s) = f[x] + Total(f, r)
    <3>1. Total(g, r) \in Int /\ Total(g, s) = g[x] + Total(g, r)
      BY <2>1, <2>3, TotalWithout
    <3>2. Total(f, s) = f[x] + Total(f, r)
      BY <2>1, <2>3, TotalWithout
    <3> QED
      BY <3>1, <3>2
  <2> HIDE DEF r
  <2>5. Total(f, r) \in Nat
    BY <2>1, <2>3, TotalOfNaturals
  <2>6. /\ NLog[f[x]] + NLog[Total(f, r)] <= NLog[f[x] + Total(f, r)]
        /\ NLog[f[x]] \in Nat /\ NLog[Total(f, r)] \in Nat
        /\ NLog[f[x] + Total(f, r)] \in Nat
    <3>1. f[x] \in Nat /\ f[x] + Total(f, r) \in Nat
      BY <2>3, <2>5
    <3> QED
      BY <1>0, <1>2, <2>5, <3>1, Zenon
  <2>7. Total(g, s) <= NLog[Total(f, s)]
    BY <2>2, <2>3, <2>4, <2>6
  <2> QED
    BY <2>7
<1>5. Total(g, S) \in Int
  BY <1>1, TotalTyped
<1> HIDE DEF P
<1>6. \A s \in SUBSET S : s \in P
  BY <1>3, <1>4, SubsetInduction
<1>7. Total(g, S) <= NLog[Total(f, S)]
  BY <1>6 DEF P
<1> QED
  BY <1>5, <1>7 DEF g

(* so that an entropy is not negative.                                     *)
LEMMA EntropyTyped ==
  ASSUME TableIsFull, NEW f, Weights(f), Sum(f) # 0
  PROVE  Entropy(f) \in Nat
<1> DEFINE D == DOMAIN f
           g == [x \in D |-> NLog[f[x]]]
<1>1. IsFiniteSet(D) /\ \A x \in D : f[x] \in Nat
  BY DEF Weights
<1>2. Sum(g) = Total(g, D) /\ Sum(f) = Total(f, D)
  BY SumIsTotal
<1>3. Total(g, D) \in Int /\ Total(g, D) <= NLog[Total(f, D)]
  BY <1>1, LogsOfParts
<1>4. Entropy(f) = (NLog[Sum(f)] - Sum(g)) \div Sum(f)
  BY DEF Entropy
<1> HIDE DEF g, D
<1>5. Sum(f) \in Nat \ {0}
  BY SumOfWeights
<1>6. NLog[Sum(f)] \in Nat
  BY <1>5 DEF TableIsFull
<1>7. NLog[Sum(f)] - Sum(g) \in Nat
  BY <1>2, <1>3, <1>6
<1> QED
  BY <1>4, <1>5, <1>7

-----------------------------------------------------------------------------
(* What a run recommends and concludes.                                    *)

(* What a run recommends from: some experiments, each with a cost and      *)
(* finitely many outcomes.                                                 *)
Experiments(xs) ==
  /\ xs \in Seq({xs[i] : i \in DOMAIN xs}) /\ xs # << >>
  /\ \A i \in DOMAIN xs : xs[i].cost \in Nat \ {0} /\ IsFiniteSet(DOMAIN xs[i].outcomes)

(* For an experiment that the run admits the joint weights of an outcome   *)
(* are weights.                                                            *)
LEMMA JointWeighs ==
  ASSUME NEW x, NEW hs, Admissible(x, hs), NEW f, Weights(f), DOMAIN f = DOMAIN hs,
         NEW i \in DOMAIN x.outcomes
  PROVE  /\ Weights(Joint(x, f, x.outcomes[i]))
         /\ DOMAIN Joint(x, f, x.outcomes[i]) = DOMAIN f
<1>1. Unit \in Nat
  BY WeightsAssumption
<1>2. \A h \in DOMAIN f : x.likelihoods[h][x.outcomes[i]] \in Nat
  BY <1>1 DEF Admissible
<1>3. \A h \in DOMAIN f : f[h] * x.likelihoods[h][x.outcomes[i]] \in Nat
  BY <1>2, TimesIsTyped DEF Weights
<1> QED
  BY <1>3 DEF Joint, Weights

(* An information gain is not negative: the engine caps it at 0.           *)
LEMMA GainTyped ==
  ASSUME TableIsFull, NEW x, NEW hs, Admissible(x, hs), IsFiniteSet(DOMAIN x.outcomes),
         NEW f, Weights(f), DOMAIN f = DOMAIN hs, Sum(f) # 0
  PROVE  InformationGain(x, f) \in Nat
<1> DEFINE joint(i) == Joint(x, f, x.outcomes[i])
           g == [i \in DOMAIN x.outcomes |-> Sum(joint(i)) * Entropy(Normalize(joint(i)))]
           entropy == Entropy(f)
           expected == Sum(g) \div (Sum(f) * Unit)
<1>1. DOMAIN f # {}
  <2>1. Total(f, {}) = 0
    BY TotalOfNone
  <2> QED
    BY <2>1, SumIsTotal
<1>2. ASSUME NEW i \in DOMAIN x.outcomes PROVE g[i] \in Int
  <2>1. Weights(joint(i)) /\ DOMAIN joint(i) = DOMAIN f
    BY JointWeighs
  <2> HIDE DEF joint
  <2>2. Sum(joint(i)) \in Nat
    BY <2>1, SumOfWeights
  <2>3. Weights(Normalize(joint(i))) /\ Sum(Normalize(joint(i))) # 0
    BY <1>1, <2>1, NormalizeWeighs
  <2>4. Entropy(Normalize(joint(i))) \in Nat
    BY <2>3, EntropyTyped
  <2> QED
    BY <2>2, <2>4
<1>3. DOMAIN g = DOMAIN x.outcomes
  OBVIOUS
<1>4. InformationGain(x, f) = IF entropy > expected THEN entropy - expected ELSE 0
  BY DEF InformationGain
<1> HIDE DEF g
<1>5. Sum(g) \in Int
  BY <1>2, <1>3, SumIsTotal, TotalTyped
<1>6. Sum(f) * Unit \in Nat \ {0}
  <2>1. Sum(f) \in Nat \ {0}
    BY SumOfWeights
  <2> QED
    BY <2>1, WeightsAssumption
<1>7. expected \in Int
  BY <1>5, <1>6, Quotient
<1>8. entropy \in Nat
  BY EntropyTyped
<1> HIDE DEF expected, entropy
<1> QED
  BY <1>4, <1>7, <1>8

(* A utility is rounded down by less than a unit.                          *)
LEMMA UtilityRounds ==
  ASSUME NEW gain \in Nat, NEW cost \in Nat \ {0}
  PROVE  LET u == (100 * gain) \div cost
         IN  u \in Nat /\ cost * u <= 100 * gain /\ 100 * gain < cost * u + cost
<1>1. 100 * gain \in Nat
  OBVIOUS
<1> QED
  BY <1>1

(* An experiment of no better utility, if it costs less or the best one    *)
(* tells nothing, tells no more than the rounding hides.                   *)
LEMMA BestTells ==
  ASSUME NEW g \in Nat, NEW c \in Nat \ {0}, NEW h \in Nat, NEW d \in Nat \ {0},
         (100 * h) \div d <= (100 * g) \div c, d < c \/ g = 0
  PROVE  100 * h < 100 * g + d
<1> DEFINE u == (100 * g) \div c
           v == (100 * h) \div d
<1>1. u \in Nat /\ c * u <= 100 * g
  BY UtilityRounds
<1>2. v \in Nat /\ 100 * h < d * v + d
  BY UtilityRounds
<1>3. v <= u
  OBVIOUS
<1> HIDE DEF u, v
<1>4. d * v <= d * u
  BY <1>1, <1>2, <1>3, TimesGrows
<1>5. CASE d < c
  <2>1. d * u <= c * u
    BY <1>1, <1>5, TimesGrows
  <2> QED
    BY <1>1, <1>2, <1>4, <2>1
<1>6. CASE g = 0
  <2>1. c * u <= 0
    BY <1>1, <1>6
  <2>2. u = 0
    BY <1>1, <2>1
  <2>3. d * v <= 0
    BY <1>4, <2>2
  <2> QED
    BY <1>2, <1>6, <2>3
<1> QED
  BY <1>5, <1>6

(* The experiment recommended exists, and no utility is better than its    *)
(* own.                                                                    *)
LEMMA RecommendIsBest ==
  ASSUME NEW xs, Experiments(xs), NEW f, \A i \in DOMAIN xs : Utility(xs[i], f) \in Int
  PROVE  /\ Recommend(xs, f) \in DOMAIN xs
         /\ \A j \in DOMAIN xs : Utility(xs[j], f) <= Utility(xs[Recommend(xs, f)], f)
<1> DEFINE D == DOMAIN xs
           u == [i \in D |-> Utility(xs[i], f)]
           R == {p \in D \X D : u[p[1]] < u[p[2]] \/ (u[p[1]] = u[p[2]] /\ p[1] > p[2])}
<1>1. D = 1..Len(xs) /\ Len(xs) \in Nat \ {0}
  BY LenProperties, EmptySeq DEF Experiments
<1>2. D # {} /\ D \subseteq Nat /\ IsFiniteSet(D)
  <2> DEFINE n == Len(xs)
  <2>1. n \in Nat /\ n # 0 /\ D = 1..n
    BY <1>1
  <2> HIDE DEF n, D
  <2>2. IsFiniteSet(1..n)
    BY <2>1, PositionsFinite
  <2> QED
    BY <2>1, <2>2
<1>3. \A i \in D : u[i] \in Int
  OBVIOUS
<1>4. Recommend(xs, f) = CHOOSE i \in D : /\ \A j \in D : u[j] <= u[i]
                                          /\ \A j \in 1..(i - 1) : u[j] < u[i]
  BY DEF Recommend
<1>5. \A i \in D : u[i] = Utility(xs[i], f)
  OBVIOUS
<1> HIDE DEF u
<1>6. \A x, y \in D : <<x, y>> \in R <=> u[x] < u[y] \/ (u[x] = u[y] /\ x > y)
  OBVIOUS
<1> HIDE DEF R, D
<1>7. /\ \A x, y \in D : x = y \/ <<x, y>> \in R \/ <<y, x>> \in R
      /\ \A x, y, z \in D : <<x, y>> \in R /\ <<y, z>> \in R => <<x, z>> \in R
  BY <1>2, <1>3, <1>6
<1>8. PICK m \in D : \A x \in D : x = m \/ <<x, m>> \in R
  BY <1>2, <1>7, FiniteHasTop, Zenon
<1>9. \A j \in D : j = m \/ u[j] < u[m] \/ (u[j] = u[m] /\ j > m)
  BY <1>6, <1>8
<1>10. \A j \in D : u[j] <= u[m]
  BY <1>3, <1>9
<1>11. \A j \in 1..(m - 1) : u[j] < u[m]
  <2>1. \A j \in 1..(m - 1) : j \in D /\ j # m /\ ~(j > m)
    BY <1>1, <1>2
  <2> QED
    BY <1>9, <2>1
<1>12. Recommend(xs, f) \in D /\ \A j \in D : u[j] <= u[Recommend(xs, f)]
  BY <1>4, <1>10, <1>11
<1> QED
  BY <1>5, <1>12 DEF D

-----------------------------------------------------------------------------
(* What is left of a tension.                                              *)

(* A fraction of a score is at most the score,                             *)
LEMMA PartOf ==
  ASSUME NEW s \in Nat, NEW d \in Nat \ {0}, NEW m \in Nat, m <= d
  PROVE  (s * m) \div d \in 0..s
<1> DEFINE q == (s * m) \div d
<1>1. s * m \in Nat /\ m * s <= d * s
  BY TimesGrows
<1>2. q \in Nat /\ d * q <= s * m
  BY <1>1
<1> HIDE DEF q
<1>3. q <= s
  <2>1. SUFFICES ASSUME q > s PROVE FALSE
    BY <1>2
  <2>2. (s + 1) * d <= q * d
    BY <1>2, <2>1, TimesGrows
  <2>3. (s + 1) * d = s * d + d
    OBVIOUS
  <2> QED
    BY <1>1, <1>2, <2>2, <2>3
<1> QED
  BY <1>2, <1>3 DEF q

(* and the whole of it is the score.                                       *)
LEMMA WholeOf ==
  ASSUME NEW s \in Nat, NEW d \in Nat \ {0}
  PROVE  (s * d) \div d = s
BY Multiple

(* What a score is given in.                                               *)
Thousandths == 0..1000

(* balance, independence and strength are fractions: so is their product.  *)
LEMMA ScoreBounded ==
  ASSUME NEW support \in Nat \ {0}, NEW refute \in Nat \ {0}, NEW groups \in Nat
  PROVE  ScoreOf(support, refute, groups) \in Thousandths
<1> DEFINE total == support + refute
           less == Lesser(support, refute)
           g == Lesser(2, groups)
           t == Lesser(2, total)
<1>1. less \in Nat /\ 2 * less <= total /\ g \in 0..2 /\ t \in 0..2 /\ total \in Nat \ {0}
  BY DEF Lesser
<1>2. ScoreOf(support, refute, groups) = (1000 * 2 * less * g * t) \div (4 * total)
  BY DEF ScoreOf
<1> HIDE DEF total, less, g, t
<1>3. g * t \in 0..4
  BY <1>1
<1>4. 1000 * 2 * less * g * t = 1000 * ((2 * less) * (g * t))
  BY <1>1
<1>5. (2 * less) * (g * t) \in Nat /\ (2 * less) * (g * t) <= 4 * total
  <2> DEFINE a == 2 * less
             b == g * t
  <2>1. a \in Nat /\ b \in 0..4 /\ a <= total
    BY <1>1, <1>3
  <2> HIDE DEF a, b
  <2>2. a * b <= total * b
    BY <1>1, <2>1, TimesGrows
  <2>3. b * total <= 4 * total
    BY <1>1, <2>1, TimesGrows
  <2>4. a * b \in Nat /\ a * b <= 4 * total
    BY <1>1, <2>1, <2>2, <2>3, TimesIsTyped
  <2> QED
    BY <2>4 DEF a, b
<1>6. (1000 * ((2 * less) * (g * t))) \div (4 * total) \in 0..1000
  <2> DEFINE m == (2 * less) * (g * t)
             d == 4 * total
  <2>1. m \in Nat /\ d \in Nat \ {0} /\ m <= d
    BY <1>1, <1>5
  <2> HIDE DEF m, d
  <2>2. (1000 * m) \div d \in 0..1000
    BY <2>1, PartOf
  <2> QED
    BY <2>2 DEF m, d
<1> QED
  BY <1>2, <1>4, <1>6 DEF Thousandths

(* What is left of a score after a result never exceeds it, and is all of  *)
(* it if the probabilities stay and left anything open.                    *)
LEMMA RemainingIsPart ==
  ASSUME TableIsFull, NEW score \in Nat,
         NEW f, Weights(f), Sum(f) # 0, NEW g, Weights(g), Sum(g) # 0
  PROVE  /\ Remaining(score, f, g) \in 0..score
         /\ Entropy(f) > 0 => Remaining(score, f, f) = score
<1>1. Entropy(f) \in Nat /\ Entropy(g) \in Nat
  BY EntropyTyped
<1>2. CASE Entropy(f) = 0
  BY <1>2 DEF Remaining
<1>3. CASE Entropy(f) # 0
  <2> DEFINE d == Entropy(f)
             e == Entropy(g)
  <2>1. d \in Nat \ {0} /\ e \in Nat /\ d # 0
    BY <1>1, <1>3
  <2>2. /\ Remaining(score, f, g) = (score * Lesser(d, e)) \div d
        /\ Remaining(score, f, f) = (score * Lesser(d, d)) \div d
    BY <1>3 DEF Remaining
  <2> HIDE DEF d, e
  <2>3. Lesser(d, e) \in Nat /\ Lesser(d, e) <= d /\ Lesser(d, d) = d
    BY <2>1 DEF Lesser
  <2>4. (score * Lesser(d, e)) \div d \in 0..score
    BY <2>1, <2>3, PartOf
  <2>5. (score * d) \div d = score
    BY <2>1, WholeOf
  <2> QED
    BY <2>2, <2>3, <2>4, <2>5
<1> QED
  BY <1>2, <1>3

-----------------------------------------------------------------------------
(* What runs leave to the next ones.                                       *)

(* The probabilities that a run over the hypotheses D starts from, whatever*)
(* ran before: those a caller declared, and equal ones for generated       *)
(* hypotheses, whose names no caller uses.                                 *)
Start(D) ==
  IF D \in Lists THEN Normalize([h \in D |-> Callers[h].prior])
  ELSE Normalize([h \in D |-> 1])

(* The hypotheses of a caller have the priors he declared or, once a run   *)
(* wrote to them, their shares. This is what makes a posterior no prior of *)
(* the next run.                                                           *)
HeldInv ==
  /\ DOMAIN held = DOMAIN Callers
  /\ \A h \in DOMAIN held : held[h].prior \in Nat /\ held[h].tension \in 0..MaxReports
  /\ \A l \in Lists : \/ \A h \in l : held[h].prior = Callers[h].prior
                      \/ \A h \in l : held[h].prior = Start(l)[h]

(* The repair vocabularies are finite,                                     *)
LEMMA FourAreFinite ==
  ASSUME NEW a, NEW b, NEW c, NEW d
  PROVE  IsFiniteSet({a, b, c, d}) /\ IsFiniteSet({a, b, c})
<1>1. IsFiniteSet({} \cup {a})
  BY FS_EmptySet, FS_AddElement
<1>2. IsFiniteSet({a} \cup {b})
  BY <1>1, FS_AddElement
<1>3. IsFiniteSet({a, b} \cup {c})
  BY <1>2, FS_AddElement
<1>4. {a, b} \cup {c} = {a, b, c} /\ {a, b, c} \cup {d} = {a, b, c, d}
  OBVIOUS
<1>5. IsFiniteSet({a, b, c} \cup {d})
  BY <1>3, <1>4, FS_AddElement
<1> QED
  BY <1>3, <1>4, <1>5

(* and never empty.                                                        *)
LEMMA TemplatesAreSome ==
  ASSUME NEW kind
  PROVE  /\ IsFiniteSet(Templates(kind)) /\ Templates(kind) # {}
         /\ Templates(kind) \subseteq HypothesisKinds
<1>1. \/ Templates(kind) = {"RESOURCE_REGIME", "CALIBRATION_ERROR", "MODEL_REVISION"}
      \/ Templates(kind) = {"DEPENDENCY_CORRECTION", "NARROW_SCOPE", "MODEL_REVISION"}
      \/ Templates(kind) = {"NARROW_SCOPE", "CALIBRATION_ERROR", "HIDDEN_VARIABLE",
                            "MODEL_REVISION"}
  BY DEF Templates
<1>2. IsFiniteSet(Templates(kind))
  <2>1. /\ IsFiniteSet({"RESOURCE_REGIME", "CALIBRATION_ERROR", "MODEL_REVISION"})
        /\ IsFiniteSet({"DEPENDENCY_CORRECTION", "NARROW_SCOPE", "MODEL_REVISION"})
        /\ IsFiniteSet({"NARROW_SCOPE", "CALIBRATION_ERROR", "HIDDEN_VARIABLE",
                        "MODEL_REVISION"})
    BY FourAreFinite, Zenon
  <2> QED
    BY <1>1, <2>1, Zenon
<1> QED
  BY <1>1, <1>2 DEF HypothesisKinds

(* The probabilities a run starts from depend on nothing but the names of  *)
(* its hypotheses, and normalizing them again changes nothing.             *)
LEMMA PriorsOfRun ==
  ASSUME HeldInv, NEW tension, NEW chosen \in Lists \cup {{}}
  PROVE  LET hs == Explaining(tension, chosen)
             f  == Priors(hs)
         IN  /\ chosen # {} => DOMAIN hs = chosen
             /\ Weights(f) /\ DOMAIN f = DOMAIN hs
             /\ Sum(f) \in Nat \ {0}
             /\ f = Start(DOMAIN f) /\ Normalize(f) = f
<1> DEFINE hs == Explaining(tension, chosen)
           D == DOMAIN hs
           w == [h \in D |-> hs[h].prior]
           f == Priors(hs)
<1>0. f = Normalize(w)
  BY DEF Priors
<1>1. CASE chosen = {}
  <2>1. hs = [h \in Templates(tension.kind) |-> [kind |-> h, prior |-> 1]]
    BY <1>1 DEF Explaining, Generated
  <2>2. /\ D = Templates(tension.kind) /\ IsFiniteSet(D) /\ D # {}
        /\ D \subseteq HypothesisKinds
    BY <2>1, TemplatesAreSome
  <2>3. w = [h \in D |-> 1]
    BY <2>1, <2>2
  <2> HIDE DEF w, D, f
  <2>4. D \notin Lists
    BY <2>2, WeightsAssumption
  <2>5. /\ Weights(w) /\ DOMAIN w = D /\ Normalize(w) = w
        /\ Sum(w) \in Nat \ {0}
    BY <2>2, <2>3, OnesStay
  <2>6. Start(D) = Normalize(w)
    BY <2>3, <2>4 DEF Start
  <2> QED
    BY <1>0, <1>1, <2>5, <2>6 DEF D, f
<1>2. CASE chosen # {}
  <2>1. hs = [h \in chosen |-> [kind |-> Callers[h].kind, prior |-> held[h].prior]]
    BY <1>2 DEF Explaining
  <2>2. D = chosen /\ w = [h \in chosen |-> held[h].prior]
    BY <2>1
  <2> HIDE DEF w, f, hs
  <2>3. chosen \in Lists /\ chosen \subseteq DOMAIN Callers
    BY <1>2, WeightsAssumption
  <2>4. IsFiniteSet(chosen)
    BY <2>3, FS_Subset, WeightsAssumption
  <2>5. /\ \A h \in chosen : held[h].prior \in Nat /\ Callers[h].prior \in Nat
        /\ \/ \A h \in chosen : held[h].prior = Callers[h].prior
           \/ \A h \in chosen : held[h].prior = Start(chosen)[h]
    BY <2>3, WeightsAssumption DEF HeldInv
  <2>6. Weights(w) /\ DOMAIN w = chosen
    BY <2>2, <2>4, <2>5 DEF Weights
  <2> DEFINE v == [h \in chosen |-> Callers[h].prior]
  <2>7. Weights(v) /\ DOMAIN v = chosen
    BY <2>4, <2>5 DEF Weights
  <2>8. Start(chosen) = Normalize(v)
    BY <2>3 DEF Start
  <2>9. w = v \/ w = Normalize(v)
    <3>1. CASE \A h \in chosen : held[h].prior = Callers[h].prior
      BY <2>2, <3>1
    <3>2. CASE \A h \in chosen : held[h].prior = Start(chosen)[h]
      <4>1. Normalize(v) = [h \in chosen |-> Normalize(v)[h]]
        BY <2>7, NormalizeWeighs DEF Weights
      <4> HIDE DEF v
      <4> QED
        BY <2>2, <2>8, <3>2, <4>1
    <3> QED
      BY <2>5, <3>1, <3>2
  <2> HIDE DEF v
  <2>10. f = Normalize(v)
    BY <1>0, <2>7, <2>9, NormalizeTwice
  <2>11. /\ Weights(f) /\ DOMAIN f = chosen /\ Sum(f) \in Nat \ {0}
         /\ Normalize(f) = f
    BY <1>2, <2>7, <2>10, NormalizeWeighs, NormalizeTwice
  <2> QED
    BY <1>2, <2>2, <2>8, <2>10, <2>11 DEF f, hs
<1> QED
  BY <1>1, <1>2

(* The experiments of a caller, or else the default ones.                  *)
LEMMA TestsOfRun ==
  ASSUME NEW tests \in Tests, NEW hs
  PROVE  Experiments(TestsFor(tests, hs))
<1>1. CASE tests # << >>
  BY <1>1, WeightsAssumption DEF Experiments, TestsFor
<1>2. CASE tests = << >>
  <2> DEFINE a == DefaultExperiment("NARROW_SCOPE", 1, 105, hs)
             b == DefaultExperiment("CALIBRATION_ERROR", 2, 126, hs)
             c == DefaultExperiment("HIDDEN_VARIABLE", 3, 157, hs)
             xs == <<a, b, c>>
  <2>1. TestsFor(tests, hs) = xs
    BY <1>2 DEF TestsFor, DefaultExperiments
  <2>2. \A x \in {a, b, c} : x.cost \in Nat \ {0} /\ x.outcomes = DefaultOutcomes
    BY DEF DefaultExperiment
  <2>3. DOMAIN DefaultOutcomes = 1..3
    BY DEF DefaultOutcomes
  <2>4. IsFiniteSet(1..3)
    BY PositionsFinite
  <2> HIDE DEF a, b, c
  <2>5. DOMAIN xs = 1..3 /\ xs # << >> /\ \A i \in 1..3 : xs[i] \in {a, b, c}
    OBVIOUS
  <2>6. {xs[i] : i \in DOMAIN xs} = {a, b, c}
    OBVIOUS
  <2>7. xs \in Seq({a, b, c})
    OBVIOUS
  <2> HIDE DEF xs
  <2> QED
    BY <2>1, <2>2, <2>3, <2>4, <2>5, <2>6, <2>7 DEF Experiments
<1> QED
  BY <1>1, <1>2

(* The probabilities that a report should end with.                        *)
Concluded(r) ==
  IF r.result = NoResult THEN r.priors
  ELSE Posterior(Chosen(r.tests, r.result.experiment), r.priors, r.result.outcome)

(* A report that counts its result once.                                   *)
Counted(r) == r.priors = Start(DOMAIN r.priors) /\ r.posterior = Concluded(r)

(* A report that recommends as RecommendedTells demands.                   *)
Tells(r) ==
  LET gain == [j \in DOMAIN r.tests |-> InformationGain(r.tests[j], r.priors)]
      best == r.recommended
  IN  \A j \in DOMAIN r.tests :
        (r.tests[j].cost < r.tests[best].cost \/ gain[best] = 0)
          => 100 * gain[j] < 100 * gain[best] + r.tests[j].cost

(* What a report says of its tension.                                      *)
Judged(r) ==
  /\ r.status \in DiscoveryStatuses
  /\ r.tension.score \in Thousandths /\ r.after \in 0..r.tension.score
  /\ Tells(r)
  /\ Ambiguous(r) /\ Entropy(r.priors) > 0 => r.status = "UNRESOLVED"

(* The experiment a result refers to was admitted, and declares the        *)
(* outcome: run refuses other results.                                     *)
LEMMA ChosenIsAdmissible ==
  ASSUME NEW xs, Experiments(xs), NEW hs, NEW result, ~Refused(xs, hs, result),
         result # NoResult
  PROVE  LET x == Chosen(xs, result.experiment)
         IN  /\ Admissible(x, hs)
             /\ \E j \in DOMAIN x.outcomes : x.outcomes[j] = result.outcome
<1> DEFINE S == Named(xs, result.experiment)
           c == CHOOSE i \in S : TRUE
<1>1. PICK i \in S : \E j \in DOMAIN xs[i].outcomes : xs[i].outcomes[j] = result.outcome
  BY DEF Refused
<1>2. c \in S
  BY <1>1
<1>3. c \in DOMAIN xs /\ Admissible(xs[c], hs)
  BY <1>2 DEF Refused, Named
<1>4. \A j, k \in S : j = k
  <2>1. DOMAIN xs \subseteq Nat \ {0}
    BY LenProperties DEF Experiments
  <2>2. \A j, k \in S : /\ j \in Nat \ {0} /\ k \in Nat \ {0}
                         /\ j \notin 1..(k - 1) /\ k \notin 1..(j - 1)
    BY <2>1 DEF Named
  <2> QED
    BY <2>2
<1>5. c = i /\ Chosen(xs, result.experiment) = xs[c]
  BY <1>1, <1>2, <1>4 DEF Chosen
<1> QED
  BY <1>1, <1>3, <1>5

(* Every report counts its result once,                                    *)
LEMMA ReportIsCounted ==
  ASSUME NEW o, NEW tension, NEW xs, NEW hs, NEW result,
         Priors(hs) = Start(DOMAIN Priors(hs))
  PROVE  Counted(Discovery(o, tension, xs, hs, result))
<1> DEFINE r == Discovery(o, tension, xs, hs, result)
<1>1. r.priors = Priors(hs) /\ r.tests = xs /\ r.result = result
  BY DEF Discovery
<1>2. CASE result = NoResult
  <2>1. r.posterior = Priors(hs)
    BY <1>2 DEF Discovery
  <2> QED
    BY <1>1, <1>2, <2>1 DEF Counted, Concluded
<1>3. CASE result # NoResult
  <2>1. r.posterior = Posterior(Chosen(xs, result.experiment), Priors(hs), result.outcome)
    BY <1>3 DEF Discovery, Observed
  <2> QED
    BY <1>1, <1>3, <2>1 DEF Counted, Concluded
<1> QED
  BY <1>2, <1>3

(* recommends as it should,                                                *)
LEMMA ReportTells ==
  ASSUME TableIsFull, NEW o, NEW tension, NEW xs, Experiments(xs), NEW hs, NEW result,
         ~Refused(xs, hs, result),
         Weights(Priors(hs)), DOMAIN Priors(hs) = DOMAIN hs, Sum(Priors(hs)) # 0
  PROVE  Tells(Discovery(o, tension, xs, hs, result))
<1> DEFINE r == Discovery(o, tension, xs, hs, result)
           f == Priors(hs)
           best == Recommend(xs, f)
<1>1. r.priors = f /\ r.tests = xs /\ r.recommended = best
  BY DEF Discovery
<1>2. \A i \in DOMAIN xs : /\ InformationGain(xs[i], f) \in Nat
                           /\ xs[i].cost \in Nat \ {0}
  <2> SUFFICES ASSUME NEW i \in DOMAIN xs
               PROVE  InformationGain(xs[i], f) \in Nat /\ xs[i].cost \in Nat \ {0}
    OBVIOUS
  <2>1. Admissible(xs[i], hs)
    BY DEF Refused
  <2>2. xs[i].cost \in Nat \ {0} /\ IsFiniteSet(DOMAIN xs[i].outcomes)
    BY DEF Experiments
  <2> QED
    BY <2>1, <2>2, GainTyped
<1> HIDE DEF f
<1>3. \A i \in DOMAIN xs : /\ Utility(xs[i], f) = (100 * InformationGain(xs[i], f)) \div xs[i].cost
                           /\ Utility(xs[i], f) \in Int
  <2> SUFFICES ASSUME NEW i \in DOMAIN xs
               PROVE  /\ Utility(xs[i], f) = (100 * InformationGain(xs[i], f)) \div xs[i].cost
                      /\ Utility(xs[i], f) \in Int
    OBVIOUS
  <2>1. (100 * InformationGain(xs[i], f)) \div xs[i].cost \in Nat
    BY <1>2, UtilityRounds
  <2> QED
    BY <2>1 DEF Utility
<1>4. best \in DOMAIN xs /\ \A j \in DOMAIN xs : Utility(xs[j], f) <= Utility(xs[best], f)
  BY <1>3, RecommendIsBest
<1> HIDE DEF best, r
<1>5. ASSUME NEW j \in DOMAIN xs,
             xs[j].cost < xs[best].cost \/ InformationGain(xs[best], f) = 0
      PROVE  100 * InformationGain(xs[j], f) < 100 * InformationGain(xs[best], f) + xs[j].cost
  <2> DEFINE g == InformationGain(xs[best], f)
             h == InformationGain(xs[j], f)
             c == xs[best].cost
             d == xs[j].cost
  <2>1. g \in Nat /\ h \in Nat /\ c \in Nat \ {0} /\ d \in Nat \ {0}
    BY <1>2, <1>4
  <2>2. (100 * h) \div d <= (100 * g) \div c
    BY <1>3, <1>4
  <2>3. d < c \/ g = 0
    BY <1>5
  <2> HIDE DEF g, h, c, d
  <2>4. 100 * h < 100 * g + d
    BY <2>1, <2>2, <2>3, BestTells
  <2> QED
    BY <2>4 DEF g, h, c, d
<1>6. Tells(r)
  BY <1>1, <1>4, <1>5 DEF Tells
<1> QED
  BY <1>6 DEF r

(* learns nothing from an outcome that all hypotheses expect equally,      *)
LEMMA AmbiguousPosterior ==
  ASSUME NEW x, NEW f, Weights(f), Normalize(f) = f, NEW o,
         \E c \in 1..Unit : \A h \in DOMAIN f : x.likelihoods[h][o] = c
  PROVE  Posterior(x, f, o) = f
<1> PICK c \in 1..Unit : \A h \in DOMAIN f : x.likelihoods[h][o] = c
  OBVIOUS
<1>1. Joint(x, f, o) = [h \in DOMAIN f |-> f[h] * c]
  BY DEF Joint
<1>2. c \in Nat \ {0}
  BY WeightsAssumption
<1> QED
  BY <1>1, <1>2, NormalizeScaled DEF Posterior

(* and says so.                                                            *)
LEMMA ReportIsJudged ==
  ASSUME TableIsFull, NEW o, NEW tension, tension.score \in Thousandths,
         NEW xs, Experiments(xs), NEW hs, NEW result, ~Refused(xs, hs, result),
         Weights(Priors(hs)), DOMAIN Priors(hs) = DOMAIN hs, Sum(Priors(hs)) # 0,
         Normalize(Priors(hs)) = Priors(hs)
  PROVE  Judged(Discovery(o, tension, xs, hs, result))
<1> DEFINE r == Discovery(o, tension, xs, hs, result)
           f == Priors(hs)
           x == Chosen(xs, result.experiment)
<1>1. r.priors = f /\ r.tests = xs /\ r.result = result /\ r.tension = tension
  BY DEF Discovery
<1>2. Tells(r)
  BY ReportTells
<1>3. CASE result = NoResult
  <2>1. r.status = "EXPERIMENT_RECOMMENDED" /\ r.after = tension.score
    BY <1>3 DEF Discovery
  <2> HIDE DEF r
  <2>2. ~Ambiguous(r)
    BY <1>1, <1>3 DEF Ambiguous
  <2>3. tension.score \in 0..tension.score
    <3>1. \A m \in Thousandths : m \in 0..m
      BY DEF Thousandths
    <3> QED
      BY <3>1, Zenon
  <2>4. Judged(r)
    BY <1>1, <1>2, <2>1, <2>2, <2>3 DEF Judged, DiscoveryStatuses
  <2> QED
    BY <2>4 DEF r
<1>4. CASE result # NoResult
  <2> DEFINE g == Posterior(x, f, result.outcome)
             after == Remaining(tension.score, f, g)
  <2>1. /\ r.status = IF after < tension.score THEN "TENSION_REDUCED" ELSE "UNRESOLVED"
        /\ r.after = after
    BY <1>4 DEF Discovery, Observed
  <2>2. Weights(g) /\ Sum(g) # 0
    <3>1. Admissible(x, hs) /\ \E j \in DOMAIN x.outcomes : x.outcomes[j] = result.outcome
      BY <1>4, ChosenIsAdmissible
    <3> HIDE DEF f, x
    <3>2. Weights(Joint(x, f, result.outcome)) /\ DOMAIN Joint(x, f, result.outcome) = DOMAIN f
      BY <3>1, JointWeighs DEF f
    <3>3. DOMAIN f # {}
      <4>1. Total(f, {}) = 0
        BY TotalOfNone
      <4> QED
        BY <4>1, SumIsTotal DEF f
    <3> QED
      BY <3>2, <3>3, NormalizeWeighs DEF Posterior
  <2>0. Weights(f) /\ Sum(f) # 0 /\ Normalize(f) = f /\ tension.score \in Nat
    BY DEF Thousandths
  <2> DEFINE outcome == result.outcome
  <2> HIDE DEF r, f, x
  <2>3. /\ after \in 0..tension.score
        /\ Entropy(f) > 0 => Remaining(tension.score, f, f) = tension.score
    <3> HIDE DEF g
    <3> QED
      BY <2>0, <2>2, RemainingIsPart
  <2>4. ASSUME Ambiguous(r), Entropy(f) > 0 PROVE r.status = "UNRESOLVED"
    <3>1. \E c \in 1..Unit : \A h \in DOMAIN f : x.likelihoods[h][outcome] = c
      BY <1>1, <2>4 DEF Ambiguous, Likelihood, x
    <3>2. g = f
      <4> HIDE DEF outcome
      <4>1. Weights(f) /\ Normalize(f) = f
        BY <2>0
      <4>2. Posterior(x, f, outcome) = f
        BY <3>1, <4>1, AmbiguousPosterior, Zenon
      <4> QED
        BY <4>2 DEF outcome
    <3> HIDE DEF g
    <3>3. after = tension.score
      <4>1. after = Remaining(tension.score, f, f)
        BY <3>2
      <4> QED
        BY <2>3, <2>4, <4>1
    <3> HIDE DEF after
    <3> QED
      BY <2>0, <2>1, <3>3
  <2> HIDE DEF after
  <2>5. Judged(r)
    BY <1>1, <1>2, <2>1, <2>3, <2>4 DEF Judged, DiscoveryStatuses, f
  <2> QED
    BY <2>5 DEF r
<1> QED
  BY <1>3, <1>4

-----------------------------------------------------------------------------
(* The reports.                                                            *)

(* The score of a tension is a number of thousandths.                      *)
LEMMA DetectedIsScored ==
  ASSUME DiscoveryInv, NEW o, Detect(file, o) # NoTension
  PROVE  Detect(file, o).score \in Thousandths
<1> DEFINE V(verdict) == Strongest(Valid(file, o, verdict))
           support == SideWeight(V("SUPPORTS"))
           refute == SideWeight(V("REFUTES"))
           T == V("SUPPORTS") \cup V("REFUTES")
           named == {t.group : t \in T}
           groups == Cardinality(named)
<1>1. \A verdict : IsFiniteSet(V(verdict)) /\ SideWeight(V(verdict)) \in Nat
  BY SideWeighs
<1>2. groups \in Nat
  <2>1. IsFiniteSet(T)
    BY <1>1, FS_Union
  <2> HIDE DEF T
  <2>2. [t \in T |-> t.group] \in Surjection(T, named)
    BY DEF Surjection
  <2>3. IsFiniteSet(named)
    BY <2>1, <2>2, FS_Surjection
  <2> QED
    BY <2>3, FS_CardinalityType
<1>3. support # 0 /\ refute # 0
      /\ Detect(file, o).score = ScoreOf(support, refute, groups)
  BY DEF Detect, Sides
<1>4. support \in Nat \ {0} /\ refute \in Nat \ {0}
  BY <1>1, <1>3
<1> HIDE DEF V, support, refute, T, named, groups
<1>5. ScoreOf(support, refute, groups) \in Thousandths
  BY <1>2, <1>4, ScoreBounded, Zenon
<1> QED
  BY <1>3, <1>5

(* The reports are a sequence.                                             *)
Listed == reports \in Seq({reports[i] : i \in DOMAIN reports})

(* ResultCountsOnce is not inductive: it needs that the shared hypotheses  *)
(* are written to with what they were before, and that every report started*)
(* from there.                                                             *)
CountInv == HeldInv /\ Listed /\ \A i \in DOMAIN reports : Counted(reports[i])

(* What the reports say of their tensions.                                 *)
JudgedInv == \A i \in DOMAIN reports : Judged(reports[i])

(* A run adds one report and leaves the others alone.                      *)
LEMMA OneMoreReport ==
  ASSUME Listed, NEW r, reports' = Append(reports, r)
  PROVE  /\ Listed'
         /\ \A i \in DOMAIN reports' :
              reports'[i] = r \/ \E j \in DOMAIN reports : reports'[i] = reports[j]
<1> DEFINE S == {reports[i] : i \in DOMAIN reports}
           q == Append(reports, r)
           n == Len(reports)
<1>1. reports \in Seq(S) /\ reports \in Seq(S \cup {r})
  BY SeqMonotonic DEF Listed
<1>2. n \in Nat /\ DOMAIN reports = 1..n
  BY <1>1
<1>3. /\ q \in Seq(S \cup {r}) /\ DOMAIN q = 1..(n + 1)
      /\ q[n + 1] = r /\ \A i \in 1..n : q[i] = reports[i]
  BY <1>1, <1>2
<1> HIDE DEF q
<1>4. \A i \in DOMAIN q : q[i] = r \/ \E j \in DOMAIN reports : q[i] = reports[j]
  BY <1>2, <1>3
<1>5. S \cup {r} \subseteq {q[i] : i \in DOMAIN q}
  <2>1. r \in {q[i] : i \in DOMAIN q}
    BY <1>2, <1>3
  <2>2. ASSUME NEW i \in DOMAIN reports PROVE reports[i] \in {q[k] : k \in DOMAIN q}
    BY <1>2, <1>3
  <2> QED
    BY <2>1, <2>2
<1>6. q \in Seq({q[i] : i \in DOMAIN q})
  <2> DEFINE T == {q[i] : i \in DOMAIN q}
  <2> HIDE DEF T, S
  <2>1. S \cup {r} \subseteq T
    BY <1>5 DEF S, T
  <2>2. q \in Seq(T)
    BY <1>3, <2>1, SeqMonotonic
  <2> QED
    BY <2>2 DEF T
<1>7. reports' = q
  BY DEF q
<1> QED
  BY <1>4, <1>6, <1>7 DEF Listed

(* What a run writes to the hypotheses of its caller are the shares of what*)
(* they had; other lists have none of them.                                *)
LEMMA AttachedHolds ==
  ASSUME HeldInv, Listed, Len(reports) < MaxReports, NEW tension, NEW chosen \in Lists \cup {{}},
         held' = Attached(Priors(Explaining(tension, chosen)), chosen)
  PROVE  HeldInv'
<1> DEFINE f == Priors(Explaining(tension, chosen))
<1>1. chosen # {} => /\ DOMAIN f = chosen /\ f = Start(chosen)
                     /\ \A h \in chosen : f[h] \in Nat
  BY PriorsOfRun DEF Weights
<1> HIDE DEF f
<1>2. Len(reports) + 1 \in 0..MaxReports /\ Unattached \in 0..MaxReports
  <2>1. Len(reports) \in Nat
    BY DEF Listed
  <2> QED
    BY <2>1, WeightsAssumption DEF Unattached
<1>3. /\ DOMAIN held' = DOMAIN held
      /\ \A h \in DOMAIN held : held'[h] =
           IF h \notin chosen THEN held[h]
           ELSE [prior |-> f[h],
                 tension |-> IF held[h].tension = Unattached THEN Len(reports) + 1
                             ELSE held[h].tension]
  BY DEF Attached, f
<1>4. \A h \in DOMAIN held : /\ h \notin chosen => held'[h] = held[h]
                             /\ h \in chosen => held'[h].prior = f[h]
  BY <1>3
<1>5. \A h \in DOMAIN held' : held'[h].prior \in Nat /\ held'[h].tension \in 0..MaxReports
  BY <1>1, <1>2, <1>3 DEF HeldInv
<1>6. ASSUME NEW l \in Lists
      PROVE  \/ \A h \in l : held'[h].prior = Callers[h].prior
             \/ \A h \in l : held'[h].prior = Start(l)[h]
  <2>1. l \subseteq DOMAIN held
    BY WeightsAssumption DEF HeldInv
  <2>2. CASE l = chosen
    BY <1>1, <1>4, <2>1, <2>2
  <2>3. CASE l # chosen
    <3>1. l \cap chosen = {}
      BY <2>3, WeightsAssumption
    <3>2. \A h \in l : held'[h] = held[h]
      BY <1>4, <2>1, <3>1
    <3> QED
      BY <3>2 DEF HeldInv
  <2> QED
    BY <2>2, <2>3
<1> QED
  BY <1>3, <1>5, <1>6 DEF HeldInv

(* Initially and by every step: a run reports or writes to hypotheses only.*)
LEMMA InitCounted == TensionInit => CountInv /\ JudgedInv
<1> SUFFICES ASSUME TensionInit PROVE CountInv /\ JudgedInv
  OBVIOUS
<1>1. reports = << >> /\ DOMAIN reports = {}
  BY DEF TensionInit
<1>2. /\ DOMAIN held = DOMAIN Callers
      /\ \A h \in DOMAIN Callers : held[h].prior = Callers[h].prior /\ held[h].tension = Unattached
  BY DEF TensionInit
<1>3. HeldInv
  BY <1>2, WeightsAssumption DEF HeldInv, Unattached
<1>4. Listed
  BY <1>1 DEF Listed
<1> QED
  BY <1>1, <1>3, <1>4 DEF CountInv, JudgedInv

(* A step adds no report, or that of a run which found a tension and       *)
(* refused nothing.                                                        *)
LEMMA DiscoverSteps ==
  ASSUME CountInv, [DiscoveryNext]_<<vars, tensionVars>>
  PROVE  /\ HeldInv'
         /\ \/ UNCHANGED reports
            \/ \E o \in Obligation, chosen \in Lists \cup {{}}, tests \in Tests,
                  result \in {NoResult} \cup Results :
                 /\ Detect(file, o) # NoTension
                 /\ LET tension == Detect(file, o)
                        hs == Explaining(tension, chosen)
                        xs == TestsFor(tests, hs)
                    IN  /\ ~Refused(xs, hs, result)
                        /\ reports' = Append(reports, Discovery(o, tension, xs, hs, result))
<1>1. CASE UNCHANGED tensionVars
  BY <1>1 DEF tensionVars, CountInv, HeldInv
<1>2. ASSUME NEW o \in Obligation, NEW chosen \in Lists \cup {{}}, NEW tests \in Tests,
             NEW result \in {NoResult} \cup Results,
             Discover(o, chosen, tests, result)
      PROVE  \/ UNCHANGED tensionVars
             \/ /\ HeldInv'
                /\ \/ UNCHANGED reports
                   \/ /\ Detect(file, o) # NoTension
                      /\ LET tension == Detect(file, o)
                             hs == Explaining(tension, chosen)
                             xs == TestsFor(tests, hs)
                         IN  /\ ~Refused(xs, hs, result)
                             /\ reports' = Append(reports, Discovery(o, tension, xs, hs, result))
  <2> DEFINE tension == Detect(file, o)
             hs == Explaining(tension, chosen)
             xs == TestsFor(tests, hs)
  <2>1. CASE NothingFound(o)
    BY <2>1 DEF NothingFound
  <2>2. CASE /\ tension # NoTension /\ Len(reports) < MaxReports
             /\ Refuse(o, xs, hs, chosen, result)
    <3>1. HeldInv'
      BY <2>2, AttachedHolds DEF Refuse, CountInv
    <3> QED
      BY <2>2, <3>1 DEF Refuse
  <2>3. CASE /\ tension # NoTension /\ Len(reports) < MaxReports
             /\ Report(o, tension, xs, hs, chosen, result)
    <3>1. HeldInv'
      BY <2>3, AttachedHolds DEF Report, CountInv
    <3> QED
      BY <2>3, <3>1 DEF Report
  <2> QED
    BY <1>2, <2>1, <2>2, <2>3 DEF Discover
<1>3. CASE \E o \in Obligation, chosen \in Lists \cup {{}}, tests \in Tests :
             \E result \in {NoResult} \cup Results : Discover(o, chosen, tests, result)
  BY <1>1, <1>2, <1>3
<1>4. UNCHANGED tensionVars \/ \E o \in Obligation, chosen \in Lists \cup {{}}, tests \in Tests :
             \E result \in {NoResult} \cup Results : Discover(o, chosen, tests, result)
  BY DEF DiscoveryNext
<1> QED
  BY <1>1, <1>3, <1>4

(* Such a report counts its result once,                                   *)
LEMMA StepCounted ==
  CountInv /\ [DiscoveryNext]_<<vars, tensionVars>> => CountInv'
<1> SUFFICES ASSUME CountInv, [DiscoveryNext]_<<vars, tensionVars>> PROVE CountInv'
  OBVIOUS
<1>1. HeldInv'
  BY DiscoverSteps
<1>2. CASE UNCHANGED reports
  BY <1>1, <1>2 DEF CountInv, Listed
<1>3. ASSUME NEW o \in Obligation, NEW chosen \in Lists \cup {{}}, NEW tests \in Tests,
             NEW result \in {NoResult} \cup Results,
             LET tension == Detect(file, o)
                 hs == Explaining(tension, chosen)
                 xs == TestsFor(tests, hs)
             IN  reports' = Append(reports, Discovery(o, tension, xs, hs, result))
      PROVE  CountInv'
  <2> DEFINE tension == Detect(file, o)
             hs == Explaining(tension, chosen)
             xs == TestsFor(tests, hs)
             r == Discovery(o, tension, xs, hs, result)
  <2>1. Priors(hs) = Start(DOMAIN Priors(hs))
    BY PriorsOfRun DEF CountInv
  <2>2. Counted(r)
    BY <2>1, ReportIsCounted
  <2>3. reports' = Append(reports, r)
    BY <1>3
  <2> HIDE DEF r
  <2>4. /\ Listed'
        /\ \A i \in DOMAIN reports' :
             reports'[i] = r \/ \E j \in DOMAIN reports : reports'[i] = reports[j]
    BY <2>3, OneMoreReport DEF CountInv
  <2> QED
    BY <1>1, <2>2, <2>4 DEF CountInv
<1> QED
  BY <1>2, <1>3, DiscoverSteps

(* and is right on its tension.                                            *)
LEMMA StepJudged ==
  TableIsFull /\ DiscoveryInv /\ CountInv /\ JudgedInv /\ [DiscoveryNext]_<<vars, tensionVars>>
    => JudgedInv'
<1> SUFFICES ASSUME TableIsFull, DiscoveryInv, CountInv, JudgedInv,
                    [DiscoveryNext]_<<vars, tensionVars>>
             PROVE  JudgedInv'
  OBVIOUS
<1>2. CASE UNCHANGED reports
  BY <1>2 DEF JudgedInv
<1>3. ASSUME NEW o \in Obligation, NEW chosen \in Lists \cup {{}}, NEW tests \in Tests,
             NEW result \in {NoResult} \cup Results,
             Detect(file, o) # NoTension,
             LET tension == Detect(file, o)
                 hs == Explaining(tension, chosen)
                 xs == TestsFor(tests, hs)
             IN  /\ ~Refused(xs, hs, result)
                 /\ reports' = Append(reports, Discovery(o, tension, xs, hs, result))
      PROVE  JudgedInv'
  <2> DEFINE tension == Detect(file, o)
             hs == Explaining(tension, chosen)
             xs == TestsFor(tests, hs)
             r == Discovery(o, tension, xs, hs, result)
  <2>1. /\ Weights(Priors(hs)) /\ DOMAIN Priors(hs) = DOMAIN hs /\ Sum(Priors(hs)) # 0
        /\ Normalize(Priors(hs)) = Priors(hs)
    BY PriorsOfRun DEF CountInv
  <2>2. Experiments(xs)
    BY TestsOfRun
  <2>3. tension.score \in Thousandths
    BY <1>3, DetectedIsScored
  <2>4. ~Refused(xs, hs, result) /\ reports' = Append(reports, r)
    BY <1>3
  <2> HIDE DEF tension, hs, xs
  <2>5. Judged(r)
    BY <2>1, <2>2, <2>3, <2>4, ReportIsJudged
  <2> HIDE DEF r
  <2>6. \A i \in DOMAIN reports' :
          reports'[i] = r \/ \E j \in DOMAIN reports : reports'[i] = reports[j]
    BY <2>4, OneMoreReport DEF CountInv
  <2> QED
    BY <2>5, <2>6 DEF JudgedInv
<1> QED
  BY <1>2, <1>3, DiscoverSteps

(* TensionEngine.run takes a result once: it is no evidence again when the *)
(* caller's hypotheses, which the run wrote to, come back with the same    *)
(* result. The posterior of a report follows from its experiments, its     *)
(* result and the names of its hypotheses.                                 *)
THEOREM ResultsCountOnce == DiscoverySpec => []ResultCountsOnce
<1>1. CountInv => ResultCountsOnce
  <2> SUFFICES ASSUME CountInv, NEW i \in DOMAIN reports, NEW j \in DOMAIN reports,
                      reports[i].tests = reports[j].tests,
                      reports[i].result = reports[j].result,
                      DOMAIN reports[i].priors = DOMAIN reports[j].priors
               PROVE  reports[i].posterior = reports[j].posterior
    BY DEF ResultCountsOnce
  <2>1. Counted(reports[i]) /\ Counted(reports[j])
    BY DEF CountInv
  <2>2. reports[i].priors = reports[j].priors
    BY <2>1 DEF Counted
  <2> QED
    BY <2>1, <2>2 DEF Counted, Concluded
<1> QED
  BY <1>1, InitCounted, StepCounted, PTL DEF DiscoverySpec

(* The two invariants hold together.                                       *)
LEMMA JudgedInvariance ==
  ASSUME TableIsFull
  PROVE  DiscoverySpec => [](CountInv /\ JudgedInv)
<1>1. DiscoveryInv /\ CountInv /\ JudgedInv /\ [DiscoveryNext]_<<vars, tensionVars>> => JudgedInv'
  BY StepJudged
<1> QED
  BY <1>1, InitCounted, StepCounted, DiscoveryInvariance, PTL DEF DiscoverySpec

(* Every report has a status of its own, a score in thousandths, and a     *)
(* remaining score that never exceeds it; what runs write to hypotheses    *)
(* stays a prior and a tension.                                            *)
THEOREM DiscoveryTypeCorrect ==
  ASSUME TableIsFull
  PROVE  DiscoverySpec => []DiscoveryTypeOK
<1>1. CountInv /\ JudgedInv => DiscoveryTypeOK
  BY DEF CountInv, HeldInv, JudgedInv, Judged, Thousandths, DiscoveryTypeOK
<1> QED
  BY <1>1, JudgedInvariance, PTL

(* recommend returns the least costly experiment that separates the        *)
(* hypotheses, but for what rounding hides: no cheaper one tells more, and *)
(* where it tells nothing none does.                                       *)
THEOREM RecommendationTells ==
  ASSUME TableIsFull
  PROVE  DiscoverySpec => []RecommendedTells
<1>1. JudgedInv => RecommendedTells
  BY DEF JudgedInv, Judged, Tells, RecommendedTells
<1> QED
  BY <1>1, JudgedInvariance, PTL

(* "Negative or ambiguous results remain": a result that all hypotheses    *)
(* expect equally leaves the tension UNRESOLVED, wherever they left        *)
(* anything open.                                                          *)
THEOREM AmbiguityResolvesNothing ==
  ASSUME TableIsFull
  PROVE  DiscoverySpec => []AmbiguousResolvesNothing
<1>1. JudgedInv => AmbiguousResolvesNothing
  BY DEF JudgedInv, Judged, AmbiguousResolvesNothing
<1> QED
  BY <1>1, JudgedInvariance, PTL

(* What a report concludes from a result is what the result tells: once,   *)
(* nothing if it is ambiguous, and never that there is more tension.       *)
THEOREM ResultsTellWhatTheyCount ==
  ASSUME TableIsFull
  PROVE  DiscoverySpec => []ResultsCountForWhatTheyTell
<1>1. DiscoveryTypeOK /\ ResultCountsOnce /\ AmbiguousResolvesNothing
        => ResultsCountForWhatTheyTell
  BY DEF ResultsCountForWhatTheyTell
<1> QED
  BY <1>1, DiscoveryTypeCorrect, ResultsCountOnce, AmbiguityResolvesNothing, PTL

-----------------------------------------------------------------------------
(* The merge of obligation graphs.                                         *)

(* What AddLink declares.                                                  *)
CrossRepositoryLinks ==
  [source: Repository \X Node, target: Repository \X Node,
   pin: Dictionaries \cup {NoPin}]

(* The merge, whose results are graphs again.  What was merged is on record*)
(* in the result, so that nothing more is to be known of the graphs than   *)
(* their shape.                                                            *)
MergeInv ==
  /\ graphs \in [Repository -> Dictionaries]
  /\ \A r \in Repository : \A n \in DOMAIN graphs[r].mark :
       graphs[r].mark[n] \in {NoMetadata, NoRepository, r}
  /\ links \in Seq(CrossRepositoryLinks)
  /\ Len(links) <= MaxLinks /\ changes \in 0..MaxChanges
  /\ merged.valid \in BOOLEAN /\ merged.repositories \subseteq Repository
  /\ EdgesJoinNodes /\ IdsAreOfOneNode /\ PinnedEdgeMeansSameContent

(* Marking a graph leaves its nodes and edges as they are.                 *)
LEMMA MarkedAlike ==
  ASSUME NEW g \in Dictionaries, NEW r \in Repository
  PROVE  /\ Marked(g, r) \in Dictionaries
         /\ DOMAIN Marked(g, r).mark = DOMAIN g.mark
         /\ Marked(g, r).edges = g.edges
         /\ \A n \in DOMAIN g.mark : Marked(g, r).mark[n] \in {NoMetadata, r}
<1> DEFINE mark == [n \in DOMAIN g.mark |-> IF g.mark[n] = NoMetadata THEN NoMetadata ELSE r]
<1>1. Marked(g, r) = [g EXCEPT !.mark = mark]
  BY DEF Marked, NodesOf
<1>2. PICK nodes \in SUBSET Node :
        g.mark \in [nodes -> {NoMetadata, NoRepository} \cup Repository]
  BY DEF Dictionaries
<1>3. DOMAIN g.mark = nodes /\ mark \in [nodes -> {NoMetadata, NoRepository} \cup Repository]
  BY <1>2
<1>4. /\ DOMAIN mark = DOMAIN g.mark
      /\ \A n \in DOMAIN g.mark : mark[n] \in {NoMetadata, r}
  OBVIOUS
<1> HIDE DEF mark
<1>5. mark \in UNION {[ns -> {NoMetadata, NoRepository} \cup Repository] : ns \in SUBSET Node}
  BY <1>3
<1>6. /\ [g EXCEPT !.mark = mark] \in Dictionaries
      /\ [g EXCEPT !.mark = mark].mark = mark /\ [g EXCEPT !.mark = mark].edges = g.edges
  BY <1>5 DEF Dictionaries
<1> QED
  BY <1>1, <1>4, <1>6

(* The nodes of a graph are nodes, and its edges pairs of nodes.           *)
LEMMA DictionaryTyped ==
  ASSUME NEW g \in Dictionaries
  PROVE  DOMAIN g.mark \subseteq Node /\ g.edges \subseteq Node \X Node
<1>1. PICK nodes \in SUBSET Node :
        g.mark \in [nodes -> {NoMetadata, NoRepository} \cup Repository]
  BY DEF Dictionaries
<1> QED
  BY <1>1 DEF Dictionaries

(* Of two sequences that go on to the same one, the longer one begins with *)
(* the shorter.                                                            *)
LEMMA BeginsWith ==
  ASSUME NEW S, NEW a \in Seq(S), NEW x \in Seq(S), NEW b \in Seq(S), NEW y \in Seq(S),
         a \o x = b \o y, Len(a) <= Len(b)
  PROVE  SubSeq(b, 1, Len(a)) = a
<1>1. Len(a) \in Nat /\ Len(b) \in Nat /\ Len(x) \in Nat /\ Len(y) \in Nat
  BY LenProperties
<1>2. \A i \in 1..Len(a) + Len(x) : (a \o x)[i] = IF i <= Len(a) THEN a[i] ELSE x[i - Len(a)]
  BY ConcatProperties
<1>3. \A i \in 1..Len(b) + Len(y) : (b \o y)[i] = IF i <= Len(b) THEN b[i] ELSE y[i - Len(b)]
  BY ConcatProperties
<1>4. ASSUME NEW i \in 1..Len(a) PROVE b[i] = a[i]
  <2>1. i \in 1..Len(a) + Len(x) /\ i \in 1..Len(b) + Len(y) /\ i <= Len(a) /\ i <= Len(b)
    BY <1>1
  <2> QED
    BY <1>2, <1>3, <2>1
<1>5. \A i \in 1..Len(a) : b[i] \in S
  BY <1>4, ElementOfSeq
<1>6. /\ SubSeq(b, 1, Len(a)) \in Seq(S) /\ Len(SubSeq(b, 1, Len(a))) = Len(a)
      /\ \A i \in 1..Len(a) : SubSeq(b, 1, Len(a))[i] = b[i]
  <2>1. 1 \in Int /\ Len(a) \in Int
    BY <1>1
  <2>2. /\ SubSeq(b, 1, Len(a)) \in Seq(S)
        /\ Len(SubSeq(b, 1, Len(a))) = IF 1 <= Len(a) THEN Len(a) - 1 + 1 ELSE 0
        /\ \A i \in 1..(Len(a) - 1 + 1) : SubSeq(b, 1, Len(a))[i] = b[1 + i - 1]
    BY <1>5, <2>1, SubSeqProperties
  <2> QED
    BY <1>1, <2>2
<1> QED
  BY <1>4, <1>6, SeqEqual

(* Two nodes have one id only if a repository's name begins with another's.*)
LEMMA IdsCollide ==
  ASSUME MergeConstantsAreRight, NEW r \in Repository, NEW q \in Repository,
         NEW n \in Node, NEW k \in Node, Id(r, n) = Id(q, k)
  PROVE  (r = q /\ n = k) \/ Nested(r, q)
<1> DEFINE a == RepositoryName[r]
           b == RepositoryName[q]
           x == NodeName[n]
           y == NodeName[k]
<1>1. /\ a \in Seq(Part) /\ b \in Seq(Part) /\ x \in Seq(Part) /\ y \in Seq(Part)
      /\ a \o x = b \o y
  BY DEF MergeConstantsAreRight, Id
<1>2. Len(a) \in Nat /\ Len(b) \in Nat
  BY <1>1, LenProperties
<1>3. /\ Len(a) <= Len(b) => SubSeq(b, 1, Len(a)) = a
      /\ Len(b) <= Len(a) => SubSeq(a, 1, Len(b)) = b
  <2> HIDE DEF a, b, x, y
  <2> QED
    BY <1>1, BeginsWith
<1>4. CASE Len(a) = Len(b)
  <2>1. a = b
    <3> HIDE DEF a, b
    <3>1. SubSeq(b, 1, Len(b)) = b
      BY <1>1, SubSeqFull
    <3> QED
      BY <1>2, <1>3, <1>4, <3>1
  <2>2. r = q
    BY <2>1 DEF MergeConstantsAreRight
  <2>3. x = y
    <3> HIDE DEF a, b, x, y
    <3> QED
      BY <1>1, <2>1, ConcatSimplifications
  <2> QED
    BY <2>2, <2>3 DEF MergeConstantsAreRight
<1>5. CASE Len(a) # Len(b)
  <2>1. \/ Len(a) < Len(b) /\ SubSeq(b, 1, Len(a)) = a
        \/ Len(b) < Len(a) /\ SubSeq(a, 1, Len(b)) = b
    BY <1>2, <1>3, <1>5
  <2> QED
    BY <2>1 DEF Nested
<1> QED
  BY <1>4, <1>5

(* The nodes of a merged graph.                                            *)
LEMMA NodesAre ==
  ASSUME NEW gs, NEW rs
  PROVE  /\ \A x : x \in NodesIn(gs, rs) <=>
              \E r \in rs : \E n \in DOMAIN gs[r].mark : x = [id |-> Id(r, n), repository |-> r]
         /\ \A r \in rs : \A n \in DOMAIN gs[r].mark : Id(r, n) \in Ids(NodesIn(gs, rs))
<1>1. \A r : Namespaced(gs[r], r).nodes
             = {[id |-> Id(r, n), repository |-> r] : n \in DOMAIN gs[r].mark}
  BY DEF Namespaced, NodesOf
<1>2. \A x : x \in NodesIn(gs, rs) <=>
        \E r \in rs : \E n \in DOMAIN gs[r].mark : x = [id |-> Id(r, n), repository |-> r]
  <2>1. ASSUME NEW x \in NodesIn(gs, rs)
        PROVE  \E r \in rs : \E n \in DOMAIN gs[r].mark : x = [id |-> Id(r, n), repository |-> r]
    <3>1. PICK r \in rs : x \in Namespaced(gs[r], r).nodes
      BY DEF NodesIn
    <3> QED
      BY <1>1, <3>1
  <2>2. ASSUME NEW r \in rs, NEW n \in DOMAIN gs[r].mark
        PROVE  [id |-> Id(r, n), repository |-> r] \in NodesIn(gs, rs)
    <3>1. [id |-> Id(r, n), repository |-> r] \in Namespaced(gs[r], r).nodes
      BY <1>1
    <3> QED
      BY <3>1 DEF NodesIn
  <2> QED
    BY <2>1, <2>2
<1>3. ASSUME NEW r \in rs, NEW n \in DOMAIN gs[r].mark PROVE Id(r, n) \in Ids(NodesIn(gs, rs))
  <2>1. [id |-> Id(r, n), repository |-> r] \in NodesIn(gs, rs)
    BY <1>2
  <2> QED
    BY <2>1 DEF Ids
<1> QED
  BY <1>2, <1>3

(* The result of a merge of graphs that can be namespaced is a graph.      *)
LEMMA MergedWell ==
  ASSUME NEW gs, NEW rs \in SUBSET Repository,
         \A r \in rs : Resolvable(gs[r]), merged' = Merged(gs, rs)
  PROVE  EdgesJoinNodes' /\ merged'.valid \in BOOLEAN /\ merged'.repositories \subseteq Repository
<1> DEFINE m == Merged(gs, rs)
           own == UNION {Namespaced(gs[r], r).edges : r \in rs}
           across == {LinkIds(links[i]) : i \in DOMAIN links \ Unresolved(gs, rs)}
<1>1. /\ m.nodes = NodesIn(gs, rs) /\ m.edges = own \cup across /\ m.repositories = rs
      /\ m.valid = (Unresolved(gs, rs) = {})
  BY DEF Merged
<1>2. \A e \in own : {e.source, e.target} \subseteq Ids(m.nodes)
  <2> SUFFICES ASSUME NEW r \in rs, NEW e \in Namespaced(gs[r], r).edges
               PROVE  {e.source, e.target} \subseteq Ids(m.nodes)
    OBVIOUS
  <2>1. PICK p \in gs[r].edges : e = [source |-> Id(r, p[1]), target |-> Id(r, p[2])]
    BY DEF Namespaced, LinkedIds
  <2>2. {p[1], p[2]} \subseteq DOMAIN gs[r].mark
    BY <2>1 DEF Resolvable, NodesOf
  <2>3. e.source = Id(r, p[1]) /\ e.target = Id(r, p[2])
    BY <2>1
  <2> HIDE DEF m
  <2> QED
    BY <1>1, <2>2, <2>3, NodesAre
<1>3. \A e \in across : {e.source, e.target} \subseteq Ids(m.nodes)
  <2> HIDE DEF m
  <2>1. \A i \in DOMAIN links \ Unresolved(gs, rs) : Resolves(links[i], gs, rs)
    BY DEF Unresolved
  <2> QED
    BY <1>1, <2>1 DEF Resolves
<1>4. merged' = m /\ (Unresolved(gs, rs) = {}) \in BOOLEAN
  OBVIOUS
<1> HIDE DEF m, own, across
<1>5. \A e \in m.edges : {e.source, e.target} \subseteq Ids(m.nodes)
  BY <1>1, <1>2, <1>3
<1> QED
  BY <1>1, <1>4, <1>5 DEF EdgesJoinNodes, Ids

(* Its ids are of one node, and its links join what they name, as far as   *)
(* the names of the repositories keep them apart.                          *)
LEMMA MergedApart ==
  ASSUME MergeConstantsAreRight,
         NEW gs \in [Repository -> Dictionaries], NEW rs \in SUBSET Repository,
         links \in Seq(CrossRepositoryLinks), merged' = Merged(gs, rs)
  PROVE  IdsAreOfOneNode'
<1> DEFINE m == Merged(gs, rs)
<1>1. /\ m.nodes = NodesIn(gs, rs) /\ m.declared = links
      /\ m.unresolved = Unresolved(gs, rs) /\ merged' = m
  BY DEF Merged
<1> HIDE DEF m
<1>2. ASSUME NEW x \in m.nodes
      PROVE  \E r \in Repository : \E n \in Node : x.id = Id(r, n) /\ x.repository = r
                                                 /\ x = [id |-> Id(r, n), repository |-> r]
  <2>1. PICK r \in rs : \E n \in DOMAIN gs[r].mark : x = [id |-> Id(r, n), repository |-> r]
    BY <1>1, NodesAre
  <2>2. PICK n \in DOMAIN gs[r].mark : x = [id |-> Id(r, n), repository |-> r]
    BY <2>1
  <2>3. r \in Repository /\ n \in Node
    BY DictionaryTyped
  <2> QED
    BY <2>2, <2>3
<1>3. ASSUME NEW x \in m.nodes, NEW y \in m.nodes, x.id = y.id
      PROVE  x = y \/ Nested(x.repository, y.repository)
  <2>1. PICK r \in Repository : \E n \in Node : x.id = Id(r, n) /\ x.repository = r
                                                /\ x = [id |-> Id(r, n), repository |-> r]
    BY <1>2
  <2>2. PICK n \in Node : x.id = Id(r, n) /\ x.repository = r
                          /\ x = [id |-> Id(r, n), repository |-> r]
    BY <2>1
  <2>3. PICK q \in Repository : \E k \in Node : y.id = Id(q, k) /\ y.repository = q
                                                /\ y = [id |-> Id(q, k), repository |-> q]
    BY <1>2
  <2>4. PICK k \in Node : y.id = Id(q, k) /\ y.repository = q
                          /\ y = [id |-> Id(q, k), repository |-> q]
    BY <2>3
  <2>5. (r = q /\ n = k) \/ Nested(r, q)
    BY <1>3, <2>2, <2>4, IdsCollide
  <2> QED
    BY <2>2, <2>4, <2>5
<1>4. ASSUME NEW end \in Repository \X Node, NEW x \in m.nodes, x.id = Id(end[1], end[2])
      PROVE  EndsMeet(end, x)
  <2>1. PICK r \in Repository : \E n \in Node : x.id = Id(r, n) /\ x.repository = r
    BY <1>2
  <2>2. PICK n \in Node : x.id = Id(r, n) /\ x.repository = r
    BY <2>1
  <2>3. end[1] \in Repository /\ end[2] \in Node
    OBVIOUS
  <2>4. r = end[1] \/ Nested(r, end[1])
    BY <1>4, <2>2, <2>3, IdsCollide
  <2> QED
    BY <2>2, <2>4 DEF EndsMeet
<1>5. ASSUME NEW i \in DOMAIN links, NEW x \in m.nodes
      PROVE  /\ x.id = LinkIds(links[i]).source => EndsMeet(links[i].source, x)
             /\ x.id = LinkIds(links[i]).target => EndsMeet(links[i].target, x)
  <2>1. links[i] \in CrossRepositoryLinks
    OBVIOUS
  <2>2. links[i].source \in Repository \X Node /\ links[i].target \in Repository \X Node
    BY <2>1 DEF CrossRepositoryLinks
  <2>3. /\ LinkIds(links[i]).source = Id(links[i].source[1], links[i].source[2])
        /\ LinkIds(links[i]).target = Id(links[i].target[1], links[i].target[2])
    BY DEF LinkIds
  <2> QED
    BY <1>4, <2>2, <2>3
<1>6. /\ \A x, y \in m.nodes : x.id = y.id => x = y \/ Nested(x.repository, y.repository)
      /\ \A i \in DOMAIN links \ Unresolved(gs, rs) : \A x \in m.nodes :
           /\ x.id = LinkIds(links[i]).source => EndsMeet(links[i].source, x)
           /\ x.id = LinkIds(links[i]).target => EndsMeet(links[i].target, x)
  BY <1>3, <1>5
<1>7. /\ merged'.nodes = m.nodes /\ merged'.declared = links
      /\ merged'.unresolved = Unresolved(gs, rs)
  BY <1>1
<1>8. /\ \A x, y \in merged'.nodes : x.id = y.id => x = y \/ Nested(x.repository, y.repository)
      /\ \A i \in DOMAIN merged'.declared \ merged'.unresolved : \A x \in merged'.nodes :
           /\ x.id = LinkIds(merged'.declared[i]).source => EndsMeet(merged'.declared[i].source, x)
           /\ x.id = LinkIds(merged'.declared[i]).target => EndsMeet(merged'.declared[i].target, x)
  BY <1>6, <1>7
<1> QED
  BY <1>8 DEF IdsAreOfOneNode

(* A link that was pinned became an edge only if its target is, in the     *)
(* graphs that were merged, what it was pinned to.                         *)
LEMMA MergedAsPinned ==
  ASSUME NEW gs, NEW rs, merged' = Merged(gs, rs)
  PROVE  PinnedEdgeMeansSameContent'
<1> DEFINE m == Merged(gs, rs)
<1>1. /\ m.declared = links /\ m.unresolved = Unresolved(gs, rs) /\ m.repositories = rs
      /\ m.contents = [r \in rs |-> Content(gs[r])]
  BY DEF Merged
<1>2. ASSUME NEW i \in DOMAIN links \ Unresolved(gs, rs), links[i].pin # NoPin
      PROVE  /\ links[i].target[1] \in m.repositories
             /\ Content(links[i].pin) = m.contents[links[i].target[1]]
  <2>1. Resolves(links[i], gs, rs)
    BY <1>2 DEF Unresolved
  <2>2. links[i].target[1] \in rs /\ links[i].pin = gs[links[i].target[1]]
    BY <1>2, <2>1 DEF Resolves, GraphDigest
  <2> QED
    BY <1>1, <2>2
<1> HIDE DEF m
<1>3. merged' = m
  BY DEF m
<1> QED
  BY <1>1, <1>2, <1>3 DEF PinnedEdgeMeansSameContent, Content, NodesOf

(* The initial state: any graphs, no links, no result.                     *)
LEMMA InitMerge == MergeConstantsAreRight /\ MergeInit => MergeInv
<1> SUFFICES ASSUME MergeConstantsAreRight, MergeInit PROVE MergeInv
  OBVIOUS
<1>1. /\ graphs \in [Repository -> FirstGraphs] /\ links = << >> /\ changes = 0
      /\ merged = NoMerge
  BY DEF MergeInit
<1>2. graphs \in [Repository -> Dictionaries]
  BY <1>1 DEF MergeConstantsAreRight
<1>3. \A r \in Repository : \A n \in DOMAIN graphs[r].mark :
        graphs[r].mark[n] \in {NoMetadata, NoRepository, r}
  BY <1>1 DEF MergeConstantsAreRight
<1>4. merged.valid \in BOOLEAN /\ merged.repositories \subseteq Repository
  BY <1>1 DEF NoMerge
<1>5. EdgesJoinNodes /\ IdsAreOfOneNode /\ PinnedEdgeMeansSameContent
  BY <1>1 DEF EdgesJoinNodes, IdsAreOfOneNode, PinnedEdgeMeansSameContent
<1>6. Len(links) <= MaxLinks /\ changes \in 0..MaxChanges
  BY <1>1 DEF MergeConstantsAreRight
<1> QED
  BY <1>1, <1>2, <1>3, <1>4, <1>5, <1>6 DEF MergeInv

(* Every step: a merge marks the graphs before it copies them.             *)
LEMMA StepMerge ==
  MergeConstantsAreRight /\ MergeInv /\ [MergeNext]_mergeVars => MergeInv'
<1> SUFFICES ASSUME MergeConstantsAreRight, MergeInv, [MergeNext]_mergeVars
             PROVE  MergeInv'
  OBVIOUS
<1> DEFINE Shape ==
             /\ graphs \in [Repository -> Dictionaries]
             /\ \A r \in Repository : \A n \in DOMAIN graphs[r].mark :
                  graphs[r].mark[n] \in {NoMetadata, NoRepository, r}
           Links == links \in Seq(CrossRepositoryLinks)
           Result ==
             /\ merged.valid \in BOOLEAN /\ merged.repositories \subseteq Repository
             /\ EdgesJoinNodes /\ IdsAreOfOneNode /\ PinnedEdgeMeansSameContent
           Bounds == Len(links) <= MaxLinks /\ changes \in 0..MaxChanges
<1>1. MergeInv <=> Shape /\ Links /\ Result /\ Bounds
  BY DEF MergeInv
<1>2. MergeInv' <=> Shape' /\ Links' /\ Result' /\ Bounds'
  BY DEF MergeInv
<1>3. UNCHANGED merged => Result'
  <2> SUFFICES ASSUME merged' = merged PROVE Result'
    OBVIOUS
  <2>1. EdgesJoinNodes'
    BY <1>1 DEF EdgesJoinNodes, Ids
  <2>2. IdsAreOfOneNode'
    BY <1>1 DEF IdsAreOfOneNode
  <2>3. PinnedEdgeMeansSameContent'
    BY <1>1 DEF PinnedEdgeMeansSameContent, Content, NodesOf
  <2> QED
    BY <1>1, <2>1, <2>2, <2>3
<1>4. ASSUME NEW s \in Repository \X Node, NEW t \in Repository \X Node, NEW pinned \in BOOLEAN,
             AddLink(s, t, pinned)
      PROVE  MergeInv'
  <2>1. UNCHANGED <<graphs, merged, changes>> /\ Len(links) < MaxLinks
    BY <1>4 DEF AddLink
  <2>2. Shape' /\ Result'
    BY <1>1, <1>3, <2>1
  <2> DEFINE l == [source |-> s, target |-> t,
                   pin |-> IF pinned THEN GraphDigest(graphs[t[1]]) ELSE NoPin]
  <2>3. l \in CrossRepositoryLinks
    BY <1>1 DEF GraphDigest, CrossRepositoryLinks
  <2>4. links' = Append(links, l)
    BY <1>4 DEF AddLink
  <2> HIDE DEF l
  <2>5. Links' /\ Len(links') = Len(links) + 1 /\ Len(links) \in Nat
    BY <1>1, <2>3, <2>4
  <2>6. Bounds'
    BY <1>1, <2>1, <2>5 DEF MergeConstantsAreRight
  <2> QED
    BY <1>2, <2>2, <2>5, <2>6
<1>5. ASSUME NEW r \in Repository, NEW n \in Node, NEW m \in Node, Change(r, n, m)
      PROVE  MergeInv'
  <2>1. /\ changes < MaxChanges /\ changes' = changes + 1 /\ UNCHANGED <<links, merged>>
        /\ graphs' = [graphs EXCEPT ![r].edges = @ \cup {<<n, m>>}]
    BY <1>5 DEF Change
  <2>2. Links' /\ Result' /\ Bounds'
    BY <1>1, <1>3, <2>1 DEF MergeConstantsAreRight
  <2> DEFINE changed == [graphs[r] EXCEPT !.edges = graphs[r].edges \cup {<<n, m>>}]
  <2>3. changed \in Dictionaries /\ changed.mark = graphs[r].mark
    <3>1. graphs[r] \in Dictionaries
      BY <1>1
    <3> QED
      BY <3>1 DEF Dictionaries
  <2>4. graphs' = [graphs EXCEPT ![r] = changed]
    BY <2>1
  <2> HIDE DEF changed
  <2>5. Shape'
    BY <1>1, <2>3, <2>4
  <2> QED
    BY <1>2, <2>2, <2>5
<1>6. ASSUME NEW rs \in (SUBSET Repository) \ {{}}, Merge(rs)
      PROVE  MergeInv'
  <2> DEFINE marked(upto) ==
               [r \in Repository |-> IF r \in upto THEN Marked(graphs[r], r) ELSE graphs[r]]
  <2>1. \A upto : /\ marked(upto) \in [Repository -> Dictionaries]
                  /\ \A r \in Repository :
                       /\ DOMAIN marked(upto)[r].mark = DOMAIN graphs[r].mark
                       /\ marked(upto)[r].edges = graphs[r].edges
                       /\ \A n \in DOMAIN graphs[r].mark :
                            marked(upto)[r].mark[n] \in {NoMetadata, NoRepository, r}
    BY <1>1, MarkedAlike
  <2>2. UNCHANGED <<links, changes>> /\ \E upto : graphs' = marked(upto)
    BY <1>6 DEF Merge
  <2>3. /\ \/ UNCHANGED merged
           \/ /\ \A r \in rs : Resolvable(graphs[r])
              /\ merged' = Merged(graphs', rs)
    BY <1>6 DEF Merge
  <2> HIDE DEF marked
  <2>4. Shape' /\ Links' /\ Bounds'
    BY <1>1, <2>1, <2>2
  <2>5. \A r \in Repository : Resolvable(graphs[r]) => Resolvable(graphs'[r])
    BY <2>1, <2>2 DEF Resolvable, NodesOf
  <2>6. CASE UNCHANGED merged
    BY <1>2, <1>3, <2>4, <2>6
  <2>7. CASE /\ \A r \in rs : Resolvable(graphs[r])
             /\ merged' = Merged(graphs', rs)
    <3>1. graphs' \in [Repository -> Dictionaries] /\ rs \in SUBSET Repository
      BY <2>4
    <3>2. \A r \in rs : Resolvable(graphs'[r])
      BY <2>5, <2>7
    <3>3. EdgesJoinNodes' /\ merged'.valid \in BOOLEAN
          /\ merged'.repositories \subseteq Repository
      BY <2>7, <3>1, <3>2, MergedWell
    <3>4. PinnedEdgeMeansSameContent'
      BY <2>7, MergedAsPinned
    <3>5. IdsAreOfOneNode'
      BY <1>1, <2>7, <3>1, MergedApart
    <3> QED
      BY <1>2, <2>4, <3>3, <3>4, <3>5
  <2> QED
    BY <2>3, <2>6, <2>7
<1>7. CASE UNCHANGED mergeVars
  <2>1. UNCHANGED <<graphs, links, merged, changes>>
    BY <1>7 DEF mergeVars
  <2> QED
    BY <1>1, <1>2, <1>3, <2>1
<1> HIDE DEF Shape, Links, Result, Bounds
<1> QED
  BY <1>4, <1>5, <1>6, <1>7 DEF MergeNext

(* federation/graph_merge.py: the result of a merge is a graph again, whose*)
(* pinned links point at what they were pinned to, however the graphs were *)
(* changed before and after, and whose ids stand for one node each unless  *)
(* one repository's name begins with another's and a colon.                *)
THEOREM MergeStaysFaithful ==
  ASSUME MergeConstantsAreRight PROVE MergeSpec => []MergeIsFaithful
<1>1. MergeInv => MergeIsFaithful
  <2> SUFFICES ASSUME MergeInv PROVE MergeIsFaithful
    OBVIOUS
  <2>1. \A r \in Repository :
          /\ DOMAIN graphs[r].mark \subseteq Node /\ graphs[r].edges \subseteq Node \X Node
    BY DictionaryTyped DEF MergeInv
  <2>2. changes <= MaxChanges
    BY DEF MergeInv, MergeConstantsAreRight
  <2> QED
    BY <2>1, <2>2 DEF MergeInv, MergeIsFaithful, MergeTypeOK, NodesOf
<1>2. MergeInit => MergeInv
  BY InitMerge
<1>3. MergeInv /\ [MergeNext]_mergeVars => MergeInv'
  BY StepMerge
<1> QED
  BY <1>1, <1>2, <1>3, PTL DEF MergeSpec

-----------------------------------------------------------------------------

(* No evaluator has the name of another file of the directory.             *)
EvaluatorsAreNamed ==
  /\ Evaluators \in Seq({Evaluators[i] : i \in DOMAIN Evaluators})
  /\ \A i \in DOMAIN Evaluators :
       Evaluators[i] \notin {"preregistration", "preregistration.signed", "report",
                             "report.signed", "bundle"}

Early     == {"new", "preregistered", "ready"}
Complete  == {"bundling", "bundled", "reported", "signed", "done"}
Manifested == {"bundled", "reported", "signed", "done"}
Steps     == Early \cup {"inferring"} \cup Complete \cup {"failed"}

(* What an evaluator answered, and in which process.                       *)
Result == [pid : Pids, predictions : Predictions]

(* The type invariant.                                                     *)
RunTypes ==
  /\ step \in [Run -> Steps]
  /\ amended \in [Run -> SUBSET Inputs]
  /\ results \in [Run -> Seq(Result)]
  /\ files \in [Names -> Run \cup {Nothing}]
  /\ manifest.by \in Run \cup {Nothing}
  /\ stored \subseteq Run
  /\ gate.approved \in BOOLEAN
  /\ secret \in [Run -> Secrets \cup {NoSecret}]

(* How far the inputs and the results of a run are known by its step.      *)
Course(r) ==
  /\ Len(results[r]) <= Len(Evaluators)
  /\ r \in stored <=> step[r] = "done"
  /\ step[r] \in Early => results[r] = << >>
  /\ step[r] \in {"inferring"} \cup Complete => amended[r] = {}
  /\ step[r] \in Complete => Len(results[r]) = Len(Evaluators)

(* A run whose report was written: no step takes back what it says.        *)
Reported(r) ==
  /\ step[r] \in {"reported", "signed", "done", "failed"}
  /\ amended[r] = {}
  /\ Len(results[r]) = Len(Evaluators)

(* The report in the directory, and the one the gate approved of.          *)
ReportIsWhole == \A r \in Run \ {Nothing} : files["report"] = r => Reported(r)

GateSawWhole ==
  gate.approved =>
    \E r \in Run : gate.report = r /\ Reported(r) /\ Reproduced(results[r])

(* The inductive invariant.                                                *)
RunInv == RunTypes /\ (\A r \in Run : Course(r)) /\ ReportIsWhole /\ GateSawWhole

-----------------------------------------------------------------------------

(* An interval of naturals is finite and as large as its end.              *)
LEMMA Positions ==
  ASSUME NEW n \in Nat PROVE IsFiniteSet(1..n) /\ Cardinality(1..n) = n
<1>1. IsFiniteSet(1..n)
  BY FS_Interval
<1>2. Cardinality(1..n) = n
  <2>1. Cardinality(1..n) = IF 1 > n THEN 0 ELSE n - 1 + 1
    BY FS_Interval
  <2> QED
    BY <2>1
<1> QED
  BY <1>1, <1>2

(* What the counts of _aggregate_reproduction say about each pair of       *)
(* results: one prediction among them, and no process twice.               *)
LEMMA CountsTell ==
  ASSUME NEW rs \in Seq(Result), Reproduced(rs),
         NEW i \in 1..Len(rs), NEW j \in 1..Len(rs)
  PROVE  /\ rs[i].predictions = rs[j].predictions
         /\ rs[i].pid = rs[j].pid => i = j
<1> DEFINE n == Len(rs)
<1> DEFINE P == {rs[k].predictions : k \in DOMAIN rs}
<1> DEFINE D == {rs[k].pid : k \in DOMAIN rs}
<1>1. n \in Nat /\ DOMAIN rs = 1..n
  BY LenProperties
<1>2. IsFiniteSet(1..n) /\ Cardinality(1..n) = n
  BY <1>1, Positions
<1>3. Cardinality(P) = 1 /\ Cardinality(D) = n
  BY DEF Reproduced
<1>4. rs[i].predictions = rs[j].predictions
  <2> DEFINE f == [k \in 1..n |-> rs[k].predictions]
  <2>1. f \in Surjection(1..n, P)
    BY <1>1 DEF Surjection
  <2>2. IsFiniteSet(P)
    BY <1>2, <2>1, FS_Surjection
  <2>3. PICK x : P = {x}
    BY <1>3, <2>2, FS_Singleton
  <2>4. rs[i].predictions \in P /\ rs[j].predictions \in P
    BY <1>1
  <2> QED
    BY <2>3, <2>4
<1>5. rs[i].pid = rs[j].pid => i = j
  <2> DEFINE g == [k \in 1..n |-> rs[k].pid]
  <2>1. g \in Surjection(1..n, D)
    BY <1>1 DEF Surjection
  <2>2. g \in Injection(1..n, D)
    BY <1>2, <1>3, <2>1, FS_SurjSameCardinalityImpliesInj
  <2>3. g[i] = rs[i].pid /\ g[j] = rs[j].pid
    OBVIOUS
  <2>4. i \in 1..n /\ j \in 1..n
    OBVIOUS
  <2> HIDE DEF g, n, D
  <2> QED
    BY <2>2, <2>3, <2>4 DEF Injection, IsInjective
<1> QED
  BY <1>4, <1>5

(* A run that was reported and counts as reproduced: all of them agree.    *)
LEMMA ReportedIsBehind ==
  ASSUME EvaluatorsAreNamed, RunTypes, NEW r \in Run, Reported(r), Reproduced(results[r])
  PROVE  Behind(r)
<1>1. DOMAIN Evaluators = 1..Len(Evaluators)
  BY LenProperties DEF EvaluatorsAreNamed
<1>2. results[r] \in Seq(Result) /\ Len(results[r]) = Len(Evaluators)
  BY DEF RunTypes, Reported
<1> QED
  BY <1>1, <1>2, CountsTell DEF Behind, Reported

-----------------------------------------------------------------------------

(* The initial state satisfies the invariant.                              *)
LEMMA InitRuns == EvaluatorsAreNamed /\ ReproductionInit => RunInv
<1> SUFFICES ASSUME EvaluatorsAreNamed, ReproductionInit PROVE RunInv
  OBVIOUS
<1>1. << >> \in Seq(Result) /\ Len(<< >>) = 0 /\ Len(Evaluators) \in Nat
  BY EmptySeq, LenProperties DEF EvaluatorsAreNamed
<1>2. RunTypes
  BY <1>1 DEF ReproductionInit, RunTypes, Steps, Early, Names, NoGate
<1>3. \A r \in Run : Course(r)
  BY <1>1 DEF ReproductionInit, Course, Early, Complete
<1> QED
  BY <1>2, <1>3 DEF ReproductionInit, RunInv, NoGate, Names, ReportIsWhole, GateSawWhole

(* A run starts, and the release gate runs, with some secret or without.   *)
Preregisters(r) == \E s \in Secrets \cup {NoSecret} : Preregister(r, s)

GateRuns == \E s \in Secrets \cup {NoSecret} : Gate(s)

(* What steps of the runs there are, but for one that infers.              *)
Proceeds(r) ==
  \/ Preregisters(r) \/ SignProtocol(r) \/ Verify(r)
  \/ WriteBundle(r) \/ WriteManifest(r) \/ WriteReport(r) \/ SignReport(r) \/ Record(r)

(* A run moves to another of its steps, and no other run does.             *)
LEMMA MovesTyped ==
  ASSUME RunTypes, NEW r \in Run, NEW from, NEW to \in Steps, Moves(r, from, to)
  PROVE  /\ step[r] = from /\ step' \in [Run -> Steps] /\ step'[r] = to
         /\ \A x \in Run \ {r} : step'[x] = step[x]
  BY DEF Moves, RunTypes

(* A run writes a file of the directory.                                   *)
LEMMA WritesTyped ==
  ASSUME RunTypes, NEW r \in Run, NEW name \in Names, Writes(r, name)
  PROVE  files' \in [Names -> Run \cup {Nothing}]
  BY DEF Writes, RunTypes

(* The steps of a run write files of the directory.                        *)
LEMMA FixedNames ==
  {"preregistration", "preregistration.signed", "report", "report.signed", "bundle"} \subseteq Names
  BY DEF Names, Envelopes

(* How a run that goes on moves: forward, verified before it infers,       *)
(* complete before its bundle, and stored at its end.                      *)
Forward(r) ==
  /\ step' \in [Run -> Steps] /\ \A x \in Run \ {r} : step'[x] = step[x]
  /\ \/ step[r] \in Early /\ step'[r] \in Early \cup {"failed"} /\ stored' = stored
     \/ step[r] \in Early /\ step'[r] = "inferring" /\ amended[r] = {} /\ stored' = stored
     \/ /\ step[r] = "inferring" /\ Len(results[r]) = Len(Evaluators)
        /\ step'[r] = "bundling" /\ stored' = stored
     \/ step[r] \in Complete /\ step'[r] \in Complete \ {"done"} /\ step[r] # "done" /\ stored' = stored
     \/ step[r] \in Complete /\ step'[r] = "done" /\ stored' = stored \cup {r}

(* Each of them moves forward and writes a file, or none.                  *)
LEMMA ProceedsForward ==
  ASSUME RunTypes, NEW r \in Run, Proceeds(r)
  PROVE  /\ Forward(r) /\ UNCHANGED <<amended, results, gate>>
         /\ files' \in [Names -> Run \cup {Nothing}]
         /\ manifest'.by \in Run \cup {Nothing}
         /\ secret' \in [Run -> Secrets \cup {NoSecret}]
<1> USE MovesTyped, WritesTyped, FixedNames
<1>0. /\ files \in [Names -> Run \cup {Nothing}] /\ manifest.by \in Run \cup {Nothing}
      /\ "preregistered" \in Steps /\ "ready" \in Steps /\ "inferring" \in Steps
      /\ "failed" \in Steps /\ "bundling" \in Steps /\ "bundled" \in Steps
      /\ "reported" \in Steps /\ "signed" \in Steps /\ "done" \in Steps
      /\ secret \in [Run -> Secrets \cup {NoSecret}]
  BY DEF RunTypes, Steps, Early, Complete
<1>1. CASE Preregisters(r)
  <2>1. Moves(r, "new", "preregistered") \/ Moves(r, "new", "ready")
    BY <1>1 DEF Preregisters, Preregister
  <2> QED
    BY <1>0, <1>1, <2>1 DEF Preregisters, Preregister, Forward, Early
<1>2. CASE SignProtocol(r)
  BY <1>0, <1>2 DEF SignProtocol, Forward, Early
<1>3. CASE Verify(r)
  <2>1. \/ Moves(r, "ready", "inferring") /\ amended[r] = {}
        \/ Moves(r, "ready", "failed")
    BY <1>3 DEF Verify
  <2> QED
    BY <1>0, <1>3, <2>1 DEF Verify, Forward, Early
<1>4. CASE WriteBundle(r)
  BY <1>0, <1>4 DEF WriteBundle, Forward
<1>5. CASE WriteManifest(r)
  BY <1>0, <1>5 DEF WriteManifest, Forward, Complete
<1>6. CASE WriteReport(r)
  <2>1. Moves(r, "bundled", "reported") \/ Moves(r, "bundled", "signed")
    BY <1>6 DEF WriteReport
  <2> QED
    BY <1>0, <1>6, <2>1 DEF WriteReport, Forward, Complete
<1>7. CASE SignReport(r)
  BY <1>0, <1>7 DEF SignReport, Forward, Complete
<1>8. CASE Record(r)
  BY <1>0, <1>8 DEF Record, Forward, Complete
<1> QED
  BY <1>1, <1>2, <1>3, <1>4, <1>5, <1>6, <1>7, <1>8 DEF Proceeds

(* A run goes on: its results stay.                                        *)
LEMMA ProceedsCourse ==
  ASSUME EvaluatorsAreNamed, RunInv, NEW r \in Run, Proceeds(r)
  PROVE  RunTypes' /\ (\A x \in Run : Course(x)') /\ UNCHANGED <<amended, results>>
<1>1. /\ Forward(r) /\ UNCHANGED <<amended, results, gate>>
      /\ files' \in [Names -> Run \cup {Nothing}] /\ manifest'.by \in Run \cup {Nothing}
      /\ secret' \in [Run -> Secrets \cup {NoSecret}]
  BY ProceedsForward DEF RunInv
<1>2. RunTypes'
  BY <1>1 DEF RunInv, RunTypes, Forward
<1>3. ASSUME NEW x \in Run PROVE Course(x)'
  <2>1. Course(x)
    BY DEF RunInv
  <2>2. CASE x # r
    BY <1>1, <2>1, <2>2 DEF Course, Forward
  <2>3. CASE x = r
    BY <1>1, <2>1, <2>3 DEF Course, Forward, Early, Complete
  <2> QED
    BY <2>2, <2>3
<1> QED
  BY <1>1, <1>2, <1>3

(* An evaluator answers: one more result.                                  *)
LEMMA InferCourse ==
  ASSUME EvaluatorsAreNamed, RunInv, NEW r \in Run, NEW pid \in Pids, NEW p \in Predictions,
         Infer(r, pid, p)
  PROVE  RunTypes' /\ (\A x \in Run : Course(x)')
<1> DEFINE new == [pid |-> pid, predictions |-> p]
<1> DEFINE more == Append(results[r], new)
<1>1. new \in Result
  BY DEF Result
<1>2. step[r] = "inferring" /\ results' = [results EXCEPT ![r] = more]
      /\ Len(results[r]) < Len(Evaluators) /\ results[r] \in Seq(Result)
  BY DEF Infer, RunInv, RunTypes
<1> HIDE DEF new
<1>3. more \in Seq(Result) /\ Len(more) = Len(results[r]) + 1
  BY <1>1, <1>2, AppendProperties
<1>4. Len(results[r]) \in Nat /\ Len(Evaluators) \in Nat
  BY <1>2, LenProperties DEF EvaluatorsAreNamed
<1> HIDE DEF more
<1>5. RunTypes'
  BY <1>2, <1>3 DEF Infer, Writes, RunInv, RunTypes
<1>6. ASSUME NEW x \in Run PROVE Course(x)'
  BY <1>2, <1>3, <1>4 DEF Infer, RunInv, RunTypes, Course, Early, Complete
<1> QED
  BY <1>5, <1>6

(* The steps that end a run early, change its inputs, or are not its own.  *)
LEMMA OthersCourse ==
  ASSUME EvaluatorsAreNamed, RunInv,
         \/ \E r \in Run : InferFails(r) \/ Die(r) \/ \E input \in Inputs : Amend(r, input)
         \/ GateRuns
  PROVE  RunTypes' /\ (\A x \in Run : Course(x)')
<1>1. << >> \in Seq(Result) /\ Len(<< >>) = 0 /\ Len(Evaluators) \in Nat
  BY EmptySeq, LenProperties DEF EvaluatorsAreNamed
<1>2. CASE \E r \in Run : InferFails(r) \/ Die(r)
  <2> PICK r \in Run : InferFails(r) \/ Die(r)
    BY <1>2
  <2>1. /\ step' = [step EXCEPT ![r] = "failed"] /\ r \notin stored
        /\ results' = results \/ results' = [results EXCEPT ![r] = << >>]
        /\ UNCHANGED <<amended, files, manifest, stored, gate, secret>>
    BY DEF InferFails, Die, Moves, Active, Ended, RunInv, RunTypes, Course
  <2>2. RunTypes'
    BY <1>1, <2>1 DEF RunInv, RunTypes, Steps
  <2>3. ASSUME NEW x \in Run PROVE Course(x)'
    BY <1>1, <2>1 DEF RunInv, RunTypes, Course, Early, Complete
  <2> QED
    BY <2>2, <2>3
<1>3. CASE \E r \in Run : \E input \in Inputs : Amend(r, input)
  <2> PICK r \in Run, input \in Inputs : Amend(r, input)
    BY <1>3
  <2>1. RunTypes'
    BY DEF Amend, RunInv, RunTypes
  <2>2. ASSUME NEW x \in Run PROVE Course(x)'
    BY DEF Amend, RunInv, RunTypes, Course, Early, Complete
  <2> QED
    BY <2>1, <2>2
<1>4. CASE GateRuns
  <2>1. gate'.approved \in BOOLEAN
    BY <1>4 DEF GateRuns, Gate, NoGate
  <2>2. UNCHANGED <<step, secret, amended, results, files, manifest, stored>>
    BY <1>4 DEF GateRuns, Gate
  <2>3. RunTypes'
    BY <2>1, <2>2 DEF RunInv, RunTypes
  <2>4. \A x \in Run : Course(x)'
    BY <2>2 DEF RunInv, Course
  <2> QED
    BY <2>3, <2>4
<1> QED
  BY <1>2, <1>3, <1>4

(* No step changes a run that was reported, but to let it end.             *)
LEMMA ReportedStays ==
  ASSUME RunInv, ReproductionNext, NEW x \in Run, Reported(x)
  PROVE  Reported(x)' /\ results'[x] = results[x]
<1> USE DEF RunInv, RunTypes, Reported, Moves
<1>1. CASE GateRuns
  BY <1>1 DEF GateRuns, Gate
<1>2. CASE \E r \in Run : Proceeds(r)
  BY <1>2 DEF Proceeds, Preregisters, Preregister, SignProtocol, Verify, WriteBundle, WriteManifest,
         WriteReport, SignReport, Record
<1>3. CASE \E r \in Run : InferFails(r) \/ Die(r)
  BY <1>3 DEF InferFails, Die, Active, Ended
<1>4. CASE \E r \in Run : \/ \E pid \in Pids, p \in Predictions : Infer(r, pid, p)
                          \/ \E input \in Inputs : Amend(r, input)
  BY <1>4 DEF Infer, Amend
<1> QED
  BY <1>1, <1>2, <1>3, <1>4 DEF ReproductionNext, Step, Preregisters, GateRuns, Proceeds

(* A report is written by a run that has all of its results.               *)
LEMMA ReportIsReported ==
  ASSUME EvaluatorsAreNamed, RunInv, ReproductionNext PROVE ReportIsWhole'
<1> SUFFICES ASSUME NEW x \in Run \ {Nothing}, files'["report"] = x PROVE Reported(x)'
  BY DEF ReportIsWhole
<1>1. "report" \in DOMAIN files
  BY DEF RunInv, RunTypes, Names, Envelopes
<1>2. CASE files'["report"] = files["report"]
  <2>1. Reported(x)
    BY <1>2 DEF RunInv, ReportIsWhole
  <2> QED
    BY <2>1, ReportedStays
<1>3. CASE \E r \in Run : WriteReport(r)
  <2> PICK r \in Run : WriteReport(r)
    BY <1>3
  <2>1. x = r /\ Course(r)
    BY <1>1 DEF WriteReport, Writes, RunInv
  <2> QED
    BY <2>1 DEF WriteReport, Moves, RunInv, RunTypes, Course, Complete, Reported
<1>4. CASE \E r \in Run, pid \in Pids, p \in Predictions : Infer(r, pid, p)
  <2> PICK r \in Run, pid \in Pids, p \in Predictions : Infer(r, pid, p)
    BY <1>4
  <2>1. Len(results[r]) \in Nat /\ Len(results[r]) < Len(Evaluators)
    BY LenProperties DEF Infer, RunInv, RunTypes
  <2>2. Len(Evaluators) \in Nat /\ DOMAIN Evaluators = 1..Len(Evaluators)
    BY LenProperties DEF EvaluatorsAreNamed
  <2>3. Len(results[r]) + 1 \in DOMAIN Evaluators
    BY <2>1, <2>2
  <2>4. Evaluators[Len(results[r]) + 1] # "report"
    BY <2>3 DEF EvaluatorsAreNamed
  <2>5. files'["report"] = files["report"]
    BY <2>4 DEF Infer, Writes
  <2> QED
    BY <1>2, <2>5
<1>5. CASE \E r \in Run : Preregisters(r) \/ SignProtocol(r) \/ WriteBundle(r) \/ SignReport(r)
  <2>1. files'["report"] = files["report"]
    BY <1>1, <1>5 DEF Preregisters, Preregister, SignProtocol, WriteBundle, SignReport, Writes
  <2> QED
    BY <2>1, <1>2
<1>6. CASE \/ \E r \in Run : \/ Verify(r) \/ WriteManifest(r) \/ Record(r) \/ InferFails(r)
                             \/ Die(r) \/ \E input \in Inputs : Amend(r, input)
           \/ GateRuns
  <2>1. files' = files
    BY <1>6 DEF Verify, WriteManifest, Record, InferFails, Die, Amend, GateRuns, Gate
  <2> QED
    BY <2>1, <1>2
<1> QED
  BY <1>3, <1>4, <1>5, <1>6 DEF ReproductionNext, Step, Preregisters, GateRuns

(* The gate approves of the report it finds.                               *)
LEMMA GateSeesReported ==
  ASSUME RunInv, ReproductionNext PROVE GateSawWhole'
<1>1. CASE GateRuns /\ gate'.approved
  <2>1. UNCHANGED <<step, amended, results>>
    BY <1>1 DEF GateRuns, Gate
  <2>2. /\ \E s \in Secrets \cup {NoSecret} : Approves(s)
        /\ gate'.report = files["report"]
    BY <1>1 DEF GateRuns, Gate, NoGate
  <2>3. files["report"] # Nothing /\ Reproduced(results[files["report"]])
    BY <2>2 DEF Approves, Present
  <2>4. files["report"] \in Run \ {Nothing}
    BY <2>3 DEF RunInv, RunTypes, Names
  <2>5. PICK r \in Run \ {Nothing} : r = files["report"]
    BY <2>4
  <2>6. Reported(r) /\ Reproduced(results[r])
    BY <2>3, <2>5 DEF RunInv, ReportIsWhole
  <2>7. Reported(r)' /\ Reproduced(results'[r])
    BY <2>1, <2>6 DEF Reported
  <2> QED
    BY <2>2, <2>5, <2>7 DEF GateSawWhole
<1>2. CASE gate' = gate /\ gate.approved
  <2>1. PICK r \in Run : gate.report = r /\ Reported(r) /\ Reproduced(results[r])
    BY <1>2 DEF RunInv, GateSawWhole
  <2>2. Reported(r)' /\ results'[r] = results[r]
    BY <2>1, ReportedStays
  <2> QED
    BY <1>2, <2>1, <2>2 DEF GateSawWhole
<1>3. GateRuns \/ gate' = gate
  BY DEF ReproductionNext, Step, GateRuns, Preregister, SignProtocol, Verify, Infer, InferFails,
         WriteBundle, WriteManifest, WriteReport, SignReport, Record, Amend, Die
<1> QED
  BY <1>1, <1>2, <1>3 DEF GateSawWhole

(* Every step preserves the invariant.                                     *)
LEMMA StepRuns == EvaluatorsAreNamed /\ RunInv /\ [ReproductionNext]_reproductionVars => RunInv'
<1> SUFFICES ASSUME EvaluatorsAreNamed, RunInv, [ReproductionNext]_reproductionVars PROVE RunInv'
  OBVIOUS
<1>1. CASE ReproductionNext
  <2>1. RunTypes' /\ (\A r \in Run : Course(r)')
    BY <1>1, ProceedsCourse, InferCourse, OthersCourse DEF ReproductionNext, Step, Preregisters, GateRuns, Proceeds
  <2> QED
    BY <1>1, <2>1, ReportIsReported, GateSeesReported DEF RunInv
<1>2. CASE UNCHANGED reproductionVars
  BY <1>2 DEF reproductionVars, RunInv, RunTypes, Course, Reported, ReportIsWhole, GateSawWhole
<1> QED
  BY <1>1, <1>2

(* The invariant holds in every reachable state.                           *)
LEMMA RunsInvariance == ASSUME EvaluatorsAreNamed PROVE ReproductionSpec => []RunInv
  BY InitRuns, StepRuns, PTL DEF ReproductionSpec

-----------------------------------------------------------------------------

(* RunTypes; the control store has the reports of the runs that ended well.   *)
THEOREM ReproductionTypeCorrect ==
  ASSUME EvaluatorsAreNamed PROVE ReproductionSpec => []ReproductionTypeOK
<1>1. RunInv => ReproductionTypeOK
  BY DEF RunInv, RunTypes, Course, ReproductionTypeOK
<1> QED
  BY <1>1, RunsInvariance, PTL

(* run_preregistered_reproduction, and what the store and the release gate *)
(* take from it: PROCESS_REPRODUCED means that every evaluator predicted   *)
(* the same, no two of them in one process, from inputs that are those of  *)
(* the preregistration.                                                    *)
THEOREM ReproducedIsAgreedOn ==
  ASSUME EvaluatorsAreNamed PROVE ReproductionSpec => []ReproducedMeansAgreement
<1>1. RunInv => ReproducedMeansAgreement
  <2> SUFFICES ASSUME RunInv PROVE ReproducedMeansAgreement
    OBVIOUS
  <2>1. ASSUME NEW r \in stored, Reproduced(results[r]) PROVE Behind(r)
    <3>1. r \in Run /\ Reported(r)
      BY DEF RunInv, RunTypes, Course, Complete, Reported
    <3> QED
      BY <2>1, <3>1, ReportedIsBehind DEF RunInv
  <2>2. gate.approved => Behind(gate.report)
    BY ReportedIsBehind DEF RunInv, GateSawWhole
  <2> QED
    BY <2>1, <2>2 DEF ReproducedMeansAgreement
<1> QED
  BY <1>1, RunsInvariance, PTL

-----------------------------------------------------------------------------
(* The directory.                                                          *)

(* While no other run is active, what a run has written so far is its own. *)
Own(r) ==
  /\ step[r] # "new"
  /\ \A x \in Run \ {r} : step[x] \in Ended \cup {"new"}
  /\ files["preregistration"] = r
  /\ (secret[r] # NoSecret /\ step[r] \notin {"preregistered", "failed"})
       => files["preregistration.signed"] = r
  /\ \A i \in 1..Len(results[r]) : files[Evaluators[i]] = r
  /\ step[r] \in Complete => files["bundle"] = r
  /\ step[r] \in Manifested => manifest.by = r
  /\ step[r] \in {"reported", "signed", "done"} => files["report"] = r
  /\ (secret[r] # NoSecret /\ step[r] \in {"signed", "done"}) => files["report.signed"] = r

DirInv == \A r \in Run : (latest.run = r /\ latest.alone) => Own(r)

(* The names of the files.                                                 *)
LEMMA FilesAreNamed ==
  ASSUME RunTypes
  PROVE  /\ {"preregistration", "preregistration.signed", "report", "report.signed", "bundle"}
              \subseteq DOMAIN files
         /\ \A i \in DOMAIN Evaluators : Evaluators[i] \in DOMAIN files
  BY DEF RunTypes, Names, Envelopes

(* A run that starts when no other is active owns what it writes.          *)
LEMMA OwnStarts ==
  ASSUME RunInv, NEW r \in Run, Preregisters(r), Active = {}
  PROVE  Own(r)'
<1> PICK s \in Secrets \cup {NoSecret} : Preregister(r, s)
  BY DEF Preregisters
<1>1. results[r] = << >> /\ results' = results
  BY DEF Preregister, Moves, RunInv, Course, Early
<1>2. /\ step' = [step EXCEPT ![r] = IF s = NoSecret THEN "ready" ELSE "preregistered"]
      /\ files' = [files EXCEPT !["preregistration"] = r] /\ step \in [Run -> Steps]
      /\ secret'[r] = s
  BY DEF Preregister, Moves, Writes, RunInv, RunTypes
<1>3. \A x \in Run : step[x] \in Ended \cup {"new"}
  BY DEF Active
<1>4. Len(results'[r]) = 0
  BY <1>1, EmptySeq
<1>5. \A i \in 1..Len(results'[r]) : files'[Evaluators[i]] = r
  BY <1>4
<1>6. files'["preregistration"] = r
  BY <1>2, FilesAreNamed DEF RunInv
<1> QED
  BY <1>2, <1>3, <1>5, <1>6 DEF Own, Complete, Manifested

(* An evaluator of the run that is alone answers: one more file is its own.*)
LEMMA OwnInfers ==
  ASSUME EvaluatorsAreNamed, RunInv, NEW r \in Run, Own(r),
         NEW pid \in Pids, NEW p \in Predictions, Infer(r, pid, p)
  PROVE  Own(r)'
<1> DEFINE n == Len(results[r])
<1> DEFINE new == [pid |-> pid, predictions |-> p]
<1>1. new \in Result
  BY DEF Result
<1> HIDE DEF new
<1>2. results[r] \in Seq(Result) /\ results'[r] = Append(results[r], new)
  BY DEF Infer, RunInv, RunTypes, new
<1>3. n \in Nat /\ Len(results'[r]) = n + 1 /\ n < Len(Evaluators) /\ Len(Evaluators) \in Nat
  BY <1>1, <1>2, AppendProperties, LenProperties DEF Infer, EvaluatorsAreNamed
<1>4. files' = [files EXCEPT ![Evaluators[n + 1]] = r] /\ UNCHANGED <<step, manifest, secret>>
      /\ step[r] = "inferring"
  BY DEF Infer, Writes
<1> HIDE DEF n
<1>5. \A name \in DOMAIN files : files'[name] = files[name] \/ files'[name] = r
  BY <1>4
<1>6. DOMAIN Evaluators = 1..Len(Evaluators)
  BY LenProperties DEF EvaluatorsAreNamed
<1>7. ASSUME NEW i \in 1..n + 1 PROVE files'[Evaluators[i]] = r
  <2>1. Evaluators[i] \in DOMAIN files
    BY <1>3, <1>6, FilesAreNamed DEF RunInv
  <2>2. i = n + 1 \/ i \in 1..n
    BY <1>3
  <2>3. i \in 1..n => files[Evaluators[i]] = r
    BY DEF Own, n
  <2> QED
    BY <1>4, <1>5, <2>1, <2>2, <2>3
<1>8. files'["preregistration"] = r
      /\ (secret[r] # NoSecret => files'["preregistration.signed"] = r)
  BY <1>4, <1>5, FilesAreNamed DEF RunInv, Own
<1> QED
  BY <1>3, <1>4, <1>7, <1>8 DEF Own, Complete, Manifested

(* So does every other step that starts no run.                            *)
LEMMA OwnStays ==
  ASSUME EvaluatorsAreNamed, RunInv, ReproductionNext, NEW r \in Run, Own(r),
         \A x \in Run : ~Preregisters(x)
  PROVE  Own(r)'
<1>1. CASE GateRuns
  BY <1>1 DEF GateRuns, Gate, Own
<1>2. ASSUME NEW x \in Run \ {r}
      PROVE  ~Step(x) /\ ~Die(x) /\ \A input \in Inputs : ~Amend(x, input)
  <2>1. step[x] \in {"new", "done", "failed"} /\ ~Preregisters(x)
    BY DEF Own, Ended
  <2> QED
    BY <2>1 DEF Step, Preregisters, SignProtocol, Verify, Infer, InferFails, WriteBundle, WriteManifest,
                WriteReport, SignReport, Record, Moves, Die, Active, Ended, Amend
<1>3. CASE \E pid \in Pids, p \in Predictions : Infer(r, pid, p)
  BY <1>3, OwnInfers
<1>4. CASE \E input \in Inputs : Amend(r, input)
  BY <1>4 DEF Amend, Own
<1>5. CASE InferFails(r) \/ Die(r)
  <2>1. step' = [step EXCEPT ![r] = "failed"] /\ step \in [Run -> Steps] /\ files' = files
      /\ secret' = secret
    BY <1>5 DEF InferFails, Die, Moves, RunInv, RunTypes
  <2>2. results'[r] = results[r] \/ results'[r] = << >>
    BY <1>5 DEF InferFails, Die, RunInv, RunTypes
  <2>3. \A i \in 1..Len(results'[r]) : files'[Evaluators[i]] = r
    BY <2>1, <2>2, EmptySeq DEF Own
  <2> QED
    BY <2>1, <2>3 DEF Own, Complete, Manifested
<1>6. CASE SignProtocol(r) \/ WriteBundle(r) \/ WriteReport(r) \/ SignReport(r)
  <2>1. PICK name \in {"preregistration.signed", "bundle", "report", "report.signed"} :
          files' = [files EXCEPT ![name] = r]
    BY <1>6 DEF SignProtocol, WriteBundle, WriteReport, SignReport, Writes
  <2>2. \A other \in DOMAIN files : files'[other] = files[other] \/ files'[other] = r
    BY <2>1
  <2>3. \A i \in 1..Len(results[r]) : files'[Evaluators[i]] = r
    <3>1. 1..Len(results[r]) \subseteq DOMAIN Evaluators
      BY LenProperties DEF RunInv, Course, RunTypes, EvaluatorsAreNamed
    <3> QED
      BY <3>1, <2>2, FilesAreNamed DEF Own, RunInv
  <2>4. step \in [Run -> Steps] /\ UNCHANGED <<results, manifest, secret>>
    BY <1>6 DEF SignProtocol, WriteBundle, WriteReport, SignReport, RunInv, RunTypes
  <2>5. files'["preregistration"] = r
    BY <2>2, FilesAreNamed DEF RunInv, Own
  <2> USE <2>2, <2>3, <2>4, <2>5, FilesAreNamed DEF RunInv, Own, Moves, Writes, Complete, Manifested
  <2>6. CASE SignProtocol(r)
    BY <2>6 DEF SignProtocol
  <2>7. CASE WriteBundle(r)
    BY <2>7 DEF WriteBundle
  <2>8. CASE WriteReport(r)
    BY <2>8 DEF WriteReport
  <2>9. CASE SignReport(r)
    BY <2>9 DEF SignReport
  <2> QED
    BY <1>6, <2>6, <2>7, <2>8, <2>9
<1>7. CASE Verify(r) \/ Record(r) \/ WriteManifest(r)
  <2>1. step \in [Run -> Steps]
    BY DEF RunInv, RunTypes
  <2>2. CASE Verify(r) \/ Record(r)
    BY <2>1, <2>2 DEF Verify, Record, Moves, Own, Complete, Manifested
  <2>3. CASE WriteManifest(r)
    <3>1. manifest'.by = r /\ UNCHANGED <<files, results, secret>>
      BY <2>3 DEF WriteManifest
    <3> QED
      BY <2>1, <2>3, <3>1 DEF WriteManifest, Moves, Own, Complete, Manifested
  <2> QED
    BY <1>7, <2>2, <2>3
<1> QED
  BY <1>1, <1>2, <1>3, <1>4, <1>5, <1>6, <1>7 DEF ReproductionNext, Step, Preregisters, GateRuns

(* Every step preserves what is known of the directory.                    *)
LEMMA DirStep == EvaluatorsAreNamed /\ RunInv /\ DirInv /\ [ReproductionNext]_reproductionVars => DirInv'
<1> SUFFICES ASSUME EvaluatorsAreNamed, RunInv, DirInv, [ReproductionNext]_reproductionVars PROVE DirInv'
  OBVIOUS
<1>1. CASE UNCHANGED reproductionVars
  BY <1>1 DEF reproductionVars, DirInv, Own
<1>2. CASE ReproductionNext
  <2>1. ASSUME NEW r \in Run, latest'.run = r, latest'.alone PROVE Own(r)'
    <3>1. CASE \E x \in Run : Preregisters(x)
      <4> PICK x \in Run : Preregisters(x)
        BY <3>1
      <4>1. latest'.run = x /\ latest'.alone = (Active = {})
        BY DEF Preregisters, Preregister
      <4> QED
        BY <2>1, <4>1, OwnStarts
    <3>2. CASE \A x \in Run : ~Preregisters(x)
      <4>1. latest' = latest
        BY <1>2, <3>2 DEF ReproductionNext, Step, Preregisters, SignProtocol, Verify, Infer, InferFails, WriteBundle,
                 WriteManifest, WriteReport, SignReport, Record, Amend, Die, GateRuns, Gate
      <4>2. Own(r)
        BY <2>1, <4>1 DEF DirInv
      <4> QED
        BY <1>2, <3>2, <4>2, OwnStays DEF DirInv
    <3> QED
      BY <3>1, <3>2
  <2> QED
    BY <2>1 DEF DirInv
<1> QED
  BY <1>1, <1>2

(* Whatever earlier runs left behind, done or broken off: a run that ended *)
(* well and met no other has a directory, and a manifest, of its own, but  *)
(* for the envelopes of an earlier run when it was given no secret.        *)
THEOREM DirectoryIsItsOwn ==
  ASSUME EvaluatorsAreNamed, Nothing \notin Run PROVE ReproductionSpec => []NothingLeftBehind
<1>1. ReproductionInit => DirInv
  BY DEF ReproductionInit, DirInv, Names
<1>2. RunInv /\ DirInv => NothingLeftBehind
  <2> SUFFICES ASSUME RunInv, DirInv, NEW r \in Run, latest.run = r, latest.alone,
                      step[r] = "done"
               PROVE  /\ \A n \in Names \ Envelopes : files[n] = r
                      /\ secret[r] # NoSecret => \A n \in Envelopes : files[n] = r
                      /\ manifest.by = r
    BY DEF NothingLeftBehind
  <2>1. Own(r)
    BY DEF DirInv
  <2>2. Len(results[r]) = Len(Evaluators) /\ DOMAIN Evaluators = 1..Len(Evaluators)
    BY LenProperties DEF RunInv, Course, Complete, EvaluatorsAreNamed
  <2>3. \A i \in DOMAIN Evaluators : files[Evaluators[i]] = r
    BY <2>1, <2>2 DEF Own
  <2>4. secret[r] # NoSecret =>
          files["preregistration.signed"] = r /\ files["report.signed"] = r
    BY <2>1 DEF Own
  <2> QED
    BY <2>1, <2>3, <2>4 DEF Own, Complete, Manifested, Names, Envelopes
<1> QED
  BY <1>1, <1>2, RunsInvariance, DirStep, PTL DEF ReproductionSpec

(* What is reported, stored and let through the release gate as reproduced *)
(* is what it says it is.                                                  *)
THEOREM ReproductionStaysGenuine ==
  ASSUME EvaluatorsAreNamed, Nothing \notin Run PROVE ReproductionSpec => []ReproductionIsGenuine
<1>1. ReproductionTypeOK /\ ReproducedMeansAgreement /\ NothingLeftBehind => ReproductionIsGenuine
  BY DEF ReproductionIsGenuine
<1> QED
  BY <1>1, ReproductionTypeCorrect, ReproducedIsAgreedOn, DirectoryIsItsOwn, PTL

=============================================================================
