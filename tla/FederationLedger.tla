---------------------------- MODULE FederationLedger ----------------------------
(***************************************************************************)
(* The signed evidence ledger (federation/ledger.py): actors of several    *)
(* organizations submit evidence on obligations, and a policy is evaluated *)
(* on what is on file.  Submissions are objects that their owners keep a   *)
(* reference to and may alter in every field, back again or for good, sign *)
(* anew, and submit anew under an id that is on file; an actor's flag may  *)
(* be cleared and set.  evaluate verifies again what it reads by then.     *)
(*                                                                         *)
(* What a submission says is a statement, and its signature is the one that*)
(* was signed: the HMAC is their equality.  An erased signature is to the  *)
(* ledger what an altered summary is.  Keys, and what an actor is          *)
(* registered with but for its flag, stay as they are.                     *)
(***************************************************************************)
EXTENDS Naturals, FiniteSets, FiniteSetsExt

CONSTANTS
  Actor, Obligation, Group, Dependency,
  Identity,        \* Identity[a], the FederationActor registered as a
  Statement,       \* what a submission may say
  Offer,           \* the statements that actors submit
  SubmissionId,    \* the submission_ids
  Unfiled,         \* an id that no submission on file has
  Policies,        \* the policies that are evaluated
  NoGroup,         \* a submission's provenance_group left empty
  AnyScope         \* the authority scope "*"

Verdicts == {"SUPPORTS", "REFUTES", "INCONCLUSIVE"}

Roles == {"CONTRIBUTOR", "REVIEWER", "VERIFIER", "SECURITY", "COMPLIANCE",
          "RELEASE_MANAGER", "OWNER"}

Statuses == {"APPROVED", "BLOCKED", "CONFLICT", "INSUFFICIENT_QUORUM", "MISSING_DEPENDENCY"}

ASSUME ActorAssumption ==
  \A a \in Actor : /\ Identity[a].weight \in Nat
                   /\ Identity[a].roles \subseteq Roles

ASSUME StatementAssumption ==
  /\ Offer \subseteq Statement
  /\ \A s \in Statement : /\ s.actor \in Actor /\ s.verdict \in Verdicts
                          /\ s.group \in Group \cup {NoGroup}
  /\ Unfiled \notin SubmissionId

ASSUME PolicyAssumption ==
  \A p \in Policies :
    /\ {p.organizations, p.weight, p.groups} \subseteq Nat
    /\ p.roles \subseteq Roles /\ p.vetoes \subseteq Roles
    /\ p.inconclusive \in BOOLEAN /\ p.noConflicts \in BOOLEAN
    /\ p.dependencies \subseteq Dependency

VARIABLES
  actors,       \* the registered actors
  active,       \* those whose active flag is set
  file,         \* the submissions on file: their ids, what they say, their signatures
  satisfied,    \* the dependencies marked as satisfied
  decisions     \* decisions[o], the latest decision on o, or NoDecision

vars == <<actors, active, file, satisfied, decisions>>

NoDecision == [status |-> "NONE"]

Init ==
  /\ actors = {} /\ active = {}
  /\ file = {} /\ satisfied = {}
  /\ decisions = [o \in Obligation |-> NoDecision]

-----------------------------------------------------------------------------
(* Verification.                                                           *)

(* Fault: what was signed is not compared with what is said.               *)
VerifiesUnsigned(e) ==
  /\ e.says.actor \in active
  /\ e.says.organization = Identity[e.says.actor].organization
  /\ e.says.group # NoGroup
  /\ {e.says.scope, AnyScope} \cap Identity[e.says.actor].scopes # {}

Verifies(e) ==
  /\ e.says.actor \in active
  /\ e.signature = e.says
  /\ e.says.organization = Identity[e.says.actor].organization
  /\ e.says.group # NoGroup
  /\ {e.says.scope, AnyScope} \cap Identity[e.says.actor].scopes # {}

EvidenceFor(on, o) == {e \in on : e.says.obligation = o}

Valid(on, o, verdict) ==
  {e \in EvidenceFor(on, o) : Verifies(e) /\ e.says.verdict = verdict}

InvalidReasons(on, o) == {e \in EvidenceFor(on, o) : ~Verifies(e)}

-----------------------------------------------------------------------------
(* The decision on a set of submissions, as a sequence of early returns.   *)

Organizations(evidence) == {e.says.organization : e \in evidence}

Groups(evidence) == {e.says.group : e \in evidence}

RolesPresent(evidence) == UNION {Identity[e.says.actor].roles : e \in evidence}

(* The weight of an actor counts once per submission.                      *)
TotalWeight(evidence) == MapThenSumSet(LAMBDA e : Identity[e.says.actor].weight, evidence)

(* Faults: submissions are counted, not the groups they come from; what no *)
(* longer verifies is passed over; the weight is compared for equality.    *)
QuorumOfSubmissions(on, o, p) ==
  LET supporting == Valid(on, o, "SUPPORTS")
  IN  /\ InvalidReasons(on, o) = {} /\ Valid(on, o, "REFUTES") = {}
      /\ Cardinality(Organizations(supporting)) >= p.organizations
      /\ Cardinality(supporting) >= p.groups
      /\ TotalWeight(supporting) >= p.weight

QuorumOfValid(on, o, p) ==
  LET supporting == Valid(on, o, "SUPPORTS")
  IN  /\ Valid(on, o, "REFUTES") = {}
      /\ Cardinality(Organizations(supporting)) >= p.organizations
      /\ Cardinality(Groups(supporting)) >= p.groups
      /\ TotalWeight(supporting) >= p.weight
      /\ p.roles \subseteq RolesPresent(supporting)

QuorumOfExactWeight(on, o, p) ==
  LET supporting == Valid(on, o, "SUPPORTS")
  IN  /\ InvalidReasons(on, o) = {} /\ Valid(on, o, "REFUTES") = {}
      /\ Cardinality(Organizations(supporting)) >= p.organizations
      /\ Cardinality(Groups(supporting)) >= p.groups
      /\ TotalWeight(supporting) = p.weight

(* No reason is left: the quorum is met in every dimension, and nothing    *)
(* that was submitted on o fails its verification.                         *)
Quorum(on, o, p) ==
  LET supporting == Valid(on, o, "SUPPORTS")
  IN  /\ InvalidReasons(on, o) = {}
      /\ Valid(on, o, "REFUTES") = {}
      /\ Cardinality(Organizations(supporting)) >= p.organizations
      /\ Cardinality(Groups(supporting)) >= p.groups
      /\ TotalWeight(supporting) >= p.weight
      /\ p.roles \subseteq RolesPresent(supporting)
      /\ Valid(on, o, "INCONCLUSIVE") = {} \/ p.inconclusive

Conflicting(on, o) == Valid(on, o, "SUPPORTS") # {} /\ Valid(on, o, "REFUTES") # {}

Vetoes(on, o, p) ==
  {e \in Valid(on, o, "REFUTES") : Identity[e.says.actor].roles \cap p.vetoes # {}}

Status(on, o, p) ==
  IF ~(p.dependencies \subseteq satisfied) THEN "MISSING_DEPENDENCY"
  ELSE IF Conflicting(on, o) /\ p.noConflicts THEN "CONFLICT"
  ELSE IF Vetoes(on, o, p) # {} THEN "BLOCKED"
  ELSE IF Quorum(on, o, p) THEN "APPROVED"
  ELSE "INSUFFICIENT_QUORUM"

(* What its supporters had signed stands for the ids, the organizations and*)
(* the groups that an approval lists; those of other decisions are left out*)
Decision(o, p) ==
  IF Status(file, o, p) = "APPROVED"
  THEN [status |-> "APPROVED", policy |-> p,
        supporting |-> {e.signature : e \in Valid(file, o, "SUPPORTS")}]
  ELSE [status |-> Status(file, o, p)]

-----------------------------------------------------------------------------
(* Operations.                                                             *)

RegisterActor(a, isActive) ==
  /\ a \notin actors /\ Identity[a].weight > 0
  /\ actors' = actors \cup {a}
  /\ active' = IF isActive THEN active \cup {a} ELSE active
  /\ UNCHANGED <<file, satisfied, decisions>>

(* The owner of the FederationActor sets or clears its flag.               *)
SetActive(a, isActive) ==
  /\ a \in actors
  /\ active' = IF isActive THEN active \cup {a} ELSE active \ {a}
  /\ UNCHANGED <<actors, file, satisfied, decisions>>

MarkDependency(d, isSatisfied) ==
  /\ satisfied' = IF isSatisfied THEN satisfied \cup {d} ELSE satisfied \ {d}
  /\ UNCHANGED <<actors, active, file, decisions>>

(* The submission of that id is the one given; what had the id is gone.    *)
Filed(e) == {f \in file : f.id # e.id} \cup {e}

(* sign_submission raises for an actor that may not sign.                  *)
MaySign(s) == s.actor \in active /\ s.organization = Identity[s.actor].organization

Signed(id, s) == [id |-> id, says |-> s, signature |-> s]

(* Fault: an actor's submission takes the place of its earlier ones.       *)
SubmitReplacing(id, s) ==
  /\ MaySign(s) /\ Verifies(Signed(id, s))
  /\ file' = {f \in Filed(Signed(id, s)) : f.says.actor = s.actor => f.id = id}
  /\ UNCHANGED <<actors, active, satisfied, decisions>>

(* A submission is signed, unless it was before, and verified; both raise  *)
(* without a trace.                                                        *)
Submit(id, s) ==
  /\ MaySign(s) /\ Verifies(Signed(id, s))
  /\ file' = Filed(Signed(id, s))
  /\ UNCHANGED <<actors, active, satisfied, decisions>>

(* The owner of a submission alters what it says; the signature stays.     *)
Alter(e, s) ==
  /\ file' = Filed([e EXCEPT !.says = s])
  /\ UNCHANGED <<actors, active, satisfied, decisions>>

(* sign_submission of one that is on file.                                 *)
Sign(e) ==
  /\ MaySign(e.says)
  /\ file' = Filed(Signed(e.id, e.says))
  /\ UNCHANGED <<actors, active, satisfied, decisions>>

Evaluate(o, p) ==
  /\ decisions' = [decisions EXCEPT ![o] = Decision(o, p)]
  /\ UNCHANGED <<actors, active, file, satisfied>>

Next ==
  \/ \E a \in Actor, isActive \in BOOLEAN : RegisterActor(a, isActive) \/ SetActive(a, isActive)
  \/ \E d \in Dependency, isSatisfied \in BOOLEAN : MarkDependency(d, isSatisfied)
  \/ \E id \in SubmissionId, s \in Offer : Submit(id, s)
  \/ \E e \in file, s \in Statement : Alter(e, s)
  \/ \E e \in file : Sign(e)
  \/ \E o \in Obligation, p \in Policies : Evaluate(o, p)

Spec == Init /\ [][Next]_vars

-----------------------------------------------------------------------------
(* Properties.                                                             *)

IsSubmission(e) ==
  /\ e = [id |-> e.id, says |-> e.says, signature |-> e.signature]
  /\ e.id \in SubmissionId /\ e.says \in Statement /\ e.signature \in Statement

(* Types; each submission has an id of its own, and whatever it says by    *)
(* now, an actor that is registered signed for its own organization.       *)
TypeOK ==
  /\ actors \subseteq Actor /\ active \subseteq actors
  /\ \A e \in file :
       /\ IsSubmission(e)
       /\ e.signature.actor \in actors
       /\ e.signature.organization = Identity[e.signature.actor].organization
  /\ \A e, f \in file : e.id = f.id => e = f
  /\ satisfied \subseteq Dependency
  /\ \A o \in Obligation :
       /\ decisions[o] = NoDecision \/ decisions[o].status \in Statuses
       /\ decisions[o].status = "APPROVED" => decisions[o].policy \in Policies

(* An approval rests on signatures: registered actors of as many           *)
(* organizations and provenance groups as the policy asked for, and with   *)
(* its roles, each signed support of this obligation, in the group it was  *)
(* counted for; nothing is approved by what a submission was altered to.   *)
Backed(o, p, signatures) ==
  /\ \A s \in signatures : s.actor \in actors /\ s.obligation = o /\ s.verdict = "SUPPORTS"
  /\ Cardinality({Identity[s.actor].organization : s \in signatures}) >= p.organizations
  /\ Cardinality({s.group : s \in signatures}) >= p.groups
  /\ p.roles \subseteq UNION {Identity[s.actor].roles : s \in signatures}

ApprovalIsBacked ==
  \A o \in Obligation :
    decisions[o].status = "APPROVED" => Backed(o, decisions[o].policy, decisions[o].supporting)

(* The decisions of the ledger rest on what was signed.                    *)
DecisionsAreBacked == TypeOK /\ ApprovalIsBacked

(* "The runtime does not average contradictory evidence": while what was   *)
(* signed as a refutation is on file for o, no evaluation approves o, under*)
(* no policy, not even after its author was deactivated or the submission  *)
(* altered in what it says of o; and it leaves the file for o by nothing   *)
(* but what is done to that very submission.                               *)
Objecting(o) == {e \in EvidenceFor(file, o) : e.signature.verdict = "REFUTES"}

ObjectionStands ==
  \A o \in Obligation : \A e \in Objecting(o) :
    /\ decisions'[o] = decisions[o] \/ decisions'[o].status # "APPROVED"
    /\ e \in file' \/ \E f \in file' \ file : f.id = e.id

ObjectionsStand == [][ObjectionStands]_vars

(* Evidence in favour never costs an approval: what would be approved now  *)
(* would be approved after any further support that submit accepts.        *)
SupportIsMonotone ==
  \A o \in Obligation, p \in Policies :
    Status(file, o, p) = "APPROVED" =>
      \A s \in Offer :
        s.obligation = o /\ s.verdict = "SUPPORTS" /\ Verifies(Signed(Unfiled, s)) =>
          Status(file \cup {Signed(Unfiled, s)}, o, p) = "APPROVED"

(* docs/FEDERATED_EVIDENCE.md:48: "A refutation by a veto-authorized actor *)
(* produces BLOCKED even when ordinary quorum is otherwise met".           *)
Supported(o, p) == Quorum({e \in file : e.says.verdict # "REFUTES"}, o, p)

VetoBlocks ==
  [][\A o \in Obligation, p \in Policies :
       Evaluate(o, p) /\ Supported(o, p) /\ Vetoes(file, o, p) # {}
         => decisions'[o].status = "BLOCKED"]_vars

=============================================================================
