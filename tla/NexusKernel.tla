------------------------------- MODULE NexusKernel -------------------------------
(***************************************************************************)
(* The NEXUS kernel as a service (kernel/core.py, environment.py): the     *)
(* environment of declarations, and what the kernel answers beside them.   *)
(* An exception leaves no trace.                                           *)
(***************************************************************************)
EXTENDS KernelCalculus

CONSTANTS
  Name,           \* the names of declarations
  Types,          \* the types that are declared and proved
  Values,         \* the values of definitions and the proofs
  Questions,      \* the terms that a type is inferred for
  Contexts,       \* the contexts that they are taken in
  MaxDeclarations \* bound: declarations

ASSUME BoundAssumption == MaxDeclarations \in Nat

VARIABLES
  environment,   \* the declarations, in their order
  verdict        \* the answer of infer or verify that the caller holds

vars == <<environment, verdict>>

-----------------------------------------------------------------------------
(* Operations.                                                             *)

NoVerdict == [kind |-> "none"]

Init == environment = << >> /\ verdict = NoVerdict

(* Fault: a name is declared again.                                        *)
DeclareAgain(declaration) ==
  /\ environment' = Append(environment, declaration)
  /\ UNCHANGED verdict

Declare(declaration) ==
  /\ declaration.name \notin Names(environment)
  /\ environment' = Append(environment, declaration)
  /\ UNCHANGED verdict

DeclareAxiom(name, type) ==
  /\ IsType(environment, type, << >>)
  /\ Declare([name |-> name, type |-> type, value |-> Bad, opaque |-> FALSE])

(* Fault: a definition is installed before its value is checked.           *)
DeclareRecursive(name, type, value, opaque) ==
  LET declaration == [name |-> name, type |-> type, value |-> value, opaque |-> opaque]
  IN  /\ IsType(environment, type, << >>)
      /\ Checks(Append(environment, [declaration EXCEPT !.opaque = TRUE]), value, type, << >>)
      /\ Declare(declaration)

DeclareDefinition(name, type, value, opaque) ==
  /\ IsType(environment, type, << >>)
  /\ Checks(environment, value, type, << >>)
  /\ Declare([name |-> name, type |-> type, value |-> value, opaque |-> opaque])

Ask(t, context) ==
  LET type == IF Guarded(t) THEN Infer(environment, t, context) ELSE Bad
  IN  /\ verdict = NoVerdict
      /\ type # Bad
      /\ verdict' = [kind |-> "type", term |-> t, context |-> context, type |-> type]
      /\ UNCHANGED environment

VerifyTerm(proof, theorem) ==
  /\ verdict = NoVerdict
  /\ IsType(environment, theorem, << >>)
  /\ Checks(environment, proof, theorem, << >>)
  /\ verdict' = [kind |-> "proof", term |-> proof, context |-> << >>, type |-> theorem,
                 axioms |-> Axioms(environment)]
  /\ UNCHANGED environment

(* The caller has used the answer; until then it may declare more.         *)
Used ==
  /\ verdict # NoVerdict
  /\ verdict' = NoVerdict
  /\ UNCHANGED environment

Next ==
  \/ /\ Len(environment) < MaxDeclarations
     /\ \/ \E name \in Name, type \in Types : DeclareAxiom(name, type)
        \/ \E name \in Name, type \in Types, value \in Values, opaque \in BOOLEAN :
             DeclareDefinition(name, type, value, opaque)
  \/ \E t \in Questions, context \in Contexts : Ask(t, context)
  \/ \E proof \in Values, theorem \in Types : VerifyTerm(proof, theorem)
  \/ Used

Spec == Init /\ [][Next]_vars

-----------------------------------------------------------------------------
(* Properties.                                                             *)

(* Types; a name is declared once.                                         *)
TypeOK ==
  /\ \A i, j \in DOMAIN environment :
       environment[i].name = environment[j].name => i = j
  /\ verdict.kind \in {"none", "type", "proof"}

(* Reduction preserves types: the weak head normal form and the normal form*)
(* of an accepted term are accepted with a type that is convertible.       *)
ReductionPreservesTypes ==
  verdict # NoVerdict =>
    /\ HasType(environment, Whnf(environment, verdict.term), verdict.type, verdict.context)
    /\ HasType(environment, Normalize(environment, verdict.term), verdict.type, verdict.context)

(* What the kernel infers is a type itself, unless it mentions the last    *)
(* universe, which has no type.                                            *)
RECURSIVE MentionsTop(_)
MentionsTop(t) == t = Sort(MaxUniverse) \/ \E i \in DOMAIN t.args : MentionsTop(t.args[i])

InferredIsType ==
  verdict.kind = "type" =>
    IsType(environment, verdict.type, verdict.context) \/ MentionsTop(verdict.type)

(* Without axioms nothing proves the empty type, whatever was defined.     *)
Consistent ==
  \A i \in DOMAIN environment :
    Convertible(environment, environment[i].type, EMPTY) => Axioms(environment) # {}

(* A proof that verify reports without axioms is no proof of the empty     *)
(* type, through any redex, elimination or definition.                     *)
ProofsAreConsistent ==
  (verdict.kind = "proof" /\ verdict.axioms = {}) =>
    ~Convertible(environment, verdict.type, EMPTY)

(* "Definitions are checked before being installed": each of them stands by*)
(* the declarations before it, and by all that are there now.              *)
DefinitionsStand ==
  \A i \in DOMAIN environment :
    LET d == environment[i]
    IN  ~IsAxiom(d) => /\ Checks(SubSeq(environment, 1, i - 1), d.value, d.type, << >>)
                       /\ Checks(environment, d.value, d.type, << >>)

(* An opaque definition says no more than an axiom of its type: what is    *)
(* proved beside it would be proved beside the axiom.                      *)
Abstracted == [i \in DOMAIN environment |->
                 IF environment[i].opaque THEN [environment[i] EXCEPT !.value = Bad]
                 ELSE environment[i]]

OpaqueHidesItsValue ==
  verdict.kind = "proof" => Checks(Abstracted, verdict.term, verdict.type, << >>)

(* What the kernel accepts is right: nothing proves the empty type without *)
(* axioms, definitions stand and opaque values stay hidden.                *)
KernelIsSound ==
  TypeOK /\ Consistent /\ ProofsAreConsistent /\ DefinitionsStand /\ OpaqueHidesItsValue

(* What it infers is a type, and remains the type of what it reduces to.   *)
TypesArePreserved == InferredIsType /\ ReductionPreservesTypes

=============================================================================
