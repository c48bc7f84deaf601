----------------------------- MODULE KernelCalculus -----------------------------
(***************************************************************************)
(* The calculus of the NEXUS kernel (kernel/ast.py, ops.py, core.py): the  *)
(* terms, their reduction, and the types that the kernel infers for them.  *)
(*                                                                         *)
(* All terms have one shape, a constructor with a label (the level of a    *)
(* Sort, the index of a Var, the name of a Const) and subterms, so that an *)
(* operation is defined once, with what each constructor binds.  An        *)
(* exception of the kernel is the type Bad.  The count of reductions is    *)
(* left out: what the kernel reduces has been given a type, and ends.      *)
(***************************************************************************)
EXTENDS Integers, Sequences, FiniteSets, FiniteSetsExt

CONSTANTS MaxNodes, MaxDepth, MaxUniverse    \* KernelLimits

ASSUME LimitAssumption == {MaxNodes, MaxDepth, MaxUniverse} \subseteq Nat

-----------------------------------------------------------------------------
(* Terms.                                                                  *)

Node(op, label, args) == [op |-> op, label |-> label, args |-> args]

Leaf(op, label) == Node(op, label, << >>)

Sort(level) == Leaf("Sort", level)
Var(index)  == Leaf("Var", index)
Const(name) == Leaf("Const", name)

PROP  == Sort(0)
EMPTY == Leaf("Empty", 0)
Bad   == Leaf("Bad", 0)

Pi(domain, codomain)      == Node("Pi", 0, <<domain, codomain>>)
Lam(domain, body)         == Node("Lam", 0, <<domain, body>>)
App(function, argument)   == Node("App", 0, <<function, argument>>)
Let(annotation, value, body) == Node("Let", 0, <<annotation, value, body>>)
SumType(left, right)      == Node("Sum", 0, <<left, right>>)
Inl(value, rightType)     == Node("Inl", 0, <<value, rightType>>)
Inr(leftType, value)      == Node("Inr", 0, <<leftType, value>>)
Match(scrutinee, left, right, resultType) ==
  Node("Case", 0, <<scrutinee, left, right, resultType>>)
EmptyElim(proof, resultType) == Node("EmptyElim", 0, <<proof, resultType>>)

(* How many variables a constructor binds in its i-th subterm.             *)
Binds(op, i) == IF <<op, i>> \in {<<"Pi", 2>>, <<"Lam", 2>>, <<"Let", 3>>} THEN 1 ELSE 0

RECURSIVE Shift(_, _, _)
Shift(t, delta, cutoff) ==
  IF t.op = "Var" THEN Var(IF t.label >= cutoff THEN t.label + delta ELSE t.label)
  ELSE [t EXCEPT !.args = [i \in DOMAIN @ |-> Shift(@[i], delta, cutoff + Binds(t.op, i))]]

(* Fault: what is put under binders is not shifted.                        *)
RECURSIVE SubstituteCapturing(_, _, _, _)
SubstituteCapturing(t, index, replacement, depth) ==
  IF t.op = "Var" THEN IF t.label = index + depth THEN replacement ELSE t
  ELSE [t EXCEPT !.args = [i \in DOMAIN @ |->
          SubstituteCapturing(@[i], index, replacement, depth + Binds(t.op, i))]]

RECURSIVE Substitute(_, _, _, _)
Substitute(t, index, replacement, depth) ==
  IF t.op = "Var"
  THEN IF t.label = index + depth THEN Shift(replacement, depth, 0) ELSE t
  ELSE [t EXCEPT !.args = [i \in DOMAIN @ |->
          Substitute(@[i], index, replacement, depth + Binds(t.op, i))]]

SubstituteTop(replacement, body) == Shift(Substitute(body, 0, Shift(replacement, 1, 0), 0), -1, 0)

RECURSIVE NodeCount(_)
NodeCount(t) == 1 + MapThenSumSet(LAMBDA i : NodeCount(t.args[i]), DOMAIN t.args)

RECURSIVE Depth(_)
Depth(t) == 1 + Max({0} \cup {Depth(t.args[i]) : i \in DOMAIN t.args})

Guarded(t) == NodeCount(t) <= MaxNodes /\ Depth(t) <= MaxDepth

-----------------------------------------------------------------------------
(* Reduction in an environment.  A name that is not declared raises; here  *)
(* it stays, and no term with it has a type.                               *)

Names(env) == {env[i].name : i \in DOMAIN env}

Lookup(env, name) == env[CHOOSE i \in DOMAIN env : env[i].name = name]

IsAxiom(declaration) == declaration.value = Bad

Axioms(env) == {env[i].name : i \in {j \in DOMAIN env : IsAxiom(env[j])}}

(* Fault: opaque definitions are unfolded as well.                         *)
UnfoldsOpaque(env, name) == name \in Names(env) /\ ~IsAxiom(Lookup(env, name))

Unfolds(env, name) ==
  name \in Names(env) /\ ~IsAxiom(Lookup(env, name)) /\ ~Lookup(env, name).opaque

(* A definition is unfolded, and a redex of beta, of zeta or of a case is  *)
(* contracted; head is the head normal form of what an App or a Case       *)
(* eliminates.                                                             *)
Reduces(env, t, head) ==
  \/ t.op = "Const" /\ Unfolds(env, t.label)
  \/ t.op = "Let"
  \/ t.op = "App" /\ head.op = "Lam"
  \/ t.op = "Case" /\ head.op \in {"Inl", "Inr"}

Reduct(env, t, head) ==
  CASE t.op = "Const" -> Lookup(env, t.label).value
    [] t.op \in {"Let", "App"} ->
         SubstituteTop(t.args[2], IF t.op = "Let" THEN t.args[3] ELSE head.args[2])
    [] t.op = "Case" -> IF head.op = "Inl" THEN App(t.args[2], head.args[1])
                        ELSE App(t.args[3], head.args[2])

(* Weak head normal form.                                                  *)
RECURSIVE Whnf(_, _)
Whnf(env, t) ==
  LET head == IF t.op \in {"App", "Case"} THEN Whnf(env, t.args[1]) ELSE Bad
  IN  IF Reduces(env, t, head) THEN Whnf(env, Reduct(env, t, head))
      ELSE IF head # Bad THEN [t EXCEPT !.args[1] = head]
      ELSE t

RECURSIVE Normalize(_, _)
Normalize(env, t) ==
  LET head == Whnf(env, t)
  IN  [head EXCEPT !.args = [i \in DOMAIN @ |-> Normalize(env, @[i])]]

Convertible(env, s, t) == Normalize(env, s) = Normalize(env, t)

-----------------------------------------------------------------------------
(* Types.  A context has the types of the variables, the innermost first.  *)
(* A rule has premises of three sorts: what has to be a type, what a type  *)
(* is inferred for, and what is checked against a type.                    *)

RECURSIVE Infer(_, _, _)

LevelOf(head) == IF head.op = "Sort" /\ head.label <= MaxUniverse THEN head.label ELSE -1

Level(env, t, context) == LevelOf(Whnf(env, Infer(env, t, context)))

IsType(env, t, context) == Level(env, t, context) >= 0

(* Bad is convertible with no term.                                        *)
HasType(env, t, type, context) == Convertible(env, Infer(env, t, context), type)

Checks(env, t, expected, context) ==
  Guarded(t) /\ Guarded(expected) /\ HasType(env, t, expected, context)

(* The subterms that have to be types.                                     *)
TypesIn(op) ==
  CASE op \in {"Pi", "Sum"}         -> {1, 2}
    [] op \in {"Lam", "Let", "Inr"} -> {1}
    [] op \in {"Inl", "EmptyElim"}  -> {2}
    [] op = "Case"                  -> {4}
    [] OTHER                        -> {}

(* The subterm that a type is inferred for, 0 if there is none.            *)
Subject(op) ==
  CASE op \in {"App", "Inl", "Case"} -> 1
    [] op \in {"Lam", "Inr"}         -> 2
    [] op = "Let"                    -> 3
    [] OTHER                         -> 0

(* What an eliminator needs the type of its subject to be.                 *)
Eliminates(op, type) == (op = "App" => type.op = "Pi") /\ (op = "Case" => type.op = "Sum")

(* Faults: the proof that is eliminated is not checked; the branches of a  *)
(* case are not.                                                           *)
DemandsNoProof(t, type) ==
  CASE t.op = "App"  -> {<<2, type.args[1]>>}
    [] t.op = "Let"  -> {<<2, t.args[1]>>}
    [] t.op = "Case" -> {<<i, Pi(type.args[i - 1], Shift(t.args[4], 1, 0))>> : i \in {2, 3}}
    [] OTHER         -> {}

DemandsNoBranch(t, type) ==
  CASE t.op = "App" -> {<<2, type.args[1]>>}
    [] t.op = "Let" -> {<<2, t.args[1]>>}
    [] t.op = "EmptyElim" -> {<<1, EMPTY>>}
    [] OTHER        -> {}

(* The subterms that are checked, with the types they must have.           *)
Demands(t, type) ==
  CASE t.op = "App"  -> {<<2, type.args[1]>>}
    [] t.op = "Let"  -> {<<2, t.args[1]>>}
    [] t.op = "Case" -> {<<i, Pi(type.args[i - 1], Shift(t.args[4], 1, 0))>> : i \in {2, 3}}
    [] t.op = "EmptyElim" -> {<<1, EMPTY>>}
    [] OTHER         -> {}

Conclusion(t, levels, type) ==
  CASE t.op \in {"Pi", "Sum"}   -> Sort(Max(levels))
    [] t.op = "Lam"             -> Pi(t.args[1], type)
    [] t.op \in {"App", "Let"}  -> SubstituteTop(t.args[2], IF t.op = "App" THEN type.args[2] ELSE type)
    [] t.op = "Inl"             -> SumType(type, t.args[2])
    [] t.op = "Inr"             -> SumType(t.args[1], type)
    [] t.op = "Case"            -> t.args[4]
    [] t.op = "EmptyElim"       -> t.args[2]

(* type is that of the subject, in head normal form when it is eliminated. *)
InferByPremises(env, t, levels, type, context) ==
  IF /\ -1 \notin levels /\ type # Bad /\ Eliminates(t.op, type)
     /\ \A demand \in Demands(t, type) : Checks(env, t.args[demand[1]], demand[2], context)
  THEN Conclusion(t, levels, type) ELSE Bad

(* The value of a local definition is not known in its body.               *)
Infer(env, t, context) ==
  LET inner(i) == IF Binds(t.op, i) = 1 THEN <<t.args[1]>> \o context ELSE context
      type(i)  == Infer(env, t.args[i], inner(i))
  IN CASE t.op = "Sort"  -> IF t.label < MaxUniverse THEN Sort(t.label + 1) ELSE Bad
       [] t.op = "Var"   -> IF t.label < Len(context)
                            THEN Shift(context[t.label + 1], t.label + 1, 0) ELSE Bad
       [] t.op = "Const" -> IF t.label \in Names(env) THEN Lookup(env, t.label).type ELSE Bad
       [] t.op = "Empty" -> Sort(0)
       [] OTHER ->
            InferByPremises(env, t, {Level(env, t.args[i], inner(i)) : i \in TypesIn(t.op)},
              CASE Subject(t.op) = 0       -> EMPTY
                [] t.op \in {"App", "Case"} -> Whnf(env, type(1))
                [] OTHER                   -> type(Subject(t.op)), context)

=============================================================================
