------------------------ MODULE AccountableObligations ------------------------
(***************************************************************************)
(* What the obligation graph promises, with no graph in it: the law of     *)
(* README.md, "an unresolved obligation may be discharged with evidence,   *)
(* transformed with an explicit transport relation, deferred ..., refuted  *)
(* with counterevidence, or escalated - but never silently erased".        *)
(*                                                                         *)
(* Every obligation has a fate.  There is no step to "absent" and no fate  *)
(* for an obligation that was settled without its support, so both are     *)
(* excluded for any system that implements this specification.             *)
(***************************************************************************)
EXTENDS Naturals

CONSTANT Id      \* the identities an obligation can have

VARIABLE fate    \* fate[i], what has become of obligation i

Fates ==
  {"absent",        \* no such obligation (or an evidence node)
   "declared",      \* its status is the task author's, not an operation's
   "open", "acknowledged",
   "documented",    \* deferred or escalated, and the reason is on record
   "evidenced",     \* discharged or refuted, and the evidence is on record
   "transported"}   \* replaced, and the edge to its replacement is on record

TypeOK == fate \in [Id -> Fates]

Init == fate \in [Id -> {"absent", "declared", "open", "acknowledged", "documented"}]

Becomes(i, f) == fate' = [fate EXCEPT ![i] = f]

Known(i) == fate[i] # "absent"

Register(i) ==
  /\ ~Known(i)
  /\ \E f \in {"open", "acknowledged"} : Becomes(i, f)

Document(i) == Known(i) /\ Becomes(i, "documented")

Settle(i) == Known(i) /\ Becomes(i, "evidenced")

(* A declared fate becomes a supported one when its support is recorded.   *)
Substantiate(i) ==
  fate[i] = "declared" /\ \E f \in {"evidenced", "transported"} : Becomes(i, f)

(* The replacement is a new open obligation, registered in the same step.  *)
Transport(i, heir) ==
  /\ Known(i)
  /\ ~Known(heir)
  /\ fate' = [fate EXCEPT ![i] = "transported", ![heir] = "open"]

Next ==
  \/ \E i \in Id : Register(i) \/ Document(i) \/ Settle(i) \/ Substantiate(i)
  \/ \E i, heir \in Id : Transport(i, heir)

Spec == Init /\ [][Next]_fate
=============================================================================
