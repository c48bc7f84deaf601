-------------------------- MODULE MCObligationGraph --------------------------
EXTENDS ObligationGraph

Task(initial) == [assumptions |-> 0, successConditions |-> 0,
                  prohibitedShortcuts |-> 0, initialObligations |-> initial]

Duty(kind, status, why) ==
  [kind |-> kind, status |-> status, severity |-> "HIGH", blocking |-> TRUE,
   source |-> "runtime", why |-> why]

(* An undecorated task, and tasks whose author declares a settled or a     *)
(* transferred obligation.                                                 *)
PlainTask == {Task(<< >>)}

DeclaringTasks ==
  {Task(<<Duty("REQUIREMENT", status, "none")>>) :
     status \in {"DISCHARGED", "TRANSFERRED"}}

SmallTasks == PlainTask \cup DeclaringTasks

(* Every kind of duty a release requires, one evidence node short of ripe. *)
NearlyRipeTasks ==
  {Task([i \in 1..4 |-> Duty(<<"REQUIREMENT", "CLAIM", "SAFETY", "POLICY">>[i], "ACKNOWLEDGED", "none")])}

Nothing == {}
OneDuty == {Duty("REQUIREMENT", "OPEN", "none")}
OneReason == {"reason"}
Reinforcing == {"SUPPORTS", "CONTRADICTS"}
Default == {"REFINES"}
=============================================================================
