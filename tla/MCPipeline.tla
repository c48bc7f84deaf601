------------------------------ MODULE MCPipeline ------------------------------
EXTENDS Pipeline

Task(shortcuts, initial, modes, available, approved, unsafe) ==
  [assumptions |-> 1, successConditions |-> 1, prohibitedShortcuts |-> shortcuts,
   initialObligations |-> initial, modes |-> modes, adapterAvailable |-> available,
   approved |-> approved, unsafe |-> unsafe]

Initial(kind, state, severity, source) ==
  [kind |-> kind, status |-> state, severity |-> severity, blocking |-> TRUE,
   source |-> source, why |-> "none"]

(* Tasks that differ in what the gates ask of them.                        *)
GatedTasks ==
  {Task(1, << >>, {"SOFTWARE_ENGINEERING"}, available, approved, unsafe) :
     available, approved, unsafe \in BOOLEAN}
  \cup {Task(0, << >>, {"FORMAL_PROOF", "DATA_ANALYSIS"}, TRUE, TRUE, FALSE)}

(* Tasks that differ in the obligation their author added.                 *)
DutyTasks ==
  {Task(0, <<Initial(kind, state, severity, "task")>>, {"FORMAL_PROOF"}, TRUE, TRUE, FALSE) :
     kind \in {"PROOF", "POLICY", "INTENT", "TEST"}, state \in {"OPEN", "DEFERRED", "TRANSFERRED"},
     severity \in {"LOW", "HIGH"}}

AllTasks == GatedTasks \cup DutyTasks

(* An added intent, and a requirement that passes for a success condition. *)
SelfClearingTasks ==
  {Task(0, <<Initial(kind, "OPEN", "HIGH", source)>>, {"DATA_ANALYSIS"}, TRUE, TRUE, FALSE) :
     kind \in {"INTENT", "REQUIREMENT"}, source \in {"task", "task.success_conditions"}}

SomeConstructs ==
  {[success |-> TRUE, obligations |-> << >>]}
  \cup {[success |-> FALSE, obligations |-> o] : o \in {<< >>, <<"stated">>, <<"blank">>}}

Passing == [kind |-> "TEST", severity |-> "HIGH", blocking |-> TRUE,
            statement |-> "stated", success |-> TRUE]

Failing(kind, severity) ==
  [Passing EXCEPT !.success = FALSE, !.kind = kind, !.severity = severity]

Executed(success, obligations, evidence, checks) ==
  [success |-> success, obligations |-> obligations, evidence |-> evidence, checks |-> checks]

(* Every way an execution can end, and checks that pass, fail harmlessly,  *)
(* fail with a duty that must block, or cannot be recorded.                *)
SomeExecutes ==
  {Executed(TRUE, << >>, 0, << >>), Executed(TRUE, << >>, 2, <<Passing>>),
   Executed(TRUE, << >>, 1, <<Failing("TEST", "LOW")>>),
   Executed(TRUE, << >>, 1, <<Failing("POLICY", "LOW")>>),
   Executed(TRUE, << >>, 1, <<Passing, Failing("TEST", "HIGH")>>),
   Executed(TRUE, << >>, 1, <<[Passing EXCEPT !.kind = "EVIDENCE"]>>),
   Executed(TRUE, << >>, 1, <<[Passing EXCEPT !.statement = "blank"]>>),
   Executed(FALSE, << >>, 1, << >>), Executed(FALSE, <<"stated", "blank">>, 0, <<Passing>>)}

FewExecutes == {Executed(TRUE, << >>, 1, << >>)}

Verified(success, obligations, evidence) ==
  [success |-> success, obligations |-> obligations, evidence |-> evidence]

SomeVerifies ==
  {Verified(TRUE, << >>, <<"execution">>), Verified(TRUE, << >>, <<"execution", "kernel">>),
   Verified(TRUE, <<"stated">>, <<"kernel">>), Verified(TRUE, << >>, <<"heuristic">>),
   Verified(TRUE, << >>, << >>), Verified(FALSE, <<"blank">>, <<"execution">>)}

KernelVerifies ==
  {Verified(TRUE, << >>, <<"kernel">>), Verified(TRUE, << >>, <<"kernel", "reproduction">>)}

Succeed == {[success |-> TRUE, obligations |-> << >>]}
=============================================================================
