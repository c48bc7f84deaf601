----------------------------- MODULE MCGitDelivery -----------------------------
(* A delivery that succeeds: the case of WorkspaceIsRemoved.               *)
EXTENDS GitDelivery

CONSTANTS calc, extra, good, old

Tree(inCalc, inExtra) == [p \in Path |-> IF p = calc THEN inCalc ELSE inExtra]

TheTrees == {Tree(old, Absent), Tree(old, good)}

Nothing == << >>

TheTasks ==
  {[changes |-> [p \in {calc} |-> good], patch |-> Nothing, applies |-> TRUE, escapes |-> FALSE,
    commands |-> << >>, required |-> {calc}, forbidden |-> Nothing, patterns |-> Nothing,
    rollback |-> "executable", rollbackRequired |-> TRUE]}
=============================================================================
