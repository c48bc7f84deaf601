------------------------------- MODULE GitDelivery -------------------------------
(***************************************************************************)
(* One delivery by the git_delivery adapter (adapters/git_delivery.py)     *)
(* through a disposable workspace (delivery/git_workspace.py): the clone,  *)
(* the candidate, the declared commands, the checks and the diff, with the *)
(* resource guard of the pipeline between construct, execute and verify.   *)
(* Others edit, commit to and remove the source repository meanwhile.      *)
(*                                                                         *)
(* A tree is a function from paths to contents, and a commit is its tree.  *)
(* A command writes some files, may commit them, and has an exit code: 124 *)
(* when it timed out, 127 when it was not found, none if it is empty.  A   *)
(* pattern is a content.  Files that git ignores are not modelled, nor what*)
(* is left in a workspace that could not be removed.                       *)
(***************************************************************************)
EXTENDS Naturals, Sequences, FiniteSets, SequencesExt

CONSTANTS
  Path, Content,
  Absent,        \* no such file
  Tasks,         \* the inputs of a task
  Trees          \* what others make of the source

FileTree == [Path -> Content \cup {Absent}]

(* Contents of paths of the repository, or the removal of them.            *)
Writes(f) ==
  /\ DOMAIN f \subseteq Path
  /\ \A p \in DOMAIN f : f[p] \in Content \cup {Absent}

(* What the callers pass.                                                  *)
DeliveryConstantsAreRight ==
  /\ Absent \notin Content
  /\ Trees \subseteq FileTree
  /\ \A t \in Tasks :
       /\ Writes(t.changes) /\ Writes(t.patch)
       /\ t.commands \in Seq({t.commands[i] : i \in DOMAIN t.commands})
       /\ \A i \in DOMAIN t.commands : Writes(t.commands[i].writes)
       /\ t.rollback \in {"none", "missing", "executable"}

VARIABLES
  source,      \* the source: whether it exists, its HEAD and its files
  pc,          \* where the delivery is
  task,        \* its task
  work,        \* the workspace: its directory, HEAD and files
  stuck,       \* whether its removal has failed (history)
  base,        \* base_commit
  results,     \* the exit codes of the commands so far
  checks,      \* the checks and whether they passed
  delivery     \* the result: success, obligations, diff and changed files

deliveryVars == <<source, pc, task, work, stuck, base, results, checks, delivery>>

Empty == [p \in Path |-> Absent]

NoWork == [exists |-> FALSE, head |-> Empty, files |-> Empty]

NoDelivery == [success |-> FALSE, obligations |-> {}, diff |-> << >>, changed |-> {}]

(* verified: the adapter was asked to verify.  refused: construct or       *)
(* execute reported a failure.  crashed: an exception that the adapter does*)
(* not catch.  exceeded: the resource guard raised.                        *)
Ended == {"verified", "refused", "crashed", "exceeded"}

DeliveryInit ==
  /\ source \in [exists : {TRUE}, git : BOOLEAN, head : Trees, files : Trees]
  /\ source.files = source.head
  /\ pc = "new" /\ task \in Tasks
  /\ work = NoWork /\ stuck = FALSE /\ base = Empty
  /\ results = << >> /\ checks = {} /\ delivery = NoDelivery

Unchanged == UNCHANGED <<source, task>>

-----------------------------------------------------------------------------
(* The workspace.                                                          *)

Overlay(tree, changes) == [p \in Path |-> IF p \in DOMAIN changes THEN changes[p] ELSE tree[p]]

(* rmtree ignores its errors: what cannot be removed stays.                *)
CleanUp ==
  \/ work' = NoWork /\ UNCHANGED stuck
  \/ work' = [work EXCEPT !.exists = TRUE] /\ stuck' = TRUE

Tracked(head) == {p \in Path : head[p] # Absent}

(* git diff --binary HEAD                                                  *)
Diff(w) ==
  LET differ == {p \in Tracked(w.head) : w.files[p] # w.head[p]}
  IN  [p \in differ |-> w.files[p]]

(* git status --porcelain                                                  *)
ChangedFiles(w) == {p \in Path : w.files[p] # w.head[p]}

Inspection(t, files) ==
  {[kind |-> "required_path", on |-> p, success |-> files[p] # Absent] : p \in t.required}
  \cup {[kind |-> "forbidden_pattern", on |-> p, success |-> files[p] # t.forbidden[p]]
          : p \in DOMAIN t.forbidden}
  \cup {[kind |-> "required_pattern", on |-> p, success |-> files[p] = t.patterns[p]]
          : p \in DOMAIN t.patterns}

(* A rollback command is looked up, and not executed.                      *)
RollbackCheck(t) ==
  IF t.rollback = "none" /\ ~t.rollbackRequired THEN {}
  ELSE {[kind |-> "rollback", on |-> t.rollback, success |-> t.rollback = "executable"]}

-----------------------------------------------------------------------------
(* The adapter.                                                            *)

Construct ==
  /\ pc = "new"
  /\ pc' = IF source.exists /\ (task.changes # << >> \/ task.patch # << >>)
           THEN "constructed" ELSE "refused"
  /\ Unchanged /\ UNCHANGED <<work, stuck, base, results, checks, delivery>>

(* The clone has what is committed; a directory without .git is copied as  *)
(* it is, and committed to a repository of its own.                        *)
Clone ==
  /\ pc = "constructed" /\ source.exists
  /\ LET tree == IF source.git THEN source.head ELSE source.files
     IN  work' = [exists |-> TRUE, head |-> tree, files |-> tree]
  /\ pc' = "cloned"
  /\ Unchanged /\ UNCHANGED <<stuck, base, results, checks, delivery>>

(* Fault: the base commit is asked of the source.                          *)
ResolveSource ==
  /\ pc = "cloned"
  /\ base' = source.head
  /\ pc' = "prepared"
  /\ Unchanged /\ UNCHANGED <<work, stuck, results, checks, delivery>>

ResolveBase ==
  /\ pc = "cloned"
  /\ base' = work.head
  /\ pc' = "prepared"
  /\ Unchanged /\ UNCHANGED <<work, stuck, results, checks, delivery>>

Apply ==
  /\ pc = "prepared" /\ ~task.escapes /\ task.applies
  /\ work' = [work EXCEPT !.files = Overlay(Overlay(@, task.changes), task.patch)]
  /\ pc' = "running"
  /\ Unchanged /\ UNCHANGED <<stuck, base, results, checks, delivery>>

Effect(w, c) ==
  LET files == Overlay(w.files, c.writes)
  IN  [w EXCEPT !.files = files, !.head = IF c.commits THEN files ELSE @]

(* Fault: when one timed out, the commands are run again.                  *)
RunCommandRetries(code) ==
  /\ pc = "running" /\ Len(results) < Len(task.commands)
  /\ LET c == task.commands[Len(results) + 1]
     IN  /\ code \in c.codes
         /\ results' = IF code = 124 THEN << >> ELSE Append(results, code)
         /\ work' \in {Effect(work, c)} \cup (IF code = 0 THEN {} ELSE {work})
  /\ Unchanged /\ UNCHANGED <<pc, stuck, base, checks, delivery>>

(* Commands run in the order of their groups, the others also after one    *)
(* that failed, which may have had its effect.                             *)
RunCommand(code) ==
  /\ pc = "running" /\ Len(results) < Len(task.commands)
  /\ LET c == task.commands[Len(results) + 1]
     IN  /\ code \in c.codes
         /\ results' = Append(results, code)
         /\ work' \in {Effect(work, c)} \cup (IF code = 0 THEN {} ELSE {work})
  /\ Unchanged /\ UNCHANGED <<pc, stuck, base, checks, delivery>>

(* Fault: the checks look at the candidate, not at what the commands left. *)
InspectCandidate ==
  /\ pc = "running" /\ Len(results) = Len(task.commands)
  /\ checks' = Inspection(task, Overlay(Overlay(base, task.changes), task.patch)) \cup RollbackCheck(task)
  /\ pc' = "inspected"
  /\ Unchanged /\ UNCHANGED <<work, stuck, base, results, delivery>>

Inspect ==
  /\ pc = "running" /\ Len(results) = Len(task.commands)
  /\ checks' = Inspection(task, work.files) \cup RollbackCheck(task)
  /\ pc' = "inspected"
  /\ Unchanged /\ UNCHANGED <<work, stuck, base, results, delivery>>

Obligations ==
  {<<"command", i>> : i \in {j \in DOMAIN results : results[j] # 0}}
  \cup {<<c.kind, c.on>> : c \in {d \in checks : ~d.success}}
  \cup {<<"no change", p>> : p \in {q \in {"repository"} : ChangedFiles(work) = {}}}

(* Faults: only files that git does not know are listed; the directory of a*)
(* failed delivery is left for verify to remove.                           *)
ConcludeUntracked ==
  /\ pc = "inspected"
  /\ delivery' = [success |-> Obligations = {}, obligations |-> Obligations,
                  diff |-> Diff(work), changed |-> ChangedFiles(work) \ Tracked(work.head)]
  /\ IF Obligations = {} THEN pc' = "executed" /\ UNCHANGED <<work, stuck>>
     ELSE pc' = "refused" /\ CleanUp
  /\ Unchanged /\ UNCHANGED <<base, results, checks>>

ConcludeKeeping ==
  /\ pc = "inspected"
  /\ delivery' = [success |-> Obligations = {}, obligations |-> Obligations,
                  diff |-> Diff(work), changed |-> ChangedFiles(work)]
  /\ pc' = IF Obligations = {} THEN "executed" ELSE "refused"
  /\ Unchanged /\ UNCHANGED <<work, stuck, base, results, checks>>

(* The workspace of a success is preserved for verify.                     *)
Conclude ==
  /\ pc = "inspected"
  /\ delivery' = [success |-> Obligations = {}, obligations |-> Obligations,
                  diff |-> Diff(work), changed |-> ChangedFiles(work)]
  /\ IF Obligations = {} THEN pc' = "executed" /\ UNCHANGED <<work, stuck>>
     ELSE pc' = "refused" /\ CleanUp
  /\ Unchanged /\ UNCHANGED <<base, results, checks>>

(* The argv of the command that is due is empty.                           *)
EmptyCommand == Len(results) < Len(task.commands) /\ task.commands[Len(results) + 1].codes = {}

(* GitWorkspaceError: the source is gone, git is missing or fails, a change*)
(* escapes the repository, the patch does not apply, a command is empty.   *)
Refuse ==
  /\ \/ pc \in {"constructed", "cloned"}
     \/ pc = "prepared" /\ (task.escapes \/ ~task.applies)
     \/ pc = "running" /\ EmptyCommand
  /\ pc' = "refused" /\ CleanUp
  /\ Unchanged /\ UNCHANGED <<base, results, checks, delivery>>

(* What is not a GitWorkspaceError: there is no room for a workspace, git  *)
(* takes too long, a command cannot be split or executed, or its output not*)
(* decoded, a file cannot be written, or read as text.                     *)
Crash ==
  /\ \/ pc = "constructed" /\ work' \in {work, [work EXCEPT !.exists = TRUE]}
     \/ pc \in {"cloned", "prepared", "running", "inspected"} /\ work' = work
     \/ pc = "running" /\ Len(results) < Len(task.commands)
        /\ work' = Effect(work, task.commands[Len(results) + 1])
  /\ pc' = "crashed"
  /\ Unchanged /\ UNCHANGED <<stuck, base, results, checks, delivery>>

(* The guard of the pipeline, on the time, the memory and the output.      *)
Exceed ==
  /\ pc \in {"constructed", "executed"}
  /\ pc' = "exceeded"
  /\ Unchanged /\ UNCHANGED <<work, stuck, base, results, checks, delivery>>

Provenance == delivery.changed # {}

Verify ==
  /\ pc = "executed"
  /\ delivery' = [delivery EXCEPT
       !.success = @ /\ Provenance /\ (\A i \in DOMAIN results : results[i] = 0)
                     /\ (\A c \in checks : c.success)]
  /\ pc' = "verified" /\ CleanUp
  /\ Unchanged /\ UNCHANGED <<base, results, checks>>

Step ==
  \/ Construct \/ Clone \/ ResolveBase \/ Apply
  \/ \E code \in {0, 1, 124, 127} : RunCommand(code)
  \/ Inspect \/ Conclude \/ Refuse \/ Crash \/ Exceed \/ Verify

-----------------------------------------------------------------------------
(* The source, in the hands of others.                                     *)

Others ==
  /\ source.exists /\ pc \notin Ended
  /\ \/ \E tree \in Trees : source' = [source EXCEPT !.files = tree]
     \/ source.git /\ source' = [source EXCEPT !.head = source.files]
     \/ source' = [source EXCEPT !.exists = FALSE]
  /\ UNCHANGED <<pc, task, work, stuck, base, results, checks, delivery>>

Finished == pc \in Ended /\ UNCHANGED deliveryVars

DeliveryNext == Step \/ Others \/ Finished

DeliverySpec == DeliveryInit /\ [][DeliveryNext]_deliveryVars /\ WF_deliveryVars(Step)

-----------------------------------------------------------------------------
(* Properties.                                                             *)

(* Types; a result has as many exit codes as commands ran.                 *)
DeliveryTypeOK ==
  /\ pc \in Ended \cup {"new", "constructed", "cloned", "prepared", "running", "inspected", "executed"}
  /\ {source.head, source.files, work.head, work.files, base} \subseteq FileTree
  /\ stuck \in BOOLEAN /\ Len(results) <= Len(task.commands)
  /\ DOMAIN delivery.diff \subseteq delivery.changed

(* What the candidate is judged by is a commit of the source with the      *)
(* changes of the task and nothing else, whatever others did to the source *)
(* while it was cloned, and that commit is the one that is recorded.       *)
Candidate == Overlay(Overlay(base, task.changes), task.patch)

JudgedOnItsBase ==
  (pc = "running" /\ results = << >>) => work.files = Candidate

(* A delivery that succeeded keeps its contract in the files it ends with, *)
(* not just in those it began with: every command ran and returned zero,   *)
(* and what later commands wrote is checked too.                           *)
SuccessKeepsContract ==
  pc = "executed" =>
    /\ Len(results) = Len(task.commands) /\ \A i \in DOMAIN results : results[i] = 0
    /\ \A p \in task.required : work.files[p] # Absent
    /\ \A p \in DOMAIN task.forbidden : work.files[p] # task.forbidden[p]
    /\ \A p \in DOMAIN task.patterns : work.files[p] = task.patterns[p]
    /\ task.rollbackRequired => task.rollback = "executable"

(* At whatever step a delivery failed, if the adapter reports it, and after*)
(* a verification: no workspace is left but one that could not be removed. *)
NothingLeftBehind == pc \in {"refused", "verified"} /\ work.exists => stuck

(* A delivery is what its contract says, or nothing.                       *)
DeliveryKeepsContract ==
  DeliveryTypeOK /\ JudgedOnItsBase /\ SuccessKeepsContract /\ NothingLeftBehind

(* Commands that hang are timed out: every delivery ends.                  *)
EveryDeliveryEnds == pc = "new" ~> pc \in Ended

(* adapters/git_delivery.py:69: "Preserve the temporary workspace through  *)
(* verify; verification removes it" (if it can).                           *)
WorkspaceIsRemoved == (pc \in Ended /\ delivery.success /\ ~stuck) => ~work.exists

=============================================================================
