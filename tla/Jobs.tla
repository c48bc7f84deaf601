---------------------------------- MODULE Jobs ----------------------------------
(***************************************************************************)
(* The asynchronous jobs of the server (jobs/manager.py) with their rows   *)
(* in the control store (storage/sqlite.py): clients submit tasks, a pool  *)
(* of threads runs them through the pipeline, and other requests read the  *)
(* rows meanwhile.  Any write to the store may fail, and the process may   *)
(* die and be started again.                                               *)
(*                                                                         *)
(* The pipeline is RunOutcome here, which Pipeline is shown to implement:  *)
(* a run decides once, publishes that decision, and returns or raises.     *)
(***************************************************************************)
EXTENDS Naturals, Sequences, FiniteSets

CONSTANTS
  Job,          \* the jobs that clients may submit
  Workers,      \* max_workers of the executor
  MaxRestarts   \* bound: how often the process may die

ASSUME ConstantsAssumption == Workers \in Nat \ {0} /\ MaxRestarts \in Nat

VARIABLES
  row,       \* row[j], the status of j in the jobs table, "absent" without a row
  step,      \* step[j], how far the process has come with j
  queue,     \* the executor's work queue
  outcome,   \* outcome[j], what the run of j decided
  artifact,  \* artifact[j], what the artifacts table says of the run of j
  gauge,     \* the gauge nexus_u_jobs_active
  unwritten, \* the jobs for which a write to the jobs table failed
  restarts   \* how often the process died

kept == <<queue, unwritten, restarts>>
vars == <<row, step, queue, outcome, artifact, gauge, unwritten, restarts>>

Terminal == {"SUCCEEDED", "COMPLETED_WITH_OBLIGATIONS", "FAILED"}

JobStatuses == {"absent", "QUEUED", "RUNNING"} \cup Terminal

Steps == {"new", "refused",                  \* before submit, and after it raised
          "created", "queued",               \* in submit, and after it
          "taken", "marked",                 \* in _run, before the try block
          "running", "decided", "returned",  \* in the try block
          "raised", "reported",              \* in the handler, and before finally
          "ended", "lost"}                   \* after _run, and after the process died

(* A thread of the pool is busy with these; they are also past the gauge.  *)
Measured == {j \in Job : step[j] \in {"running", "decided", "returned", "raised", "reported"}}

Busy == Measured \cup {j \in Job : step[j] \in {"taken", "marked"}}

Init ==
  /\ row = [j \in Job |-> "absent"]
  /\ step = [j \in Job |-> "new"]
  /\ queue = << >>
  /\ outcome = [j \in Job |-> "undecided"]
  /\ artifact = [j \in Job |-> "none"]
  /\ gauge = 0 /\ unwritten = {} /\ restarts = 0

-----------------------------------------------------------------------------

Moves(j, from, to) == step[j] = from /\ step' = [step EXCEPT ![j] = to]

(* update_job and create_job: one transaction each.                        *)
Writes(j, status) == row' = [row EXCEPT ![j] = status] /\ UNCHANGED unwritten

StoreFails(j) == unwritten' = unwritten \cup {j} /\ UNCHANGED row

(* submit runs in the thread of the request: the row first, the queue then.*)
CreateJob(j) ==
  /\ \/ Moves(j, "new", "created") /\ Writes(j, "QUEUED")
     \/ Moves(j, "new", "refused") /\ StoreFails(j)
  /\ UNCHANGED <<queue, outcome, artifact, gauge, restarts>>

(* Fault: the job is handed to the executor twice.                         *)
EnqueueTwice(j) ==
  /\ Moves(j, "created", "queued")
  /\ queue' = queue \o <<j, j>>
  /\ UNCHANGED <<row, outcome, artifact, gauge, unwritten, restarts>>

Enqueue(j) ==
  /\ Moves(j, "created", "queued")
  /\ queue' = Append(queue, j)
  /\ UNCHANGED <<row, outcome, artifact, gauge, unwritten, restarts>>

Take ==
  /\ queue # << >> /\ Cardinality(Busy) < Workers
  /\ Moves(Head(queue), "queued", "taken")
  /\ queue' = Tail(queue)
  /\ UNCHANGED <<row, outcome, artifact, gauge, unwritten, restarts>>

(* Fault: a status that the table does not know.                           *)
MarkStarted(j) ==
  /\ Moves(j, "taken", "marked") /\ Writes(j, "STARTED")
  /\ UNCHANGED <<queue, outcome, artifact, gauge, restarts>>

(* Outside the try block: when it fails, the future keeps the exception    *)
(* and nobody asks the future for it.                                      *)
MarkRunning(j) ==
  /\ \/ Moves(j, "taken", "marked") /\ Writes(j, "RUNNING")
     \/ Moves(j, "taken", "ended") /\ StoreFails(j)
  /\ UNCHANGED <<queue, outcome, artifact, gauge, restarts>>

RaiseGauge(j) ==
  /\ Moves(j, "marked", "running")
  /\ gauge' = 1
  /\ UNCHANGED <<row, outcome, artifact, kept>>

(* The task is parsed and the pipeline runs; it may raise at either.       *)
Decide(j) ==
  /\ \/ /\ Moves(j, "running", "decided")
        /\ \E verdict \in {"released", "withheld"} :
             outcome' = [outcome EXCEPT ![j] = verdict]
     \/ Moves(j, "running", "raised") /\ UNCHANGED outcome
  /\ UNCHANGED <<row, artifact, gauge, kept>>

Publish(j) ==
  /\ \/ /\ Moves(j, "decided", "returned")
        /\ artifact' = [artifact EXCEPT ![j] = outcome[j]]
     \/ Moves(j, "decided", "raised") /\ UNCHANGED artifact
  /\ UNCHANGED <<row, outcome, gauge, kept>>

(* Fault: the job is reported before its artifact is published.            *)
ReportEarly(j) ==
  /\ Moves(j, "decided", "reported")
  /\ Writes(j, IF outcome[j] = "released" THEN "SUCCEEDED" ELSE "COMPLETED_WITH_OBLIGATIONS")
  /\ UNCHANGED <<queue, outcome, artifact, gauge, restarts>>

(* Inside the try block: when it fails, the handler runs.                  *)
Report(j) ==
  /\ \/ /\ Moves(j, "returned", "reported")
        /\ Writes(j, IF outcome[j] = "released" THEN "SUCCEEDED"
                     ELSE "COMPLETED_WITH_OBLIGATIONS")
     \/ Moves(j, "returned", "raised") /\ StoreFails(j)
  /\ UNCHANGED <<queue, outcome, artifact, gauge, restarts>>

(* Fault: the handler swallows the exception and writes nothing.           *)
MarkFailedSilently(j) ==
  /\ Moves(j, "raised", "reported")
  /\ UNCHANGED <<row, unwritten, queue, outcome, artifact, gauge, restarts>>

MarkFailed(j) ==
  /\ Moves(j, "raised", "reported")
  /\ Writes(j, "FAILED") \/ StoreFails(j)
  /\ UNCHANGED <<queue, outcome, artifact, gauge, restarts>>

(* Fault: the gauge is lowered after a success only.                       *)
LowerGaugeOfSuccess(j) ==
  /\ Moves(j, "reported", "ended")
  /\ gauge' = IF row[j] = "FAILED" THEN gauge ELSE 0
  /\ UNCHANGED <<row, outcome, artifact, kept>>

LowerGauge(j) ==
  /\ Moves(j, "reported", "ended")
  /\ gauge' = 0
  /\ UNCHANGED <<row, outcome, artifact, kept>>

(* Faults: a recovery that puts started jobs back in the table, and one    *)
(* that runs them again.                                                   *)
RestartRequeueing ==
  /\ restarts < MaxRestarts
  /\ restarts' = restarts + 1
  /\ step' = [j \in Job |-> IF step[j] \in {"new", "refused", "ended"} THEN step[j] ELSE "lost"]
  /\ row' = [j \in Job |-> IF row[j] = "RUNNING" THEN "QUEUED" ELSE row[j]]
  /\ queue' = << >> /\ gauge' = 0
  /\ UNCHANGED <<outcome, artifact, unwritten>>

RestartRerunning ==
  /\ restarts < MaxRestarts
  /\ restarts' = restarts + 1
  /\ step' = [j \in Job |-> IF step[j] \in {"new", "refused", "ended"} THEN step[j]
                            ELSE IF row[j] = "RUNNING" THEN "marked" ELSE "lost"]
  /\ queue' = << >> /\ gauge' = 0
  /\ UNCHANGED <<row, outcome, artifact, unwritten>>

(* The process dies and starts again.  Threads, queue and metrics are      *)
(* gone; the store survives, and nothing in it is resumed.                 *)
Restart ==
  /\ restarts < MaxRestarts
  /\ restarts' = restarts + 1
  /\ step' = [j \in Job |-> IF step[j] \in {"new", "refused", "ended"}
                            THEN step[j] ELSE "lost"]
  /\ queue' = << >> /\ gauge' = 0
  /\ UNCHANGED <<row, outcome, artifact, unwritten>>

Submit(j) == CreateJob(j) \/ Enqueue(j)

Work(j) ==
  \/ MarkRunning(j) \/ RaiseGauge(j) \/ Decide(j) \/ Publish(j)
  \/ Report(j) \/ MarkFailed(j) \/ LowerGauge(j)

Next == Take \/ Restart \/ \E j \in Job : Submit(j) \/ Work(j)

(* A thread that can go on does, and an idle thread takes the next job: an *)
(* executor's queue is FIFO and Pipeline's runs end (EveryRunEnds).        *)
Fairness == WF_vars(Take) /\ \A j \in Job : WF_vars(Enqueue(j) \/ Work(j))

Spec == Init /\ [][Next]_vars /\ Fairness

-----------------------------------------------------------------------------

(* Every variable has its type.                                            *)
TypeOK ==
  /\ row \in [Job -> JobStatuses]
  /\ step \in [Job -> Steps]
  /\ queue \in Seq(Job)
  /\ outcome \in [Job -> {"undecided", "released", "withheld"}]
  /\ artifact \in [Job -> {"none", "released", "withheld"}]
  /\ gauge \in {0, 1} /\ unwritten \subseteq Job /\ restarts \in Nat

(* Two tables of the store, written one after the other by a thread that   *)
(* may fail or die in between: a reader who finds a job settled finds its  *)
(* artifact, with the verdict that the job's status says.                  *)
SettledJobHasArtifact ==
  \A j \in Job :
    /\ row[j] = "SUCCEEDED" => artifact[j] = "released"
    /\ row[j] = "COMPLETED_WITH_OBLIGATIONS" => artifact[j] = "withheld"

(* A job's status only moves forward, through RUNNING, over restarts too:  *)
(* a settled job is settled for good, and FAILED is never reported of a    *)
(* job that was not started.                                               *)
Successors(status) ==
  CASE status = "absent" -> {"QUEUED"}
    [] status = "QUEUED" -> {"RUNNING"}
    [] status = "RUNNING" -> Terminal
    [] OTHER -> {}

StatusMovesForward ==
  [][\A j \in Job : row'[j] = row[j] \/ row'[j] \in Successors(row[j])]_vars

(* A worker's 0 may overwrite another's 1, but not the other way around:   *)
(* with no job in the pipeline the gauge reads 0, whatever failed.         *)
IdleGaugeReadsZero == Measured = {} => gauge = 0

(* A job is in one place: each queued job once in the queue and nothing    *)
(* else in it, so no two threads run one job.                              *)
QueuedOnce ==
  /\ \A i, k \in 1..Len(queue) : queue[i] = queue[k] => i = k
  /\ {queue[i] : i \in 1..Len(queue)} = {j \in Job : step[j] = "queued"}

(* What the queue and the gauge say agrees with where the jobs are.        *)
QueueIsAccounted == QueuedOnce /\ IdleGaugeReadsZero

(* Every job that was accepted settles, unless the process died with it or *)
(* the store refused a write of its status.                                *)
EveryJobSettles ==
  \A j \in Job :
    step[j] = "created" ~> (row[j] \in Terminal \/ step[j] = "lost" \/ j \in unwritten)

(* The run of every job keeps the promise of RunOutcome: at most one       *)
(* verdict and one publication, over restarts too.                         *)
Run(j) == INSTANCE RunOutcome WITH None <- "none", outcome <- outcome[j], published <- artifact[j]

RunsKeepPromise ==
  /\ \A j \in Job : Run(j)!Init
  /\ [][\A j \in Job : [Run(j)!Next]_<<outcome[j], artifact[j]>>]_vars
=============================================================================
