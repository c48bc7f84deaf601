------------------------------ MODULE Jobs_proofs ------------------------------
(***************************************************************************)
(* For any set of jobs, any number of threads and any number of restarts:  *)
(* the rows of the jobs table agree with the artifacts table, a job's      *)
(* status only moves forward, every run keeps the promise of RunOutcome,   *)
(* no job is queued twice, and the gauge of an idle server reads 0.        *)
(***************************************************************************)
EXTENDS Jobs, TLAPS

(* What is true of a job that the process has come so far with.  The       *)
(* invariants are not inductive without it: Report needs to know that the  *)
(* artifact it reports on was published, Publish that nothing was before.  *)
Placed(j) ==
  /\ step[j] \in {"new", "refused"} => row[j] = "absent"
  /\ step[j] \in {"created", "queued", "taken"} => row[j] = "QUEUED"
  /\ step[j] \in {"marked", "running", "decided", "returned", "raised"} => row[j] = "RUNNING"

Accounted(j) ==
  /\ step[j] \in {"new", "refused", "created", "queued", "taken", "marked", "running"}
       => outcome[j] = "undecided"
  /\ step[j] \in {"new", "refused", "created", "queued", "taken", "marked", "running", "decided"}
       => artifact[j] = "none"
  /\ step[j] \in {"decided", "returned"} => outcome[j] # "undecided"
  /\ step[j] = "returned" => artifact[j] = outcome[j]

Following(j) == Placed(j) /\ Accounted(j)

(* The inductive invariant: what each step is shown to preserve.           *)
IInv ==
  /\ TypeOK
  /\ SettledJobHasArtifact
  /\ \A j \in Job : Following(j)

-----------------------------------------------------------------------------

(* The initial state satisfies the invariant: no job has a row.            *)
LEMMA InitInv == Init => IInv
  BY ConstantsAssumption
     DEF Init, IInv, TypeOK, JobStatuses, Steps, SettledJobHasArtifact, Following, Placed,
         Accounted

(* Every step of the server preserves the invariant.                       *)
LEMMA StepInv == IInv /\ [Next]_vars => IInv'
<1> SUFFICES ASSUME IInv, [Next]_vars PROVE IInv'
  OBVIOUS
<1> USE DEF IInv, TypeOK, JobStatuses, Steps, Terminal
<1>1. ASSUME Take PROVE IInv'
  <2>1. Head(queue) \in Job /\ Tail(queue) \in Seq(Job)
    BY <1>1 DEF Take
  <2>2. QED
    BY <1>1, <2>1 DEF Take, Moves, SettledJobHasArtifact, Following, Placed, Accounted
<1>2. ASSUME Restart PROVE IInv'
  <2>1. TypeOK'
    BY <1>2, ConstantsAssumption DEF Restart
  <2>2. QED
    BY <1>2, <2>1 DEF Restart, SettledJobHasArtifact, Following, Placed, Accounted
<1>3. ASSUME NEW j \in Job, CreateJob(j) PROVE IInv'
  BY <1>3 DEF CreateJob, Moves, Writes, StoreFails, SettledJobHasArtifact, Following,
              Placed, Accounted
<1>4. ASSUME NEW j \in Job, Enqueue(j) PROVE IInv'
  BY <1>4 DEF Enqueue, Moves, SettledJobHasArtifact, Following, Placed, Accounted
<1>5. ASSUME NEW j \in Job, MarkRunning(j) PROVE IInv'
  BY <1>5 DEF MarkRunning, Moves, Writes, StoreFails, SettledJobHasArtifact, Following,
              Placed, Accounted
<1>6. ASSUME NEW j \in Job, RaiseGauge(j) PROVE IInv'
  BY <1>6 DEF RaiseGauge, kept, Moves, SettledJobHasArtifact, Following, Placed, Accounted
<1>7. ASSUME NEW j \in Job, Decide(j) PROVE IInv'
  BY <1>7 DEF Decide, kept, Moves, SettledJobHasArtifact, Following, Placed, Accounted
<1>8. ASSUME NEW j \in Job, Publish(j) PROVE IInv'
  BY <1>8 DEF Publish, kept, Moves, SettledJobHasArtifact, Following, Placed, Accounted
<1>9. ASSUME NEW j \in Job, Report(j) PROVE IInv'
  BY <1>9 DEF Report, Moves, Writes, StoreFails, SettledJobHasArtifact, Following,
              Placed, Accounted
<1>10. ASSUME NEW j \in Job, MarkFailed(j) PROVE IInv'
  BY <1>10 DEF MarkFailed, Moves, Writes, StoreFails, SettledJobHasArtifact, Following,
               Placed, Accounted
<1>11. ASSUME NEW j \in Job, LowerGauge(j) PROVE IInv'
  BY <1>11 DEF LowerGauge, kept, Moves, SettledJobHasArtifact, Following, Placed, Accounted
<1>12. CASE UNCHANGED vars
  BY <1>12 DEF vars, SettledJobHasArtifact, Following, Placed, Accounted
<1>13. QED
  BY <1>1, <1>2, <1>3, <1>4, <1>5, <1>6, <1>7, <1>8, <1>9, <1>10, <1>11, <1>12
     DEF Next, Submit, Work

(* The invariant holds in every reachable state.                           *)
LEMMA Invariance == Spec => []IInv
<1>1. QED
  BY InitInv, StepInv, PTL DEF Spec

(* The jobs, their rows and the queue always have their types.             *)
THEOREM JobsTypeCorrect == Spec => []TypeOK
<1>1. IInv => TypeOK
  BY DEF IInv
<1>2. QED
  BY Invariance, <1>1, PTL

(* A reader of the two tables never finds a settled job without the        *)
(* artifact, or with one of another verdict.                               *)
THEOREM TablesAgree == Spec => []SettledJobHasArtifact
<1>1. IInv => SettledJobHasArtifact
  BY DEF IInv
<1>2. QED
  BY Invariance, <1>1, PTL

(* A job's status follows the arcs absent, QUEUED, RUNNING, settled, and   *)
(* no failure or restart moves it back.                                    *)
THEOREM StatusOnlyMovesForward == Spec => StatusMovesForward
<1> DEFINE Forward ==
      \A j \in Job : row'[j] = row[j] \/ row'[j] \in Successors(row[j])
<1>1. IInv /\ [Next]_vars => Forward
  <2> SUFFICES ASSUME IInv, [Next]_vars, NEW j \in Job
               PROVE row'[j] = row[j] \/ row'[j] \in Successors(row[j])
    OBVIOUS
  <2> USE DEF IInv, TypeOK, JobStatuses, Terminal
  <2>1. CASE UNCHANGED row
    BY <2>1
  <2>2. ASSUME NEW k \in Job, CreateJob(k)
        PROVE row'[j] = row[j] \/ row'[j] \in Successors(row[j])
    BY <2>2 DEF CreateJob, Moves, Writes, StoreFails, Following, Placed, Successors
  <2>3. ASSUME NEW k \in Job, MarkRunning(k)
        PROVE row'[j] = row[j] \/ row'[j] \in Successors(row[j])
    BY <2>3 DEF MarkRunning, Moves, Writes, StoreFails, Following, Placed, Successors
  <2>4. ASSUME NEW k \in Job, Report(k)
        PROVE row'[j] = row[j] \/ row'[j] \in Successors(row[j])
    BY <2>4 DEF Report, Moves, Writes, StoreFails, Following, Placed, Successors
  <2>5. ASSUME NEW k \in Job, MarkFailed(k)
        PROVE row'[j] = row[j] \/ row'[j] \in Successors(row[j])
    BY <2>5 DEF MarkFailed, Moves, Writes, StoreFails, Following, Placed, Successors
  <2>6. QED
    BY <2>1, <2>2, <2>3, <2>4, <2>5
       DEF Next, Submit, Work, Take, Restart, Enqueue, RaiseGauge, Decide, Publish,
           LowerGauge, vars
<1>2. QED
  BY Invariance, <1>1, PTL DEF Spec, StatusMovesForward

(* Every run decides once and publishes that decision once: the server     *)
(* implements RunOutcome for each job.                                     *)
THEOREM EveryRunKeepsPromise == Spec => RunsKeepPromise
<1> DEFINE Promised(j) == [Run(j)!Next]_<<outcome[j], artifact[j]>>
<1>1. Init => \A j \in Job : Run(j)!Init
  BY DEF Init, Run!Init
<1>2. IInv /\ [Next]_vars => \A j \in Job : Promised(j)
  <2> SUFFICES ASSUME IInv, [Next]_vars, NEW j \in Job PROVE Promised(j)
    OBVIOUS
  <2> USE DEF IInv, TypeOK, Run!Next, Run!Decide, Run!Publish
  <2>1. CASE UNCHANGED <<outcome, artifact>>
    BY <2>1
  <2>2. ASSUME NEW k \in Job, Decide(k) PROVE Promised(j)
    BY <2>2 DEF Decide, Moves, Following, Accounted
  <2>3. ASSUME NEW k \in Job, Publish(k) PROVE Promised(j)
    BY <2>3 DEF Publish, Moves, Following, Accounted
  <2>4. QED
    BY <2>1, <2>2, <2>3
       DEF Next, Submit, Work, Take, Restart, CreateJob, Enqueue, MarkRunning, RaiseGauge,
           Report, MarkFailed, LowerGauge, vars
<1>3. QED
  BY Invariance, <1>1, <1>2, PTL DEF Spec, RunsKeepPromise

-----------------------------------------------------------------------------

(* With no job in the pipeline the gauge reads 0: every thread that set it *)
(* to 1 is still to set it to 0, so the last write is a 0.                 *)
THEOREM IdleGauge == Spec => []IdleGaugeReadsZero
<1>1. Init => IdleGaugeReadsZero
  BY DEF Init, IdleGaugeReadsZero
<1>2. IInv /\ IdleGaugeReadsZero /\ [Next]_vars => IdleGaugeReadsZero'
  <2> SUFFICES ASSUME IInv, IdleGaugeReadsZero, [Next]_vars, Measured' = {}
               PROVE gauge' = 0
    BY DEF IdleGaugeReadsZero
  <2> USE DEF IInv, TypeOK, Steps
  <2>1. ASSUME UNCHANGED gauge, \A j \in Measured : step'[j] = step[j] PROVE gauge' = 0
    BY <2>1 DEF IdleGaugeReadsZero, Measured
  <2>2. ASSUME Take PROVE gauge' = 0
    BY <2>1, <2>2 DEF Take, Moves, Measured
  <2>3. ASSUME NEW j \in Job, RaiseGauge(j) PROVE gauge' = 0
    BY <2>3 DEF RaiseGauge, Moves, Measured
  <2>4. ASSUME NEW j \in Job, Submit(j) \/ MarkRunning(j) PROVE gauge' = 0
    BY <2>1, <2>4 DEF Submit, CreateJob, Enqueue, MarkRunning, Moves, Measured
  <2>5. ASSUME NEW j \in Job, Decide(j) \/ Publish(j) \/ Report(j) \/ MarkFailed(j)
        PROVE gauge' = 0
    <3>1. j \in Measured'
      BY <2>5 DEF Decide, Publish, Report, MarkFailed, Moves, Measured
    <3>2. QED
      BY <3>1
  <2>6. CASE Restart \/ \E j \in Job : LowerGauge(j)
    BY <2>6 DEF Restart, LowerGauge
  <2>7. CASE UNCHANGED vars
    BY <2>7 DEF vars, IdleGaugeReadsZero, Measured
  <2>8. QED
    BY <2>2, <2>3, <2>4, <2>5, <2>6, <2>7 DEF Next, Work
<1>3. QED
  BY Invariance, <1>1, <1>2, PTL DEF Spec

-----------------------------------------------------------------------------

(* The queue and the jobs' own progress agree, and no job is queued twice: *)
(* no two threads ever run one job.                                        *)
THEOREM NoJobQueuedTwice == Spec => []QueuedOnce
<1>1. Init => QueuedOnce
  BY DEF Init, QueuedOnce
<1>2. IInv /\ QueuedOnce /\ [Next]_vars => QueuedOnce'
  <2> SUFFICES ASSUME IInv, QueuedOnce, [Next]_vars PROVE QueuedOnce'
    OBVIOUS
  <2> USE DEF IInv, TypeOK, Steps
  <2> DEFINE Waiting == {j \in Job : step[j] = "queued"}
  <2>1. ASSUME UNCHANGED queue, Waiting' = Waiting PROVE QueuedOnce'
    BY <2>1 DEF QueuedOnce
  <2>2. ASSUME Take PROVE QueuedOnce'
    <3> DEFINE h == Head(queue)
    <3>1. /\ queue # << >> /\ queue' = Tail(queue) /\ h = queue[1] /\ h \in Job
          /\ step' = [step EXCEPT ![h] = "taken"]
      BY <2>2 DEF Take, Moves
    <3>2. Len(queue') = Len(queue) - 1 /\ \A i \in 1..Len(queue') : queue'[i] = queue[i + 1]
      BY <3>1
    <3>3. \A i, k \in 1..Len(queue') : queue'[i] = queue'[k] => i = k
      BY <3>2 DEF QueuedOnce
    <3>4. \A i \in 1..Len(queue') : queue'[i] \in Waiting /\ queue'[i] # h
      BY <3>1, <3>2 DEF QueuedOnce
    <3>5. \A j \in Waiting \ {h} : \E i \in 1..Len(queue') : queue'[i] = j
      <4>1. SUFFICES ASSUME NEW j \in Waiting, j # h
                     PROVE \E i \in 1..Len(queue') : queue'[i] = j
        OBVIOUS
      <4>2. PICK i \in 1..Len(queue) : queue[i] = j
        BY DEF QueuedOnce
      <4>3. i # 1
        BY <3>1, <4>1, <4>2
      <4>4. i - 1 \in 1..Len(queue') /\ queue'[i - 1] = j
        BY <3>1, <3>2, <4>2, <4>3
      <4>5. QED
        BY <4>4
    <3>6. Waiting' = Waiting \ {h}
      BY <3>1
    <3>7. {queue'[i] : i \in 1..Len(queue')} = Waiting'
      BY <3>4, <3>5, <3>6
    <3>8. QED
      BY <3>3, <3>7 DEF QueuedOnce
  <2>3. ASSUME NEW j \in Job, Enqueue(j) PROVE QueuedOnce'
    <3>1. queue' = Append(queue, j) /\ step[j] = "created" /\ step' = [step EXCEPT ![j] = "queued"]
      BY <2>3 DEF Enqueue, Moves
    <3>2. /\ Len(queue') = Len(queue) + 1 /\ queue'[Len(queue) + 1] = j
          /\ \A i \in 1..Len(queue) : queue'[i] = queue[i]
      BY <3>1
    <3>3. \A i \in 1..Len(queue) : queue[i] # j
      BY <3>1 DEF QueuedOnce
    <3>4. \A i, k \in 1..Len(queue') : queue'[i] = queue'[k] => i = k
      BY <3>2, <3>3 DEF QueuedOnce
    <3>5. Waiting' = Waiting \cup {j}
      BY <3>1
    <3>6. \A i \in 1..Len(queue') : queue'[i] \in Waiting'
      BY <3>2, <3>5 DEF QueuedOnce
    <3>7. \A k \in Waiting' : \E i \in 1..Len(queue') : queue'[i] = k
      <4> SUFFICES ASSUME NEW k \in Waiting' PROVE \E i \in 1..Len(queue') : queue'[i] = k
        OBVIOUS
      <4>1. CASE k = j
        BY <3>2, <4>1
      <4>2. CASE k # j
        <5>1. PICK i \in 1..Len(queue) : queue[i] = k
          BY <3>5, <4>2 DEF QueuedOnce
        <5>2. i \in 1..Len(queue') /\ queue'[i] = k
          BY <3>2, <5>1
        <5>3. QED
          BY <5>2
      <4>3. QED
        BY <4>1, <4>2
    <3>8. {queue'[i] : i \in 1..Len(queue')} = Waiting'
      BY <3>6, <3>7
    <3>9. QED
      BY <3>4, <3>8 DEF QueuedOnce
  <2>4. ASSUME Restart PROVE QueuedOnce'
    <3>1. queue' = << >> /\ Waiting' = {}
      BY <2>4 DEF Restart
    <3>2. QED
      BY <3>1 DEF QueuedOnce
  <2>5. ASSUME NEW j \in Job, CreateJob(j) \/ Work(j) PROVE QueuedOnce'
    <3>1. UNCHANGED queue /\ \A k \in Job : step'[k] = "queued" <=> step[k] = "queued"
      BY <2>5 DEF Work, CreateJob, MarkRunning, RaiseGauge, Decide, Publish, Report,
                  MarkFailed, LowerGauge, kept, Moves
    <3>2. QED
      BY <2>1, <3>1
  <2>6. CASE UNCHANGED vars
    BY <2>6 DEF vars, QueuedOnce
  <2>7. QED
    BY <2>2, <2>3, <2>4, <2>5, <2>6 DEF Next, Submit
<1>3. QED
  BY Invariance, <1>1, <1>2, PTL DEF Spec

(* Queue, gauge and jobs agree, whatever threads, failures and restarts do.*)
THEOREM QueueStaysAccounted == Spec => []QueueIsAccounted
<1>1. QueuedOnce /\ IdleGaugeReadsZero => QueueIsAccounted
  BY DEF QueueIsAccounted
<1> QED
  BY <1>1, IdleGauge, NoJobQueuedTwice, PTL

=============================================================================
