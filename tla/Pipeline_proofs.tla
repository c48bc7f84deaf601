----------------------------- MODULE Pipeline_proofs -----------------------------
(***************************************************************************)
(* For any tasks, any results of the adapters and any limit: the verdict of*)
(* a run is final, what it publishes is whole, it implements the promise of*)
(* RunOutcome, and its stages follow the table of statuses.  The graph     *)
(* plays no part in this: its operations are not expanded.  The second half*)
(* is about the graph: the verdict that is recorded matches it, at every   *)
(* step, in terms of what ObligationGraphOps_proofs says of its operations.*)
(***************************************************************************)
EXTENDS Pipeline, ObligationGraphOps_proofs, FiniteSums

(* The values of pc before there is a verdict.                             *)
Stages ==
  {"preflight", "construct", "execute", "verify", "release", "safety", "review", "promote"}

(* PublishedIsWhole is not inductive: the row is written by a run that has *)
(* forgotten why the files are whole.  Progress says which of them are at  *)
(* each write; that they are of the same record needs that the record does *)
(* not change while it is persisted.                                       *)
Progress ==
  /\ pc \in {"artifact", "audit", "bundle", "index", "returned"} => disk["graph"] = {Snapshot}
  /\ pc \in {"audit", "bundle", "index", "returned"} => disk["artifact"] = {Snapshot}
  /\ pc \in {"bundle", "index", "returned"} => disk["audit"] = {Snapshot}
  /\ pc \in {"index", "returned"} =>
       disk["bundle"] = {<<disk["graph"], disk["artifact"], disk["audit"]>>}

(* The inductive invariant.                                                *)
IInv ==
  /\ pc \in Stages \cup Files \cup {"index", "returned", "raised", "crashed"}
  /\ pc \in Stages => status \notin Final
  /\ Persisting => status \in Final
  /\ disk = [file \in Files |-> disk[file]]
  /\ Progress
  /\ index # {} => pc = "returned" /\ index = {Snapshot} /\ status \in Final
  /\ pc = "returned" => (hasStore => index # {})

-----------------------------------------------------------------------------

(* What the stages of a run have in common: they go on to another stage    *)
(* without a verdict, or persist one; they write nothing.                  *)
Concludes == pc' = "graph" /\ status' \in Final

GoesOn == pc' \in Stages /\ status' \notin Final

StageStep == (GoesOn \/ Concludes) /\ UNCHANGED <<hasStore, stored>>

(* What the status becomes when a list of stages is reached.               *)
LEMMA ShortLists ==
  ASSUME NEW S, NEW a \in S
  PROVE  <<>> \in Seq(S) /\ <<a>> \in Seq(S) /\ Len(<<a>>) = 1
  OBVIOUS

(* The status after the events of a run that ends with a stage.            *)
LEMMA LastOfOne ==
  ASSUME NEW v PROVE Append(<<>>, v)[Len(Append(<<>>, v))] = v
<1> DEFINE S == {v}
<1>1. v \in S
  OBVIOUS
<1> HIDE DEF S
<1> QED
  BY <1>1, ShortLists, AppendProperties

(* The status after the events of a run that ends with two stages.         *)
LEMMA LastOfTwo ==
  ASSUME NEW a, NEW v PROVE Append(<<a>>, v)[Len(Append(<<a>>, v))] = v
<1> DEFINE S == {a, v}
<1>1. a \in S /\ v \in S
  OBVIOUS
<1> HIDE DEF S
<1> QED
  BY <1>1, ShortLists, AppendProperties

(* The status after the events of a run that went through the reviews.     *)
LEMMA LastOfEight ==
  ASSUME NEW a, NEW b, NEW c, NEW s
  PROVE  LET stages == <<a, b, c>> \o SubSeq(s, 4, 8) IN stages[Len(stages)] = s[8]
<1> DEFINE S == {a, b, c} \cup {s[i] : i \in 4..8}
<1>1. <<a, b, c>> \in Seq(S) /\ Len(<<a, b, c>>) = 3
  OBVIOUS
<1>2. \A i \in 4..8 : s[i] \in S
  OBVIOUS
<1> HIDE DEF S
<1>3. SubSeq(s, 4, 8) \in Seq(S) /\ Len(SubSeq(s, 4, 8)) = 5 /\ SubSeq(s, 4, 8)[5] = s[8]
  BY <1>2, SubSeqProperties
<1> QED
  BY <1>1, <1>3, ConcatProperties

(* The policy preflight.                                                   *)
LEMMA PreflightSteps ==
  ASSUME PreflightDenied \/ PreflightAllowed PROVE StageStep
<1>1. CASE PreflightDenied
  BY <1>1 DEF PreflightDenied, Reach, StageStep, Concludes, Final, input, stored
<1>2. CASE PreflightAllowed
  <2>1. status' = Ladder[8]
    BY <1>2, LastOfEight DEF PreflightAllowed, Proceed, Reach
  <2>2. Ladder[8] = "STRATEGY_ROUTED"
    BY DEF Ladder
  <2> QED
    BY <1>2, <2>1, <2>2
    DEF PreflightAllowed, Proceed, StageStep, GoesOn, Stages, Final, input, stored
<1> QED
  BY <1>1, <1>2

(* The calls of the adapters, their exceptions and the resource guard.     *)
LEMMA AdapterSteps ==
  ASSUME status \notin Final, Construct \/ Execute \/ Verify \/ AdapterRaises
  PROVE  StageStep
<1> USE LastOfOne, LastOfTwo
    DEF Stop, Proceed, Reach, OverBudget, Unhandled, StageStep, Concludes, GoesOn,
        Stages, Final, input, stored
<1>1. CASE Construct
  BY <1>1 DEF Construct
<1>2. CASE Execute
  BY <1>2 DEF Execute
<1>3. CASE Verify
  BY <1>3 DEF Verify
<1>4. CASE AdapterRaises
  BY <1>4 DEF AdapterRaises
<1> QED
  BY <1>1, <1>2, <1>3, <1>4

(* An early return leaves a verdict: the one it returns, or UNKNOWN.       *)
LEMMA StopConcludes ==
  ASSUME NEW g, NEW statements, NEW severity, NEW more, NEW verdict \in Final, NEW stages,
         status \notin Final, Stop(g, statements, severity, more, verdict, stages),
         Append(stages, verdict)[Len(Append(stages, verdict))] = verdict
  PROVE  Concludes /\ UNCHANGED <<hasStore, stored>>
<1> DEFINE noted == AddRuntimeObligations(g, statements, severity)
<1>1. CASE Reach(Append(stages, verdict)) /\ pc' = "graph" /\ UNCHANGED <<input, final, stored>>
  BY <1>1 DEF Reach, Concludes, input
<1>2. CASE Unhandled(noted.graph, more) /\ UNCHANGED stored
  BY <1>2 DEF Unhandled, Reach, Concludes, Final, input
<1> QED
  BY <1>1, <1>2 DEF Stop

(* A stage that goes on is followed by another, without a verdict.         *)
LEMMA ProceedGoesOn ==
  ASSUME NEW next \in Stages, NEW g, NEW stages, Proceed(next, g, stages),
         stages[Len(stages)] \notin Final
  PROVE  GoesOn /\ UNCHANGED <<hasStore, stored>>
  BY DEF Proceed, Reach, GoesOn, input

(* The reviews and the promotion gate.                                     *)
LEMMA ReviewSteps ==
  ASSUME status \notin Final, ReleasePolicy \/ SafetyReview \/ AdversarialReview \/ Promote
  PROVE  StageStep
<1>1. CASE ReleasePolicy
  <2>1. CASE \E reasons : Stop(Gate(graph, "POLICY", "HIGH", FALSE), Stated(reasons), "HIGH",
                              reasons, "REJECTED", <<"POLICY_RELEASE">>)
    BY <2>1, StopConcludes, LastOfTwo DEF StageStep, Final
  <2>2. CASE Proceed("safety", Gate(graph, "POLICY", "HIGH", TRUE),
                     <<"POLICY_RELEASE", "POLICY_REVIEWED">>)
    BY <2>2, ProceedGoesOn DEF StageStep, Final, Stages
  <2> QED
    BY <1>1, <2>1, <2>2 DEF ReleasePolicy
<1>2. CASE SafetyReview
  <2>1. CASE Stop(Gate(graph, "SAFETY", "CRITICAL", FALSE), <<"stated">>, "CRITICAL", 1,
                  "REJECTED", << >>)
    BY <2>1, StopConcludes, LastOfOne DEF StageStep, Final
  <2>2. CASE Proceed("review", Gate(graph, "SAFETY", "CRITICAL", TRUE), <<"SAFETY_REVIEWED">>)
    BY <2>2, ProceedGoesOn DEF StageStep, Final, Stages
  <2> QED
    BY <1>2, <2>1, <2>2 DEF SafetyReview
<1>3. CASE AdversarialReview
  <2>1. CASE Stop(graph, <<"stated">>, "HIGH", 1, "REJECTED", << >>)
    BY <2>1, StopConcludes, LastOfOne DEF StageStep, Final
  <2>2. CASE \E g : Proceed("promote", g, <<"ADVERSARIAL_REVIEWED">>)
    BY <2>2, ProceedGoesOn DEF StageStep, Final, Stages
  <2> QED
    BY <1>3, <2>1, <2>2 DEF AdversarialReview
<1>4. CASE Promote
  BY <1>4 DEF Promote, Reach, StageStep, Concludes, Final, input, stored
<1> QED
  BY <1>1, <1>2, <1>3, <1>4

(* Every stage is taken from a state without a verdict.                    *)
StageActions ==
  \/ PreflightDenied \/ PreflightAllowed \/ Construct \/ Execute \/ Verify
  \/ AdapterRaises \/ ReleasePolicy \/ SafetyReview \/ AdversarialReview \/ Promote

(* A stage takes a run without a verdict and writes nothing.               *)
LEMMA StagesStep ==
  ASSUME IInv, StageActions
  PROVE  StageStep /\ pc \in Stages /\ status \notin Final /\ index = {}
<1>1. pc \in Stages
  BY DEF StageActions, PreflightDenied, PreflightAllowed, Construct, Execute, Verify,
         AdapterRaises, ReleasePolicy, SafetyReview, AdversarialReview, Promote, Stages
<1>2. status \notin Final /\ index = {}
  BY <1>1 DEF IInv, Stages
<1> QED
  BY <1>1, <1>2, PreflightSteps, AdapterSteps, ReviewSteps DEF StageActions

-----------------------------------------------------------------------------

(* The initial state satisfies the invariant.                              *)
LEMMA InitInv == Init => IInv
  BY DEF Init, IInv, Stages, Final, Files, Persisting, Progress

(* So does what a stage leaves: there is no row before the verdict.        *)
LEMMA StagePreserves ==
  ASSUME IInv, StageActions PROVE IInv'
<1>1. StageStep /\ index = {}
  BY StagesStep
<1>2. CASE GoesOn
  BY <1>1, <1>2 DEF StageStep, GoesOn, Stages, IInv, Files, Persisting, Progress, stored
<1>3. CASE Concludes
  BY <1>1, <1>3 DEF StageStep, Concludes, Stages, IInv, Files, Persisting, Progress, stored
<1> QED
  BY <1>1, <1>2, <1>3 DEF StageStep

(* The writes of the four files.                                           *)
FileWrites == WriteGraph \/ WriteArtifact \/ WriteAudit \/ WriteBundle

(* A write adds the file that comes next, of the record as it is.          *)
LEMMA WritePreserves ==
  ASSUME IInv, FileWrites \/ IndexArtifact PROVE IInv'
<1>1. /\ status' = status /\ Snapshot' = Snapshot /\ hasStore' = hasStore
      /\ status \in Final /\ index = {}
  BY DEF FileWrites, WriteGraph, WriteArtifact, WriteAudit, WriteBundle, IndexArtifact,
         Writing, record, input, Snapshot, IInv, Persisting, Files
<1> USE <1>1 DEF IInv, Writing, Files, Stages, Persisting, Progress
<1>2. CASE WriteGraph
  BY <1>2 DEF WriteGraph
<1>3. CASE WriteArtifact
  BY <1>3 DEF WriteArtifact
<1>4. CASE WriteAudit
  BY <1>4 DEF WriteAudit
<1>5. CASE WriteBundle
  BY <1>5 DEF WriteBundle
<1>6. CASE IndexArtifact
  BY <1>6 DEF IndexArtifact
<1> QED
  BY <1>2, <1>3, <1>4, <1>5, <1>6 DEF FileWrites

(* A write that fails leaves the verdict, and no row.                      *)
LEMMA FailurePreserves ==
  ASSUME IInv, PersistFails
  PROVE  IInv' /\ status' = status /\ events' = events /\ index = {} /\ index' = {}
<1>1. status \in Final /\ index = {} /\ index' = {}
  BY DEF IInv, PersistFails, Persisting, Files
<1>2. /\ status' = status /\ events' = events /\ hasStore' = hasStore
      /\ pc' \in {"raised", "graph"}
  BY <1>1 DEF PersistFails, Unhandled, record, input
<1>3. disk' = [file \in Files |-> disk'[file]]
  BY DEF IInv, PersistFails, Cut
<1> QED
  BY <1>1, <1>2, <1>3 DEF IInv, Files, Stages, Persisting, Progress

(* So does the death of the process.                                       *)
LEMMA CrashPreserves ==
  ASSUME IInv, Crash
  PROVE  IInv' /\ status' = status /\ events' = events /\ index = {} /\ index' = {}
<1>1. /\ status' = status /\ events' = events /\ hasStore' = hasStore
      /\ pc' = "crashed" /\ index = {} /\ index' = {}
  BY DEF Crash, record, input, IInv
<1>2. disk' = [file \in Files |-> disk'[file]]
  BY DEF IInv, Crash, Cut
<1> QED
  BY <1>1, <1>2 DEF IInv, Files, Stages, Persisting, Progress

(* The kinds of steps.                                                     *)
LEMMA NextIsOneOf ==
  Next <=> StageActions \/ FileWrites \/ IndexArtifact \/ PersistFails \/ Crash
  BY DEF Next, Run, StageActions, FileWrites

(* Every step preserves the invariant.                                     *)
LEMMA StepInv == IInv /\ [Next]_vars => IInv'
<1> SUFFICES ASSUME IInv, [Next]_vars PROVE IInv'
  OBVIOUS
<1>1. CASE UNCHANGED vars
  BY <1>1 DEF vars, IInv, Persisting, Progress, Snapshot
<1> QED
  BY <1>1, NextIsOneOf, StagePreserves, WritePreserves, FailurePreserves, CrashPreserves

(* The invariant holds in every reachable state.                           *)
LEMMA Invariance == Spec => []IInv
  BY InitInv, StepInv, PTL DEF Spec

-----------------------------------------------------------------------------

(* Pipeline.run: a verdict that has been reached stays, with the stages    *)
(* that led to it, whatever fails while it is persisted.                   *)
THEOREM VerdictStaysFinal == Spec => VerdictFinal
<1>1. IInv /\ [Next]_vars
        => [(status \in Final) => (status' = status /\ events' = events)]_vars
  <2> SUFFICES ASSUME IInv, Next, status \in Final
               PROVE  status' = status /\ events' = events
    OBVIOUS
  <2>1. ~StageActions
    BY StagesStep
  <2>2. CASE FileWrites \/ IndexArtifact
    BY <2>2 DEF FileWrites, WriteGraph, WriteArtifact, WriteAudit, WriteBundle,
                IndexArtifact, record
  <2> QED
    BY <2>1, <2>2, NextIsOneOf, FailurePreserves, CrashPreserves
<1> QED
  BY <1>1, Invariance, PTL DEF Spec, VerdictFinal

(* Pipeline._persist: a row of the control store says what the record says *)
(* and points to four whole files of that record, and a run that returned  *)
(* has left all of that behind.                                            *)
THEOREM PublicationIsWhole == Spec => []PublishedIsWhole
<1>1. IInv => PublishedIsWhole
  BY DEF IInv, PublishedIsWhole, WholeOnDisk, Progress, Files
<1> QED
  BY <1>1, Invariance, PTL

(* The one row of the index is the row that is read.                       *)
LEMMA OnlyChoice == ASSUME NEW x PROVE (CHOOSE s \in {x} : TRUE) = x
  OBVIOUS

(* A run decides once whether its artifact is released, and publishes that *)
(* decision and no other: what Jobs takes a run to be.                     *)
THEOREM RunImplementsOutcome == Spec => ImplementsOutcome
<1>1. Init => Promise!Init
  BY DEF Init, Promise!Init, Decided, Published, Final
<1>2. IInv /\ [Next]_vars => [Promise!Next]_(Promise!vars)
  <2> SUFFICES ASSUME IInv, [Next]_vars PROVE [Promise!Next]_(Promise!vars)
    OBVIOUS
  <2>1. CASE StageActions
    <3>1. StageStep /\ status \notin Final
      BY <2>1, StagesStep
    <3>2. Decided = "undecided" /\ Published' = Published
      BY <3>1 DEF Decided, Published, StageStep, stored
    <3>3. CASE GoesOn
      <4>1. Decided' = "undecided"
        BY <3>3 DEF Decided, GoesOn
      <4> QED
        BY <3>2, <4>1 DEF Promise!vars
    <3>4. CASE Concludes
      <4>1. Decided' \in {"released", "withheld"}
        BY <3>4 DEF Decided, Concludes, Outcome
      <4> QED
        BY <3>2, <4>1 DEF Promise!Next, Promise!Decide
    <3> QED
      BY <3>1, <3>3, <3>4 DEF StageStep
  <2>2. CASE FileWrites
    <3>1. status' = status /\ index' = index
      BY <2>2 DEF FileWrites, WriteGraph, WriteArtifact, WriteAudit, WriteBundle, record
    <3> QED
      BY <3>1 DEF Decided, Published, Promise!vars
  <2>3. CASE IndexArtifact
    <3>1. status \in Final /\ status' = status /\ index = {} /\ index' = {Snapshot}
      BY <2>3 DEF IndexArtifact, Writing, IInv, Persisting, record
    <3>2. (CHOOSE s \in index' : TRUE).status = status
      <4>1. (CHOOSE s \in {Snapshot} : TRUE) = Snapshot
        BY OnlyChoice
      <4>2. Snapshot.status = status
        BY DEF Snapshot
      <4> QED
        BY <3>1, <4>1, <4>2
    <3>3. Published = "none" /\ Published' = Outcome(status)
      BY <3>1, <3>2 DEF Published, Outcome
    <3>4. Decided = Outcome(status) /\ Decided' = Decided
      BY <3>1 DEF Decided, Outcome
    <3>5. Outcome(status) # "undecided"
      BY DEF Outcome
    <3> QED
      BY <3>3, <3>4, <3>5 DEF Promise!Next, Promise!Publish
  <2>4. CASE PersistFails \/ Crash
    BY <2>4, FailurePreserves, CrashPreserves DEF Decided, Published, Promise!vars
  <2>5. CASE UNCHANGED vars
    BY <2>5 DEF vars, Decided, Published, Promise!vars
  <2> QED
    BY <2>1, <2>2, <2>3, <2>4, <2>5, NextIsOneOf
<1> QED
  BY <1>1, <1>2, Invariance, PTL DEF Spec, ImplementsOutcome, Promise!Spec

-----------------------------------------------------------------------------
(* The stages of a run follow the table.                                   *)

(* The first status is one of them.                                        *)
LEMMA IntakeIsStatus == "INTAKE" \in RunStatuses
<1>1. Ladder[1] = "INTAKE" /\ 1 \in 1..Len(Ladder)
  BY DEF Ladder
<1> QED
  BY <1>1 DEF RunStatuses

(* The stages so far follow the table, and s is the status among them that *)
(* comes last.                                                             *)
Trail(stages) == <<"INTAKE">> \o stages

IsLast(trail, m, s) ==
  trail[m] = s /\ \A k \in m + 1..Len(trail) : trail[k] \notin RunStatuses

Led(stages, s) ==
  /\ stages \in Seq(StageNames) /\ s \in RunStatuses
  /\ AllowedIn(Trail(stages))
  /\ \E m \in 1..Len(Trail(stages)) : IsLast(Trail(stages), m, s)

(* Where a run is tells which status it has: transition() starts from it.  *)
Reached ==
  [preflight |-> "INTAKE", construct |-> "STRATEGY_ROUTED", execute |-> "ARTIFACT_CONSTRUCTED",
   verify |-> "EXECUTED", release |-> "VERIFIED", safety |-> "POLICY_REVIEWED",
   review |-> "SAFETY_REVIEWED", promote |-> "ADVERSARIAL_REVIEWED"]

(* TransitionsAllowed is not inductive: the next status is compared with   *)
(* the latest among the stages, which has to be that of the record.        *)
TableInv == IInv /\ Led(events, status) /\ (pc \in Stages => status = Reached[pc])

(* One more stage on the trail.                                            *)
LEMMA TrailGrows ==
  ASSUME NEW stages \in Seq(StageNames), NEW x \in StageNames
  PROVE  /\ stages \o <<x>> \in Seq(StageNames) /\ Trail(stages) \in Seq(StageNames)
         /\ Len(Trail(stages \o <<x>>)) = Len(Trail(stages)) + 1
         /\ \A k \in 1..Len(Trail(stages)) : Trail(stages \o <<x>>)[k] = Trail(stages)[k]
         /\ Trail(stages \o <<x>>)[Len(Trail(stages)) + 1] = x
<1>1. /\ <<x>> \in Seq(StageNames) /\ <<"INTAKE">> \in Seq(StageNames)
      /\ Len(<<x>>) = 1 /\ <<x>>[1] = x
  <2>1. "INTAKE" \in StageNames
    BY IntakeIsStatus DEF StageNames
  <2> QED
    BY <2>1, ShortLists
<1>2. Trail(stages) \in Seq(StageNames) /\ Len(Trail(stages)) \in Nat
  BY <1>1, ConcatProperties DEF Trail
<1>3. Trail(stages \o <<x>>) = Trail(stages) \o <<x>>
  BY <1>1, ConcatAssociative DEF Trail
<1> QED
  BY <1>1, <1>2, <1>3, ConcatProperties

(* A status that the table allows after the latest.                        *)
LEMMA Transition ==
  ASSUME NEW stages, NEW s, Led(stages, s), NEW x \in RunStatuses,
         x = "UNKNOWN" \/ x \in ALLOWED(s)
  PROVE  Led(stages \o <<x>>, x)
<1> DEFINE old == Trail(stages)
           new == Trail(stages \o <<x>>)
           n   == Len(old)
<1>1. /\ new \in Seq(StageNames) /\ stages \o <<x>> \in Seq(StageNames) /\ n \in Nat
      /\ Len(new) = n + 1 /\ new[n + 1] = x /\ \A k \in 1..n : new[k] = old[k]
  <2>1. stages \in Seq(StageNames) /\ x \in StageNames
    BY DEF Led, StageNames
  <2> QED
    BY <2>1, TrailGrows, LenProperties
<1>2. PICK m \in 1..n : IsLast(old, m, s)
  BY DEF Led
<1>3. AllowedIn(old)
  BY DEF Led
<1> HIDE DEF old, new, n
<1>4. AllowedIn(new)
  <2> SUFFICES ASSUME NEW i \in 1..n + 1, NEW j \in 1..n + 1, Follow(new, i, j)
               PROVE  new[j] = "UNKNOWN" \/ new[j] \in ALLOWED(new[i])
    BY <1>1 DEF AllowedIn
  <2>1. i \in 1..n
    BY <1>1 DEF Follow
  <2>2. CASE j = n + 1
    <3>1. i = m
      <4>1. ~(i < m)
        BY <1>1, <1>2, <2>1, <2>2 DEF Follow, IsLast, Led
      <4>2. ~(m < i)
        BY <1>1, <1>2, <2>1 DEF Follow, IsLast, n
      <4> QED
        BY <1>2, <2>1, <4>1, <4>2
    <3> QED
      BY <1>1, <1>2, <2>2, <3>1 DEF IsLast
  <2>3. CASE j \in 1..n
    <3>1. Follow(old, i, j)
      BY <1>1, <2>1, <2>3 DEF Follow
    <3> QED
      BY <1>1, <1>3, <2>1, <2>3, <3>1 DEF AllowedIn, n
  <2> QED
    BY <1>1, <2>2, <2>3
<1>5. IsLast(new, n + 1, x) /\ n + 1 \in 1..Len(new)
  BY <1>1 DEF IsLast
<1> QED
  BY <1>1, <1>4, <1>5 DEF Led, new

(* A stage that is no status.                                              *)
LEMMA PassingBy ==
  ASSUME NEW stages, NEW s, Led(stages, s), NEW x \in StageNames, x \notin RunStatuses
  PROVE  Led(stages \o <<x>>, s)
<1> DEFINE old == Trail(stages)
           new == Trail(stages \o <<x>>)
           n   == Len(old)
<1>1. /\ new \in Seq(StageNames) /\ stages \o <<x>> \in Seq(StageNames) /\ n \in Nat
      /\ Len(new) = n + 1 /\ new[n + 1] = x /\ \A k \in 1..n : new[k] = old[k]
  <2>1. stages \in Seq(StageNames) /\ x \in StageNames
    BY DEF Led, StageNames
  <2> QED
    BY <2>1, TrailGrows, LenProperties
<1>2. PICK m \in 1..n : IsLast(old, m, s)
  BY DEF Led
<1>3. AllowedIn(old) /\ s \in RunStatuses
  BY DEF Led
<1> HIDE DEF old, new, n
<1>4. AllowedIn(new)
  <2> SUFFICES ASSUME NEW i \in 1..n + 1, NEW j \in 1..n + 1, Follow(new, i, j)
               PROVE  new[j] = "UNKNOWN" \/ new[j] \in ALLOWED(new[i])
    BY <1>1 DEF AllowedIn
  <2>1. i \in 1..n /\ j \in 1..n
    BY <1>1 DEF Follow
  <2>2. Follow(old, i, j)
    BY <1>1, <2>1 DEF Follow
  <2> QED
    BY <1>1, <1>3, <2>1, <2>2 DEF AllowedIn, n
<1>5. IsLast(new, m, s) /\ m \in 1..Len(new)
  BY <1>1, <1>2 DEF IsLast, n
<1> QED
  BY <1>1, <1>3, <1>4, <1>5 DEF Led, new

(* A list of stages, one by one.                                           *)
LEMMA OneByOne ==
  ASSUME NEW stages \in Seq(StageNames), NEW list \in Seq(StageNames), NEW x \in StageNames
  PROVE  /\ stages \o Append(list, x) = (stages \o list) \o <<x>>
         /\ stages \o << >> = stages
<1>1. <<x>> \in Seq(StageNames) /\ << >> \in Seq(StageNames)
  BY ShortLists
<1>2. Append(list, x) = list \o <<x>>
  BY AppendIsConcat
<1> QED
  BY <1>1, <1>2, ConcatAssociative, ConcatEmptySeq

(* The rows of the table that a run takes.                                 *)
LEMMA TableRows ==
  /\ "INTENT_COMPILED" \in ALLOWED("INTAKE")
  /\ "ASSUMPTIONS_EXPOSED" \in ALLOWED("INTENT_COMPILED")
  /\ "TARGET_FORMALIZED" \in ALLOWED("ASSUMPTIONS_EXPOSED")
  /\ "CANDIDATES_GENERATED" \in ALLOWED("TARGET_FORMALIZED")
  /\ "FALSIFICATION" \in ALLOWED("CANDIDATES_GENERATED")
  /\ "OBSTRUCTION_CLASSIFIED" \in ALLOWED("FALSIFICATION")
  /\ "STRATEGY_ROUTED" \in ALLOWED("OBSTRUCTION_CLASSIFIED")
  /\ "ARTIFACT_CONSTRUCTED" \in ALLOWED("STRATEGY_ROUTED")
  /\ "EXECUTED" \in ALLOWED("ARTIFACT_CONSTRUCTED")
  /\ "VERIFIED" \in ALLOWED("EXECUTED")
  /\ "POLICY_REVIEWED" \in ALLOWED("VERIFIED")
  /\ "SAFETY_REVIEWED" \in ALLOWED("POLICY_REVIEWED")
  /\ "ADVERSARIAL_REVIEWED" \in ALLOWED("SAFETY_REVIEWED")
  /\ "CERTIFIED" \in ALLOWED("ADVERSARIAL_REVIEWED")
  /\ "CURATED" \in ALLOWED("CERTIFIED")
  /\ "RELEASED" \in ALLOWED("CURATED")
<1>1. \A i \in 1..16 : Ladder[i + 1] \in ALLOWED(Ladder[i])
  <2> SUFFICES ASSUME NEW i \in 1..16 PROVE Ladder[i + 1] \in ALLOWED(Ladder[i])
    OBVIOUS
  <2>1. Len(Ladder) = 17
    BY DEF Ladder
  <2> QED
    BY <2>1 DEF ALLOWED
<1>2. /\ Ladder[1] = "INTAKE" /\ Ladder[2] = "INTENT_COMPILED"
      /\ Ladder[3] = "ASSUMPTIONS_EXPOSED" /\ Ladder[4] = "TARGET_FORMALIZED"
      /\ Ladder[5] = "CANDIDATES_GENERATED" /\ Ladder[6] = "FALSIFICATION"
      /\ Ladder[7] = "OBSTRUCTION_CLASSIFIED" /\ Ladder[8] = "STRATEGY_ROUTED"
      /\ Ladder[9] = "ARTIFACT_CONSTRUCTED" /\ Ladder[10] = "EXECUTED"
      /\ Ladder[11] = "VERIFIED" /\ Ladder[12] = "POLICY_REVIEWED"
      /\ Ladder[13] = "SAFETY_REVIEWED" /\ Ladder[14] = "ADVERSARIAL_REVIEWED"
      /\ Ladder[15] = "CERTIFIED" /\ Ladder[16] = "CURATED" /\ Ladder[17] = "RELEASED"
  BY DEF Ladder
<1> HIDE DEF Ladder
<1>3. /\ Ladder[1 + 1] \in ALLOWED(Ladder[1]) /\ Ladder[2 + 1] \in ALLOWED(Ladder[2])
      /\ Ladder[3 + 1] \in ALLOWED(Ladder[3]) /\ Ladder[4 + 1] \in ALLOWED(Ladder[4])
      /\ Ladder[5 + 1] \in ALLOWED(Ladder[5]) /\ Ladder[6 + 1] \in ALLOWED(Ladder[6])
      /\ Ladder[7 + 1] \in ALLOWED(Ladder[7]) /\ Ladder[8 + 1] \in ALLOWED(Ladder[8])
  BY <1>1
<1>4. /\ Ladder[9 + 1] \in ALLOWED(Ladder[9]) /\ Ladder[10 + 1] \in ALLOWED(Ladder[10])
      /\ Ladder[11 + 1] \in ALLOWED(Ladder[11]) /\ Ladder[12 + 1] \in ALLOWED(Ladder[12])
      /\ Ladder[13 + 1] \in ALLOWED(Ladder[13]) /\ Ladder[14 + 1] \in ALLOWED(Ladder[14])
      /\ Ladder[15 + 1] \in ALLOWED(Ladder[15]) /\ Ladder[16 + 1] \in ALLOWED(Ladder[16])
  BY <1>1
<1> QED
  BY <1>2, <1>3, <1>4

(* Where a run may be rejected, and where it may end with less.            *)
LEMMA TableExits ==
  /\ \A s \in {"ASSUMPTIONS_EXPOSED", "STRATEGY_ROUTED", "VERIFIED", "POLICY_REVIEWED",
               "SAFETY_REVIEWED"} : "REJECTED" \in ALLOWED(s)
  /\ \A s \in {"ARTIFACT_CONSTRUCTED", "EXECUTED", "ADVERSARIAL_REVIEWED"} :
       "PARTIAL" \in ALLOWED(s)
<1>1. /\ Ladder[3] = "ASSUMPTIONS_EXPOSED" /\ Ladder[8] = "STRATEGY_ROUTED"
      /\ Ladder[9] = "ARTIFACT_CONSTRUCTED" /\ Ladder[10] = "EXECUTED"
      /\ Ladder[11] = "VERIFIED" /\ Ladder[12] = "POLICY_REVIEWED"
      /\ Ladder[13] = "SAFETY_REVIEWED" /\ Ladder[14] = "ADVERSARIAL_REVIEWED"
  BY DEF Ladder
<1>2. \A i \in (1..5) \cup (8..14) : "REJECTED" \in ALLOWED(Ladder[i])
  BY DEF ALLOWED
<1>3. \A i \in 8..14 : "PARTIAL" \in ALLOWED(Ladder[i])
  BY DEF ALLOWED
<1> HIDE DEF Ladder
<1>4. /\ "REJECTED" \in ALLOWED(Ladder[3]) /\ "REJECTED" \in ALLOWED(Ladder[8])
      /\ "REJECTED" \in ALLOWED(Ladder[11]) /\ "REJECTED" \in ALLOWED(Ladder[12])
      /\ "REJECTED" \in ALLOWED(Ladder[13])
      /\ "PARTIAL" \in ALLOWED(Ladder[9]) /\ "PARTIAL" \in ALLOWED(Ladder[10])
      /\ "PARTIAL" \in ALLOWED(Ladder[14])
  BY <1>2, <1>3
<1> QED
  BY <1>1, <1>4

(* The names that a run uses are of statuses or of the three stages.       *)
LEMMA NamesAreKnown ==
  /\ {Ladder[i] : i \in 1..17} \cup Final \subseteq RunStatuses
  /\ {"POLICY_PREFLIGHT", "POLICY_RELEASE", "OBLIGATION_PROMOTION_GATE"} \cap RunStatuses = {}
<1>1. Len(Ladder) = 17
  BY DEF Ladder
<1>2. {Ladder[i] : i \in 1..17} \cup Final = RunStatuses
  BY <1>1 DEF RunStatuses
<1>3. \A i \in 1..17 :
        Ladder[i] \notin {"POLICY_PREFLIGHT", "POLICY_RELEASE", "OBLIGATION_PROMOTION_GATE"}
  BY DEF Ladder
<1>4. Final \cap {"POLICY_PREFLIGHT", "POLICY_RELEASE", "OBLIGATION_PROMOTION_GATE"} = {}
  BY DEF Final
<1> QED
  BY <1>2, <1>3, <1>4

(* A list with one more stage, by what it holds.                           *)
LEMMA AppendedIs ==
  ASSUME NEW S, NEW list \in Seq(S), NEW x \in S, NEW longer \in Seq(S),
         Len(longer) = Len(list) + 1, longer[Len(list) + 1] = x,
         \A i \in 1..Len(list) : longer[i] = list[i]
  PROVE  Append(list, x) = longer
<1>1. /\ Append(list, x) \in Seq(S) /\ Len(Append(list, x)) = Len(list) + 1
      /\ \A i \in 1..Len(list) : Append(list, x)[i] = list[i]
      /\ Append(list, x)[Len(list) + 1] = x /\ Len(list) \in Nat
  BY AppendProperties, LenProperties
<1>2. \A i \in 1..Len(list) + 1 : Append(list, x)[i] = longer[i]
  BY <1>1
<1> QED
  BY <1>1, <1>2, SeqEqual

(* A list of two is one of one with one more.                              *)
LEMMA TwoInAll ==
  ASSUME NEW a, NEW b
  PROVE  Append(<<a>>, b) = <<a, b>>
<1> DEFINE S == {a, b}
           list == <<a>>
           longer == <<a, b>>
<1>1. a \in S /\ b \in S
  OBVIOUS
<1> HIDE DEF S
<1>2. list \in Seq(S) /\ Len(list) = 1 /\ longer \in Seq(S) /\ Len(longer) = 2
  BY <1>1
<1>3. longer[2] = b /\ \A i \in 1..1 : longer[i] = list[i]
  OBVIOUS
<1> HIDE DEF list, longer
<1>4. Append(list, b) = longer
  <2>1. Len(longer) = Len(list) + 1 /\ longer[Len(list) + 1] = b
    BY <1>2, <1>3
  <2>2. \A i \in 1..Len(list) : longer[i] = list[i]
    BY <1>2, <1>3
  <2> QED
    BY <1>1, <1>2, <2>1, <2>2, AppendedIs
<1> QED
  BY <1>4 DEF list, longer

(* A list of three is one of two with one more.                            *)
LEMMA ThreeInAll ==
  ASSUME NEW a, NEW b, NEW c
  PROVE  Append(<<a, b>>, c) = <<a, b, c>>
<1> DEFINE S == {a, b, c}
           list == <<a, b>>
           longer == <<a, b, c>>
<1>1. a \in S /\ b \in S /\ c \in S
  OBVIOUS
<1> HIDE DEF S
<1>2. list \in Seq(S) /\ Len(list) = 2 /\ longer \in Seq(S) /\ Len(longer) = 3
  BY <1>1
<1>3. longer[3] = c /\ \A i \in 1..2 : longer[i] = list[i]
  OBVIOUS
<1> HIDE DEF list, longer
<1>4. Append(list, c) = longer
  <2>1. Len(longer) = Len(list) + 1 /\ longer[Len(list) + 1] = c
    BY <1>2, <1>3
  <2>2. \A i \in 1..Len(list) : longer[i] = list[i]
    BY <1>2, <1>3
  <2> QED
    BY <1>1, <1>2, <2>1, <2>2, AppendedIs
<1> QED
  BY <1>4 DEF list, longer

(* A list of four is one of three with one more.                           *)
LEMMA FourInAll ==
  ASSUME NEW a, NEW b, NEW c, NEW d
  PROVE  Append(<<a, b, c>>, d) = <<a, b, c, d>>
<1> DEFINE S == {a, b, c, d}
           list == <<a, b, c>>
           longer == <<a, b, c, d>>
<1>1. a \in S /\ b \in S /\ c \in S /\ d \in S
  OBVIOUS
<1> HIDE DEF S
<1>2. list \in Seq(S) /\ Len(list) = 3 /\ longer \in Seq(S) /\ Len(longer) = 4
  BY <1>1
<1>3. longer[4] = d /\ \A i \in 1..3 : longer[i] = list[i]
  OBVIOUS
<1> HIDE DEF list, longer
<1>4. Append(list, d) = longer
  <2>1. Len(longer) = Len(list) + 1 /\ longer[Len(list) + 1] = d
    BY <1>2, <1>3
  <2>2. \A i \in 1..Len(list) : longer[i] = list[i]
    BY <1>2, <1>3
  <2> QED
    BY <1>1, <1>2, <2>1, <2>2, AppendedIs
<1> QED
  BY <1>4 DEF list, longer

(* A list of five is one of four with one more.                            *)
LEMMA FiveInAll ==
  ASSUME NEW a, NEW b, NEW c, NEW d, NEW e
  PROVE  Append(<<a, b, c, d>>, e) = <<a, b, c, d, e>>
<1> DEFINE S == {a, b, c, d, e}
           list == <<a, b, c, d>>
           longer == <<a, b, c, d, e>>
<1>1. a \in S /\ b \in S /\ c \in S /\ d \in S /\ e \in S
  OBVIOUS
<1> HIDE DEF S
<1>2. list \in Seq(S) /\ Len(list) = 4 /\ longer \in Seq(S) /\ Len(longer) = 5
  BY <1>1
<1>3. longer[5] = e /\ \A i \in 1..4 : longer[i] = list[i]
  OBVIOUS
<1> HIDE DEF list, longer
<1>4. Append(list, e) = longer
  <2>1. Len(longer) = Len(list) + 1 /\ longer[Len(list) + 1] = e
    BY <1>2, <1>3
  <2>2. \A i \in 1..Len(list) : longer[i] = list[i]
    BY <1>2, <1>3
  <2> QED
    BY <1>1, <1>2, <2>1, <2>2, AppendedIs
<1> QED
  BY <1>4 DEF list, longer

(* Tuples of names are sequences of names.                                 *)
LEMMA TuplesTyped ==
  ASSUME NEW a \in StageNames, NEW b \in StageNames, NEW c \in StageNames, NEW d \in StageNames
  PROVE  /\ << >> \in Seq(StageNames) /\ <<a>> \in Seq(StageNames)
         /\ <<a, b>> \in Seq(StageNames) /\ <<a, b, c>> \in Seq(StageNames)
         /\ <<a, b, c, d>> \in Seq(StageNames)
  OBVIOUS

(* From one status to the next by the table.                               *)
Row(s, x) == x \in RunStatuses /\ (x = "UNKNOWN" \/ x \in ALLOWED(s))

(* Rows of the table one after another.                                    *)
LEMMA OneMore ==
  ASSUME NEW stages, NEW s, Led(stages, s), NEW x, Row(s, x)
  PROVE  Led(stages \o <<x>>, x)
  BY Transition DEF Row

(* The last two.                                                           *)
LEMMA TwoMore ==
  ASSUME NEW stages, NEW s, Led(stages, s), NEW x, Row(s, x), NEW y, Row(x, y)
  PROVE  Led(stages \o <<x, y>>, y)
<1>1. Led(stages \o <<x>>, x)
  BY OneMore
<1>2. Led((stages \o <<x>>) \o <<y>>, y)
  BY <1>1, OneMore
<1>3. stages \in Seq(StageNames) /\ x \in StageNames /\ y \in StageNames
  BY DEF Led, Row, StageNames
<1>4. <<x>> \in Seq(StageNames)
  BY <1>3, ShortLists
<1>5. stages \o Append(<<x>>, y) = (stages \o <<x>>) \o <<y>>
  BY <1>3, <1>4, OneByOne
<1> QED
  BY <1>2, <1>5, TwoInAll

(* The five from the formal target to the route.                           *)
LEMMA FiveMore ==
  ASSUME NEW stages, NEW s, Led(stages, s), NEW a, NEW b, NEW c, NEW d, NEW e,
         Row(s, a), Row(a, b), Row(b, c), Row(c, d), Row(d, e)
  PROVE  Led(stages \o <<a, b, c, d, e>>, e)
<1>1. stages \in Seq(StageNames) /\ {a, b, c, d, e} \subseteq StageNames
  BY DEF Led, Row, StageNames
<1>2. /\ <<a, b>> \in Seq(StageNames) /\ <<a, b, c>> \in Seq(StageNames)
      /\ <<a, b, c, d>> \in Seq(StageNames)
  BY <1>1, TuplesTyped
<1>3. Led(stages \o <<a, b>>, b)
  BY TwoMore
<1>4. Led(stages \o <<a, b, c>>, c)
  <2>1. Led((stages \o <<a, b>>) \o <<c>>, c)
    BY <1>3, OneMore
  <2>2. stages \o Append(<<a, b>>, c) = (stages \o <<a, b>>) \o <<c>>
    BY <1>1, <1>2, OneByOne
  <2> QED
    BY <2>1, <2>2, ThreeInAll
<1>5. Led(stages \o <<a, b, c, d>>, d)
  <2>1. Led((stages \o <<a, b, c>>) \o <<d>>, d)
    BY <1>4, OneMore
  <2>2. stages \o Append(<<a, b, c>>, d) = (stages \o <<a, b, c>>) \o <<d>>
    BY <1>1, <1>2, OneByOne
  <2> QED
    BY <2>1, <2>2, FourInAll
<1>6. Led((stages \o <<a, b, c, d>>) \o <<e>>, e)
  BY <1>5, OneMore
<1>7. stages \o Append(<<a, b, c, d>>, e) = (stages \o <<a, b, c, d>>) \o <<e>>
  BY <1>1, <1>2, OneByOne
<1> QED
  BY <1>6, <1>7, FiveInAll

(* A run reaches one status.                                               *)
LEMMA ReachesOne ==
  ASSUME NEW x, Led(events, status), Row(status, x), Reach(<<x>>)
  PROVE  Led(events', status') /\ status' = x
<1>1. <<x>>[Len(<<x>>)] = x
  OBVIOUS
<1> QED
  BY <1>1, OneMore DEF Reach

(* Append(<< >>, x) is reached as <<x>> is.                                *)
LEMMA ReachesAppended ==
  ASSUME NEW x, Led(events, status), Row(status, x), Reach(Append(<< >>, x))
  PROVE  Led(events', status') /\ status' = x
<1>1. Append(<< >>, x) = <<x>>
  BY ShortLists, LastOfOne
<1> QED
  BY <1>1, ReachesOne

(* A run reaches two statuses one after the other.                         *)
LEMMA ReachesTwo ==
  ASSUME NEW x, NEW y, Led(events, status), Row(status, x), Row(x, y), Reach(Append(<<x>>, y))
  PROVE  Led(events', status') /\ status' = y
<1>1. Append(<<x>>, y) = <<x, y>> /\ <<x, y>>[Len(<<x, y>>)] = y
  BY TwoInAll
<1> QED
  BY <1>1, TwoMore DEF Reach

(* Either handler and an early return leave a trail by the table.          *)
LEMMA UnhandledLeads ==
  ASSUME NEW g, NEW more, Led(events, status), Unhandled(g, more)
  PROVE  Led(events', status') /\ pc' = "graph"
<1>1. Row(status, "UNKNOWN")
  BY NamesAreKnown DEF Row, Final
<1>2. CASE status \in Final
  BY <1>2 DEF Unhandled
<1>3. CASE status \notin Final
  BY <1>1, <1>3, ReachesOne DEF Unhandled
<1> QED
  BY <1>2, <1>3 DEF Unhandled

(* An early return with a verdict that the table allows.                   *)
LEMMA StopLeads ==
  ASSUME NEW g, NEW statements, NEW severity, NEW more, NEW verdict,
         Led(events, status), Row(status, verdict),
         Stop(g, statements, severity, more, verdict, << >>)
  PROVE  Led(events', status') /\ pc' = "graph"
  BY UnhandledLeads, ReachesAppended DEF Stop

(* The budget is exceeded after a status.                                  *)
LEMMA BudgetLeads ==
  ASSUME NEW g, NEW x, Led(events, status), Row(status, x), Row(x, "PARTIAL"),
         OverBudget(g, <<x>>)
  PROVE  Led(events', status') /\ pc' = "graph"
  BY ReachesTwo DEF OverBudget

(* A stage that reaches one status.                                        *)
LEMMA ProceedLeads ==
  ASSUME NEW next, NEW g, NEW x, Led(events, status), Row(status, x), Proceed(next, g, <<x>>)
  PROVE  Led(events', status') /\ status' = x /\ pc' = next
  BY ReachesOne DEF Proceed

(* The rows that a run takes, from where it is.                            *)
LEMMA RowsTaken ==
  /\ Row("INTAKE", "INTENT_COMPILED") /\ Row("INTENT_COMPILED", "ASSUMPTIONS_EXPOSED")
  /\ Row("ASSUMPTIONS_EXPOSED", "TARGET_FORMALIZED")
  /\ Row("TARGET_FORMALIZED", "CANDIDATES_GENERATED")
  /\ Row("CANDIDATES_GENERATED", "FALSIFICATION")
  /\ Row("FALSIFICATION", "OBSTRUCTION_CLASSIFIED")
  /\ Row("OBSTRUCTION_CLASSIFIED", "STRATEGY_ROUTED")
  /\ Row("STRATEGY_ROUTED", "ARTIFACT_CONSTRUCTED") /\ Row("ARTIFACT_CONSTRUCTED", "EXECUTED")
  /\ Row("EXECUTED", "VERIFIED") /\ Row("VERIFIED", "POLICY_REVIEWED")
  /\ Row("POLICY_REVIEWED", "SAFETY_REVIEWED") /\ Row("SAFETY_REVIEWED", "ADVERSARIAL_REVIEWED")
  /\ Row("ADVERSARIAL_REVIEWED", "CERTIFIED") /\ Row("CERTIFIED", "CURATED")
  /\ Row("CURATED", "RELEASED")
<1>1. \A i \in 1..17 : Ladder[i] \in RunStatuses
  BY NamesAreKnown
<1>2. /\ Ladder[2] = "INTENT_COMPILED" /\ Ladder[3] = "ASSUMPTIONS_EXPOSED"
      /\ Ladder[4] = "TARGET_FORMALIZED" /\ Ladder[5] = "CANDIDATES_GENERATED"
      /\ Ladder[6] = "FALSIFICATION" /\ Ladder[7] = "OBSTRUCTION_CLASSIFIED"
      /\ Ladder[8] = "STRATEGY_ROUTED" /\ Ladder[9] = "ARTIFACT_CONSTRUCTED"
      /\ Ladder[10] = "EXECUTED" /\ Ladder[11] = "VERIFIED" /\ Ladder[12] = "POLICY_REVIEWED"
      /\ Ladder[13] = "SAFETY_REVIEWED" /\ Ladder[14] = "ADVERSARIAL_REVIEWED"
      /\ Ladder[15] = "CERTIFIED" /\ Ladder[16] = "CURATED" /\ Ladder[17] = "RELEASED"
  BY DEF Ladder
<1>3. {Ladder[2], Ladder[3], Ladder[4], Ladder[5], Ladder[6], Ladder[7], Ladder[8], Ladder[9],
       Ladder[10], Ladder[11], Ladder[12], Ladder[13], Ladder[14], Ladder[15], Ladder[16],
       Ladder[17]} \subseteq RunStatuses
  BY <1>1
<1> QED
  BY <1>2, <1>3, TableRows DEF Row

(* The verdicts that a run may end with early.                             *)
LEMMA ExitsTaken ==
  /\ \A s \in {"ASSUMPTIONS_EXPOSED", "STRATEGY_ROUTED", "VERIFIED", "POLICY_REVIEWED",
               "SAFETY_REVIEWED"} : Row(s, "REJECTED")
  /\ \A s \in {"ARTIFACT_CONSTRUCTED", "EXECUTED", "ADVERSARIAL_REVIEWED"} : Row(s, "PARTIAL")
  BY TableExits, NamesAreKnown DEF Row, Final

(* The preflight is no status.                                             *)
LEMMA PreflightTrail ==
  ASSUME Led(events, "INTAKE")
  PROVE  Led(events \o <<"INTENT_COMPILED", "ASSUMPTIONS_EXPOSED", "POLICY_PREFLIGHT">>,
             "ASSUMPTIONS_EXPOSED")
<1> DEFINE two == <<"INTENT_COMPILED", "ASSUMPTIONS_EXPOSED">>
           x   == "POLICY_PREFLIGHT"
<1>1. Led(events \o two, "ASSUMPTIONS_EXPOSED")
  BY RowsTaken, TwoMore
<1>2. x \in StageNames /\ x \notin RunStatuses
  BY NamesAreKnown DEF StageNames
<1>3. two \in Seq(StageNames) /\ events \in Seq(StageNames)
  BY RowsTaken, TuplesTyped DEF Row, StageNames, Led
<1>4. Append(two, x) = <<"INTENT_COMPILED", "ASSUMPTIONS_EXPOSED", "POLICY_PREFLIGHT">>
  BY ThreeInAll
<1> HIDE DEF two, x
<1>5. Led((events \o two) \o <<x>>, "ASSUMPTIONS_EXPOSED")
  BY <1>1, <1>2, PassingBy
<1>6. events \o Append(two, x) = (events \o two) \o <<x>>
  BY <1>2, <1>3, OneByOne
<1> QED
  BY <1>4, <1>5, <1>6

(* The three stages of the preflight are names.                            *)
LEMMA PreflightTyped ==
  <<"INTENT_COMPILED", "ASSUMPTIONS_EXPOSED", "POLICY_PREFLIGHT">> \in Seq(StageNames)
<1>1. /\ "INTENT_COMPILED" \in StageNames /\ "ASSUMPTIONS_EXPOSED" \in StageNames
      /\ "POLICY_PREFLIGHT" \in StageNames
  BY RowsTaken DEF Row, StageNames
<1> QED
  BY <1>1, TuplesTyped

(* The policy preflight denies the run.                                    *)
LEMMA DeniedLeads ==
  ASSUME TableInv, PreflightDenied PROVE Led(events', status') /\ pc' = "graph"
<1> DEFINE three == <<"INTENT_COMPILED", "ASSUMPTIONS_EXPOSED", "POLICY_PREFLIGHT">>
           x     == "REJECTED"
<1>1. Led(events, "INTAKE")
  BY DEF TableInv, PreflightDenied, Stages, Reached
<1>2. Led(events \o three, "ASSUMPTIONS_EXPOSED") /\ Row("ASSUMPTIONS_EXPOSED", x)
  BY <1>1, PreflightTrail, ExitsTaken
<1>3. /\ three \in Seq(StageNames) /\ events \in Seq(StageNames) /\ x \in StageNames
  BY <1>2, PreflightTyped DEF Led, Row, StageNames
<1>4. Append(three, x)
        = <<"INTENT_COMPILED", "ASSUMPTIONS_EXPOSED", "POLICY_PREFLIGHT", "REJECTED">>
  BY FourInAll
<1>5. /\ pc' = "graph" /\ status' = "REJECTED"
      /\ events' = events \o <<"INTENT_COMPILED", "ASSUMPTIONS_EXPOSED", "POLICY_PREFLIGHT",
                               "REJECTED">>
  BY DEF PreflightDenied, Reach
<1>6. events' = events \o Append(three, x) /\ status' = x
  BY <1>4, <1>5
<1> HIDE DEF three, x
<1>7. Led((events \o three) \o <<x>>, x)
  BY <1>2, OneMore
<1>8. events \o Append(three, x) = (events \o three) \o <<x>>
  BY <1>3, OneByOne
<1> QED
  BY <1>5, <1>6, <1>7, <1>8

(* The stages from the formal target to the route.                         *)
LEMMA RouteStages ==
  SubSeq(Ladder, 4, 8)
    = <<"TARGET_FORMALIZED", "CANDIDATES_GENERATED", "FALSIFICATION",
        "OBSTRUCTION_CLASSIFIED", "STRATEGY_ROUTED">>
<1> DEFINE five == <<"TARGET_FORMALIZED", "CANDIDATES_GENERATED", "FALSIFICATION",
                     "OBSTRUCTION_CLASSIFIED", "STRATEGY_ROUTED">>
           part == SubSeq(Ladder, 4, 8)
           S    == {Ladder[i] : i \in 4..8}
<1>1. \A i \in 4..8 : Ladder[i] \in S
  OBVIOUS
<1>2. /\ Ladder[4] = five[1] /\ Ladder[5] = five[2] /\ Ladder[6] = five[3]
      /\ Ladder[7] = five[4] /\ Ladder[8] = five[5]
  BY DEF Ladder
<1>3. Len(five) = 5 /\ five \in Seq({five[1], five[2], five[3], five[4], five[5]})
  OBVIOUS
<1> HIDE DEF five, S, Ladder
<1>4. /\ part \in Seq(S) /\ Len(part) = 5 /\ part[1] = Ladder[4] /\ part[2] = Ladder[5]
      /\ part[3] = Ladder[6] /\ part[4] = Ladder[7] /\ part[5] = Ladder[8]
  BY <1>1, SubSeqProperties
<1>5. {five[1], five[2], five[3], five[4], five[5]} \subseteq S
  BY <1>1, <1>2
<1>6. five \in Seq(S)
  BY <1>3, <1>5
<1> HIDE DEF part
<1>7. \A i \in 1..5 : part[i] = five[i]
  BY <1>2, <1>4
<1>8. part = five
  BY <1>3, <1>4, <1>6, <1>7, SeqEqual
<1> QED
  BY <1>8 DEF part, five

(* The policy preflight lets the run go on.                                *)
LEMMA AllowedLeads ==
  ASSUME TableInv, PreflightAllowed
  PROVE  Led(events', status') /\ pc' = "construct" /\ status' = Reached[pc']
<1> DEFINE three == <<"INTENT_COMPILED", "ASSUMPTIONS_EXPOSED", "POLICY_PREFLIGHT">>
           five  == <<"TARGET_FORMALIZED", "CANDIDATES_GENERATED", "FALSIFICATION",
                      "OBSTRUCTION_CLASSIFIED", "STRATEGY_ROUTED">>
<1>1. Led(events, "INTAKE")
  BY DEF TableInv, PreflightAllowed, Stages, Reached
<1>2. /\ pc' = "construct" /\ events' = events \o (three \o SubSeq(Ladder, 4, 8))
      /\ status' = (three \o SubSeq(Ladder, 4, 8))[Len(three \o SubSeq(Ladder, 4, 8))]
  BY DEF PreflightAllowed, Proceed, Reach
<1>3. status' = "STRATEGY_ROUTED"
  <2>1. Ladder[8] = "STRATEGY_ROUTED"
    BY DEF Ladder
  <2> QED
    BY <1>2, <2>1, LastOfEight
<1>4. Led(events \o three, "ASSUMPTIONS_EXPOSED")
  BY <1>1, PreflightTrail
<1>5. five \in Seq(StageNames) /\ three \in Seq(StageNames) /\ events \in Seq(StageNames)
  <2>1. {"TARGET_FORMALIZED", "CANDIDATES_GENERATED", "FALSIFICATION",
         "OBSTRUCTION_CLASSIFIED", "STRATEGY_ROUTED"} \subseteq StageNames
    BY RowsTaken DEF Row, StageNames
  <2>2. five \in Seq(StageNames)
    BY <2>1
  <2> QED
    BY <1>1, <2>2, PreflightTyped DEF Led
<1>6. SubSeq(Ladder, 4, 8) = five
  BY RouteStages
<1>7. Led((events \o three) \o five, "STRATEGY_ROUTED")
  <2> HIDE DEF three
  <2> QED
    BY <1>4, RowsTaken, FiveMore
<1> HIDE DEF three, five
<1>8. events \o (three \o five) = (events \o three) \o five
  BY <1>5, ConcatAssociative
<1>9. "STRATEGY_ROUTED" = Reached["construct"]
  BY DEF Reached
<1> QED
  BY <1>2, <1>3, <1>6, <1>7, <1>8, <1>9

(* A review that is no status, and the status after it.                    *)
LEMMA ReviewTrail ==
  ASSUME NEW n \in {"POLICY_RELEASE", "OBLIGATION_PROMOTION_GATE"},
         NEW x, Led(events, status), Row(status, x)
  PROVE  Led(events \o <<n, x>>, x) /\ <<n, x>>[Len(<<n, x>>)] = x /\ Append(<<n>>, x) = <<n, x>>
<1>1. n \in StageNames /\ n \notin RunStatuses
  BY NamesAreKnown DEF StageNames
<1>2. x \in StageNames /\ events \in Seq(StageNames)
  BY DEF Led, Row, StageNames
<1>3. <<n>> \in Seq(StageNames)
  BY <1>1, ShortLists
<1>4. Led(events \o <<n>>, status)
  BY <1>1, PassingBy
<1>5. Led((events \o <<n>>) \o <<x>>, x)
  BY <1>4, OneMore
<1>6. events \o Append(<<n>>, x) = (events \o <<n>>) \o <<x>>
  BY <1>2, <1>3, OneByOne
<1>7. Append(<<n>>, x) = <<n, x>>
  BY TwoInAll
<1> QED
  BY <1>5, <1>6, <1>7

(* What a stage does to the record: the trail goes on by the table, and the*)
(* status is the one that the next stage starts from.                      *)
Leads == Led(events', status') /\ (pc' \in Stages => status' = Reached[pc'])

(* The calls of the adapters.                                              *)
LEMMA AdaptersLead ==
  ASSUME TableInv, Construct \/ Execute \/ Verify \/ AdapterRaises PROVE Leads
<1>1. Led(events, status) /\ "graph" \notin Stages
  BY DEF TableInv, Stages
<1>2. CASE Construct
  <2>1. status = "STRATEGY_ROUTED"
    BY <1>2 DEF Construct, TableInv, Stages, Reached
  <2>2. /\ Row(status, "REJECTED") /\ Row(status, "ARTIFACT_CONSTRUCTED")
        /\ Row("ARTIFACT_CONSTRUCTED", "PARTIAL")
    BY <2>1, RowsTaken, ExitsTaken
  <2>3. CASE \E g, o, more : Stop(g, o, "HIGH", more, "REJECTED", << >>)
    BY <1>1, <2>2, <2>3, StopLeads DEF Leads
  <2>4. CASE \E g : Proceed("execute", g, <<"ARTIFACT_CONSTRUCTED">>)
    BY <1>1, <2>2, <2>4, ProceedLeads DEF Leads, Reached
  <2>5. CASE \E g : OverBudget(g, <<"ARTIFACT_CONSTRUCTED">>)
    BY <1>1, <2>2, <2>5, BudgetLeads DEF Leads
  <2> QED
    BY <1>2, <2>3, <2>4, <2>5 DEF Construct
<1>3. CASE Execute
  <2>1. status = "ARTIFACT_CONSTRUCTED"
    BY <1>3 DEF Execute, TableInv, Stages, Reached
  <2>2. /\ Row(status, "PARTIAL") /\ Row(status, "EXECUTED") /\ Row("EXECUTED", "PARTIAL")
    BY <2>1, RowsTaken, ExitsTaken
  <2>3. CASE \E g, o, more : Stop(g, o, "HIGH", more, "PARTIAL", << >>)
    BY <1>1, <2>2, <2>3, StopLeads DEF Leads
  <2>4. CASE \E g : Proceed("verify", g, <<"EXECUTED">>)
    BY <1>1, <2>2, <2>4, ProceedLeads DEF Leads, Reached
  <2>5. CASE \E g : OverBudget(g, <<"EXECUTED">>)
    BY <1>1, <2>2, <2>5, BudgetLeads DEF Leads
  <2>6. CASE \E g, more : Unhandled(g, more)
    BY <1>1, <2>6, UnhandledLeads DEF Leads
  <2> QED
    BY <1>3, <2>3, <2>4, <2>5, <2>6 DEF Execute
<1>4. CASE Verify
  <2>1. status = "EXECUTED"
    BY <1>4 DEF Verify, TableInv, Stages, Reached
  <2>2. Row(status, "PARTIAL") /\ Row(status, "VERIFIED")
    BY <2>1, RowsTaken, ExitsTaken
  <2>3. CASE \E g, o, more : Stop(g, o, "HIGH", more, "PARTIAL", << >>)
    BY <1>1, <2>2, <2>3, StopLeads DEF Leads
  <2>4. CASE \E g : Proceed("release", g, <<"VERIFIED">>)
    BY <1>1, <2>2, <2>4, ProceedLeads DEF Leads, Reached
  <2> QED
    BY <1>4, <2>3, <2>4 DEF Verify
<1>5. CASE AdapterRaises
  BY <1>1, <1>5, UnhandledLeads DEF AdapterRaises, Leads
<1> QED
  BY <1>2, <1>3, <1>4, <1>5

(* The reviews.                                                            *)
LEMMA ReviewsLead ==
  ASSUME TableInv, ReleasePolicy \/ SafetyReview \/ AdversarialReview PROVE Leads
<1>1. Led(events, status) /\ "graph" \notin Stages
  BY DEF TableInv, Stages
<1>2. CASE ReleasePolicy
  <2>1. status = "VERIFIED"
    BY <1>2 DEF ReleasePolicy, TableInv, Stages, Reached
  <2>2. Row(status, "REJECTED") /\ Row(status, "POLICY_REVIEWED")
    BY <2>1, RowsTaken, ExitsTaken
  <2>3. CASE \E g, o, more : Stop(g, o, "HIGH", more, "REJECTED", <<"POLICY_RELEASE">>)
    <3>1. CASE \E g, more : Unhandled(g, more)
      BY <1>1, <3>1, UnhandledLeads DEF Leads
    <3>2. CASE Reach(Append(<<"POLICY_RELEASE">>, "REJECTED")) /\ pc' = "graph"
      BY <1>1, <2>2, <3>2, ReviewTrail DEF Leads, Reach
    <3> QED
      BY <2>3, <3>1, <3>2 DEF Stop
  <2>4. CASE \E g : Proceed("safety", g, <<"POLICY_RELEASE", "POLICY_REVIEWED">>)
    BY <1>1, <2>2, <2>4, ReviewTrail DEF Leads, Proceed, Reach, Reached
  <2> QED
    BY <1>2, <2>3, <2>4 DEF ReleasePolicy
<1>3. CASE SafetyReview
  <2>1. status = "POLICY_REVIEWED"
    BY <1>3 DEF SafetyReview, TableInv, Stages, Reached
  <2>2. Row(status, "REJECTED") /\ Row(status, "SAFETY_REVIEWED")
    BY <2>1, RowsTaken, ExitsTaken
  <2>3. CASE \E g, o : Stop(g, o, "CRITICAL", 1, "REJECTED", << >>)
    BY <1>1, <2>2, <2>3, StopLeads DEF Leads
  <2>4. CASE \E g : Proceed("review", g, <<"SAFETY_REVIEWED">>)
    BY <1>1, <2>2, <2>4, ProceedLeads DEF Leads, Reached
  <2> QED
    BY <1>3, <2>3, <2>4 DEF SafetyReview
<1>4. CASE AdversarialReview
  <2>1. status = "SAFETY_REVIEWED"
    BY <1>4 DEF AdversarialReview, TableInv, Stages, Reached
  <2>2. Row(status, "REJECTED") /\ Row(status, "ADVERSARIAL_REVIEWED")
    BY <2>1, RowsTaken, ExitsTaken
  <2>3. CASE \E g, o : Stop(g, o, "HIGH", 1, "REJECTED", << >>)
    BY <1>1, <2>2, <2>3, StopLeads DEF Leads
  <2>4. CASE \E g : Proceed("promote", g, <<"ADVERSARIAL_REVIEWED">>)
    BY <1>1, <2>2, <2>4, ProceedLeads DEF Leads, Reached
  <2> QED
    BY <1>4, <2>3, <2>4 DEF AdversarialReview
<1> QED
  BY <1>2, <1>3, <1>4

(* The promotion gate.                                                     *)
LEMMA PromotionLeads ==
  ASSUME TableInv, Promote PROVE Leads
<1> DEFINE gate == "OBLIGATION_PROMOTION_GATE"
<1>1. Led(events, status) /\ "graph" \notin Stages /\ pc' = "graph"
  BY DEF TableInv, Stages, Promote
<1>2. status = "ADVERSARIAL_REVIEWED"
  BY DEF Promote, TableInv, Stages, Reached
<1>3. /\ Row(status, "PARTIAL") /\ Row(status, "CERTIFIED") /\ Row("CERTIFIED", "CURATED")
      /\ Row("CURATED", "RELEASED")
  BY <1>2, RowsTaken, ExitsTaken
<1>4. CASE Reach(<<gate, "PARTIAL">>)
  BY <1>1, <1>3, <1>4, ReviewTrail DEF Leads, Reach
<1>5. CASE Reach(<<gate, "CERTIFIED", "CURATED", "RELEASED">>)
  <2>1. /\ status' = "RELEASED"
        /\ events' = events \o <<gate, "CERTIFIED", "CURATED", "RELEASED">>
    BY <1>5 DEF Reach
  <2>2. Led(events \o <<gate, "CERTIFIED">>, "CERTIFIED")
    BY <1>1, <1>3, ReviewTrail
  <2>3. /\ events \in Seq(StageNames) /\ gate \in StageNames /\ "CERTIFIED" \in StageNames
        /\ "CURATED" \in StageNames /\ "RELEASED" \in StageNames
    BY <1>1, <1>3 DEF Led, Row, StageNames
  <2>4. /\ <<gate, "CERTIFIED">> \in Seq(StageNames)
        /\ <<gate, "CERTIFIED", "CURATED">> \in Seq(StageNames)
    BY <2>3, TuplesTyped
  <2>5. Led((events \o <<gate, "CERTIFIED">>) \o <<"CURATED">>, "CURATED")
    BY <1>3, <2>2, OneMore
  <2>6. Append(<<gate, "CERTIFIED">>, "CURATED") = <<gate, "CERTIFIED", "CURATED">>
    BY ThreeInAll
  <2>7. Led(events \o <<gate, "CERTIFIED", "CURATED">>, "CURATED")
    <3>1. events \o Append(<<gate, "CERTIFIED">>, "CURATED")
            = (events \o <<gate, "CERTIFIED">>) \o <<"CURATED">>
      BY <2>3, <2>4, OneByOne
    <3> QED
      BY <2>5, <2>6, <3>1
  <2>8. Led((events \o <<gate, "CERTIFIED", "CURATED">>) \o <<"RELEASED">>, "RELEASED")
    BY <1>3, <2>7, OneMore
  <2>9. Append(<<gate, "CERTIFIED", "CURATED">>, "RELEASED")
          = <<gate, "CERTIFIED", "CURATED", "RELEASED">>
    BY FourInAll
  <2>10. Led(events \o <<gate, "CERTIFIED", "CURATED", "RELEASED">>, "RELEASED")
    <3>1. events \o Append(<<gate, "CERTIFIED", "CURATED">>, "RELEASED")
            = (events \o <<gate, "CERTIFIED", "CURATED">>) \o <<"RELEASED">>
      BY <2>3, <2>4, OneByOne
    <3> QED
      BY <2>8, <2>9, <3>1
  <2> QED
    BY <1>1, <2>1, <2>10 DEF Leads
<1> QED
  BY <1>4, <1>5 DEF Promote

(* The initial state: nothing has been reached but the intake.             *)
LEMMA TableInit == Init => TableInv
<1> SUFFICES ASSUME Init PROVE TableInv
  OBVIOUS
<1>1. events = << >> /\ status = "INTAKE" /\ pc = "preflight"
  BY DEF Init
<1>2. << >> \in Seq(StageNames) /\ <<"INTAKE">> \in Seq(StageNames)
  BY IntakeIsStatus, ShortLists DEF StageNames
<1>3. Trail(events) = <<"INTAKE">>
  BY <1>1, <1>2, ConcatEmptySeq DEF Trail
<1>4. AllowedIn(<<"INTAKE">>) /\ IsLast(<<"INTAKE">>, 1, "INTAKE")
  BY DEF AllowedIn, Follow, IsLast
<1>5. Led(events, status)
  BY <1>1, <1>2, <1>3, <1>4, IntakeIsStatus DEF Led
<1> QED
  BY <1>1, <1>5, InitInv DEF TableInv, Reached

(* Every step goes on by the table or leaves the record alone.             *)
LEMMA TableStep == TableInv /\ [Next]_vars => TableInv'
<1> SUFFICES ASSUME TableInv, [Next]_vars PROVE TableInv'
  OBVIOUS
<1>1. IInv /\ IInv'
  BY StepInv DEF TableInv
<1>2. CASE StageActions
  <2>1. Leads
    BY <1>2, AllowedLeads, DeniedLeads, AdaptersLead, ReviewsLead, PromotionLeads
    DEF StageActions, Leads, Stages
  <2> QED
    BY <1>1, <2>1 DEF TableInv, Leads
<1>3. CASE ~StageActions
  <2>1. status' = status /\ events' = events
    BY <1>1, <1>3, NextIsOneOf, FailurePreserves, CrashPreserves
    DEF FileWrites, WriteGraph, WriteArtifact, WriteAudit, WriteBundle, IndexArtifact,
        record, vars
  <2>2. pc' \in Stages => pc' = pc
    BY <1>3, NextIsOneOf
    DEF FileWrites, WriteGraph, WriteArtifact, WriteAudit, WriteBundle, IndexArtifact,
        PersistFails, Unhandled, Crash, Stages, Files, vars
  <2> QED
    BY <1>1, <2>1, <2>2 DEF TableInv
<1> QED
  BY <1>2, <1>3

(* Pipeline.transition never raises: at every step of every run each status*)
(* follows the one before it by the table of state_machine.py, but for the *)
(* UNKNOWN that the exception handler assigns.                             *)
THEOREM TableIsFollowed == Spec => []TransitionsAllowed
<1>1. TableInv => TransitionsAllowed
  BY DEF TableInv, Led, Trail, TransitionsAllowed
<1> QED
  BY <1>1, TableInit, TableStep, PTL DEF Spec

-----------------------------------------------------------------------------
(* The graph of a run.                                                     *)

(* The first node is the intent of the task, and it is open.               *)
Intended(g) ==
  /\ 1 \in NodeIds(g)
  /\ g.nodes[1].kind = "INTENT" /\ g.nodes[1].status = "OPEN"
  /\ g.nodes[1].severity = "HIGH" /\ g.nodes[1].blocking

ImposedOf(g, exempt) == {n \in NodeIds(g) \ exempt : g.nodes[n].source = "pipeline"}

(* The pipeline has imposed k duties so far, each open or discharged.      *)
Dutiful(g, exempt, k) ==
  /\ exempt \subseteq NodeIds(g) /\ 1 \in NodeIds(g)
  /\ Cardinality(ImposedOf(g, exempt)) = k
  /\ \A n \in ImposedOf(g, exempt) :
       /\ g.nodes[n].kind # "EVIDENCE" /\ g.nodes[n].blocking
       /\ g.nodes[n].severity \in {"HIGH", "CRITICAL"}
       /\ g.nodes[n].status \in {"OPEN", "DISCHARGED"}

(* h is a later state of the graph g: the intent is as it was.             *)
Awaits(g, h) == h.nodes[1].status = g.nodes[1].status

(* ... the pipeline has imposed no duty, and discharged some at most.      *)
Spares(g, h) ==
  /\ \A n \in NodeIds(h) \ NodeIds(g) : h.nodes[n].source # "pipeline"
  /\ \A n \in NodeIds(g) :
       g.nodes[n].source = "pipeline" => h.nodes[n].status \in {g.nodes[n].status, "DISCHARGED"}

(* What stays as it is over two operations stays over both.                *)
LEMMA SparesTransitive ==
  ASSUME NEW f, NEW g, NEW h, NEW exempt, Sound(f, exempt),
         Improves(f, g, exempt), Improves(g, h, exempt), Spares(f, g), Spares(g, h)
  PROVE  Spares(f, h)
<1>1. f \in Graph /\ g \in Graph /\ h \in Graph
  BY DEF Sound, Improves
<1>2. NodeIds(f) \subseteq NodeIds(g) /\ NodeIds(g) \subseteq NodeIds(h)
  BY <1>1, GraphTyped DEF Improves, Keeps, Grown, NodeIds
<1>3. /\ \A n \in NodeIds(f) : g.nodes[n].source = f.nodes[n].source
      /\ \A n \in NodeIds(g) : h.nodes[n].source = g.nodes[n].source
  BY DEF Improves, Keeps, Grown, Identity
<1> QED
  BY <1>2, <1>3 DEF Spares

(* An operation that touches no node.                                      *)
LEMMA SameNodes ==
  ASSUME NEW g, NEW h, h.nodes = g.nodes
  PROVE  Awaits(g, h) /\ Spares(g, h)
  BY DEF Awaits, Spares, NodeIds

(* What they keep.                                                         *)
LEMMA IntendedKept ==
  ASSUME NEW g, NEW h, NEW exempt, Sound(g, exempt), Improves(g, h, exempt),
         Intended(g), Awaits(g, h)
  PROVE  Intended(h)
<1>1. g \in Graph /\ h \in Graph
  BY DEF Sound, Improves
<1>2. NodeIds(g) \subseteq NodeIds(h)
  BY <1>1, GraphTyped DEF Improves, Keeps, Grown, NodeIds
<1>3. Identity(h.nodes[1]) = Identity(g.nodes[1])
  BY DEF Intended, Improves, Keeps, Grown
<1> QED
  BY <1>2, <1>3 DEF Intended, Awaits, Identity

(* The duties stand.                                                       *)
LEMMA DutifulKept ==
  ASSUME NEW g, NEW h, NEW exempt, Sound(g, exempt), Improves(g, h, exempt),
         NEW k, Dutiful(g, exempt, k), Spares(g, h)
  PROVE  Dutiful(h, exempt, k)
<1>1. g \in Graph /\ h \in Graph
  BY DEF Sound, Improves
<1>2. NodeIds(g) \subseteq NodeIds(h)
  BY <1>1, GraphTyped DEF Improves, Keeps, Grown, NodeIds
<1>3. \A n \in NodeIds(g) :
        /\ h.nodes[n].kind = g.nodes[n].kind /\ h.nodes[n].severity = g.nodes[n].severity
        /\ h.nodes[n].blocking = g.nodes[n].blocking /\ h.nodes[n].source = g.nodes[n].source
  BY DEF Improves, Keeps, Grown, Identity
<1>4. ImposedOf(h, exempt) = ImposedOf(g, exempt)
  BY <1>2, <1>3 DEF ImposedOf, Spares
<1>5. ASSUME NEW n \in ImposedOf(g, exempt)
      PROVE  /\ h.nodes[n].kind # "EVIDENCE" /\ h.nodes[n].blocking
             /\ h.nodes[n].severity \in {"HIGH", "CRITICAL"}
             /\ h.nodes[n].status \in {"OPEN", "DISCHARGED"}
  BY <1>3 DEF ImposedOf, Dutiful, Spares
<1> QED
  BY <1>2, <1>4, <1>5 DEF Dutiful

(* A node that is added.                                                   *)
LEMMA AddingKeeps ==
  ASSUME NEW g, NEW exempt, Sound(g, exempt), 1 \in NodeIds(g), NEW node \in Fresh
  PROVE  LET h == AddNode(g, node)
         IN  /\ Improves(g, h, exempt) /\ Sound(h, exempt) /\ Awaits(g, h)
             /\ NodeIds(h) = NodeIds(g) \cup {Latest(g) + 1}
             /\ Latest(h) = Latest(g) + 1 /\ h.nodes[Latest(h)] = node
             /\ \A n \in NodeIds(g) : h.nodes[n] = g.nodes[n]
             /\ node.source # "pipeline" => Spares(g, h)
<1> DEFINE h == AddNode(g, node)
<1>1. g \in Graph /\ g.nodes \in Seq(Node) /\ Len(g.nodes) \in Nat /\ node \in Node
  BY GraphTyped DEF Sound, Fresh
<1>2. Improves(g, h, exempt) /\ Sound(h, exempt)
  BY AddNodeSound DEF Improves
<1>3. h.nodes = Append(g.nodes, node)
  BY <1>1, AddNodeShape
<1>4. /\ Len(h.nodes) = Len(g.nodes) + 1 /\ h.nodes[Len(g.nodes) + 1] = node
      /\ \A n \in 1..Len(g.nodes) : h.nodes[n] = g.nodes[n]
  BY <1>1, <1>3, AppendProperties
<1> HIDE DEF h
<1>5. NodeIds(h) = NodeIds(g) \cup {Len(g.nodes) + 1}
  BY <1>1, <1>4 DEF NodeIds
<1>6. Awaits(g, h) /\ (node.source # "pipeline" => Spares(g, h))
  BY <1>4, <1>5 DEF Awaits, Spares, NodeIds
<1> QED
  BY <1>2, <1>4, <1>5, <1>6 DEF h, Latest, NodeIds

(* A node that is given a status.                                          *)
LEMMA SettingKeeps ==
  ASSUME NEW g \in Graph, NEW result, NEW n, NEW statuses \in SUBSET ObligationStatuses,
         result.ok \in BOOLEAN, SetsAtMost(g, result, n, statuses)
  PROVE  /\ n # 1 /\ 1 \in NodeIds(g) => Awaits(g, result.graph)
         /\ g.nodes[n].source # "pipeline" \/ statuses = {"DISCHARGED"} => Spares(g, result.graph)
         /\ Latest(result.graph) = Latest(g)
<1> DEFINE h == result.graph
<1>1. CASE ~result.ok
  <2>1. h.nodes = g.nodes
    BY <1>1 DEF SetsAtMost
  <2> QED
    BY <2>1, SameNodes DEF Latest
<1>2. CASE result.ok
  <2>1. PICK value \in statuses, why \in Explanations :
          n \in NodeIds(g) /\ h.nodes = WithStatus(g.nodes, n, value, why)
    BY <1>2 DEF SetsAtMost
  <2>2. /\ Len(h.nodes) = Len(g.nodes) /\ h.nodes[n].status = value
        /\ \A m \in NodeIds(g) : m # n => h.nodes[m] = g.nodes[m]
    BY <2>1, GraphTyped, WithStatusIs DEF NodeIds
  <2> HIDE DEF h
  <2> QED
    BY <2>2 DEF Awaits, Spares, NodeIds, Latest, h
<1> QED
  BY <1>1, <1>2

(* discharge.                                                              *)
LEMMA DischargeKeeps ==
  ASSUME NEW g, NEW exempt, Sound(g, exempt), NEW n \in Nat, NEW evidence \in Seq(Nat)
  PROVE  LET result == Discharge(g, n, evidence)
         IN  /\ result.ok \in BOOLEAN /\ Improves(g, result.graph, exempt)
             /\ Sound(result.graph, exempt) /\ Spares(g, result.graph)
             /\ n # 1 /\ 1 \in NodeIds(g) => Awaits(g, result.graph)
             /\ Latest(result.graph) = Latest(g)
<1> DEFINE result == Discharge(g, n, evidence)
<1>1. /\ result.ok \in BOOLEAN /\ Improves(g, result.graph, exempt)
      /\ Sound(result.graph, exempt) /\ g \in Graph
  BY DischargeSound DEF Improves, Sound
<1>2. SetsAtMost(g, result, n, {"DISCHARGED"})
  BY <1>1, DischargeShape
<1> HIDE DEF result
<1>3. {"DISCHARGED"} \in SUBSET ObligationStatuses
  BY DEF ObligationStatuses
<1> QED
  BY <1>1, <1>2, <1>3, SettingKeeps DEF result

(* refute.                                                                 *)
LEMMA RefuteKeeps ==
  ASSUME NEW g, NEW exempt, Sound(g, exempt), NEW n \in Nat, NEW evidence \in Seq(Nat)
  PROVE  LET result == Refute(g, n, evidence)
         IN  /\ Improves(g, result.graph, exempt) /\ Sound(result.graph, exempt)
             /\ n # 1 /\ 1 \in NodeIds(g) => Awaits(g, result.graph)
             /\ g.nodes[n].source # "pipeline" => Spares(g, result.graph)
             /\ Latest(result.graph) = Latest(g)
<1> DEFINE result == Refute(g, n, evidence)
<1>1. /\ result.ok \in BOOLEAN /\ Improves(g, result.graph, exempt)
      /\ Sound(result.graph, exempt) /\ g \in Graph
  BY RefuteSound DEF Improves, Sound
<1>2. SetsAtMost(g, result, n, {"REFUTED"})
  BY <1>1, RefuteShape
<1> HIDE DEF result
<1>3. {"REFUTED"} \in SUBSET ObligationStatuses
  BY DEF ObligationStatuses
<1> QED
  BY <1>1, <1>2, <1>3, SettingKeeps DEF result

(* defer and escalate, with a reason.                                      *)
LEMMA ExplainKeeps ==
  ASSUME NEW g, NEW exempt, Sound(g, exempt), NEW n \in Nat, n # 1, 1 \in NodeIds(g),
         NEW why \in {"reason", "reason+retry"},
         NEW result \in {Defer(g, n, why), Escalate(g, n, why)}
  PROVE  /\ result.ok \in BOOLEAN /\ Improves(g, result.graph, exempt)
         /\ Sound(result.graph, exempt) /\ Awaits(g, result.graph)
         /\ g.nodes[n].source # "pipeline" => Spares(g, result.graph)
         /\ Latest(result.graph) = Latest(g)
<1>1. /\ result.ok \in BOOLEAN /\ Improves(g, result.graph, exempt)
      /\ Sound(result.graph, exempt) /\ g \in Graph
  BY DeferSound, EscalateSound DEF Improves, Sound
<1>2. SetsAtMost(g, result, n, {"DEFERRED"}) \/ SetsAtMost(g, result, n, {"ESCALATED"})
  BY <1>1, ExplainShape
<1>3. {"DEFERRED"} \in SUBSET ObligationStatuses /\ {"ESCALATED"} \in SUBSET ObligationStatuses
  BY DEF ObligationStatuses
<1> QED
  BY <1>1, <1>2, <1>3, SettingKeeps

(* An event, an emptied log or an edge: no node is touched.                *)
LEMMA SettleKeeps ==
  ASSUME NEW g, NEW exempt, Sound(g, exempt)
  PROVE  /\ Improves(g, Settle(g), exempt) /\ Sound(Settle(g), exempt)
         /\ Settle(g).nodes = g.nodes /\ Settle(g).edges = g.edges
  BY SettleSound DEF Improves

(* A checkpoint.                                                           *)
LEMMA CheckpointKeeps ==
  ASSUME NEW g, NEW exempt, Sound(g, exempt), NEW operation \in Operations
  PROVE  LET h == Checkpoint(g, operation)
         IN  /\ Improves(g, h, exempt) /\ Sound(h, exempt)
             /\ h.nodes = g.nodes /\ h.edges = g.edges
<1>1. ActiveIds(g) \in SUBSET NodeIds(g) /\ {} \in SUBSET NodeIds(g)
  BY GraphTyped DEF Sound
<1> QED
  BY <1>1, RecordSound DEF Checkpoint, Improves

(* add_edge, accepted or not.                                              *)
LEMMA AddEdgeKeeps ==
  ASSUME NEW g, NEW exempt, Sound(g, exempt), NEW s, NEW t, NEW r \in Relations
  PROVE  LET h == AddEdge(g, s, t, r).graph
         IN  /\ Improves(g, h, exempt) /\ Sound(h, exempt) /\ h.nodes = g.nodes
<1>1. CASE EdgeAccepted(g, s, t, r)
  BY <1>1, AddEdgeSound DEF Improves
<1>2. CASE ~EdgeAccepted(g, s, t, r)
  <2>1. AddEdge(g, s, t, r).graph = g
    BY <1>2 DEF AddEdge, Raised
  <2>2. Keeps(g, g)
    BY KeepsReflexive DEF Sound
  <2> QED
    BY <2>1, <2>2 DEF Improves
<1> QED
  BY <1>1, <1>2

(* A sound graph improves itself, and no node of it is touched.            *)
LEMMA ItselfKept ==
  ASSUME NEW g, NEW exempt, Sound(g, exempt)
  PROVE  Improves(g, g, exempt) /\ Awaits(g, g) /\ Spares(g, g)
  BY KeepsReflexive, SameNodes DEF Sound, Improves

(* The intent is still a node of a later graph.                            *)
LEMMA IntentStays ==
  ASSUME NEW g, NEW h, NEW exempt, Sound(g, exempt), Improves(g, h, exempt), 1 \in NodeIds(g)
  PROVE  1 \in NodeIds(h)
<1>1. g \in Graph /\ h \in Graph
  BY DEF Sound, Improves
<1> QED
  BY <1>1, GraphTyped DEF Improves, Keeps, Grown, NodeIds

(* The nodes that the stages add.                                          *)
LEMMA AddedNodes ==
  ASSUME NEW kind \in ObligationKinds, NEW severity \in Severities, NEW blocking \in BOOLEAN
  PROVE  /\ TaskNode(kind, "OPEN", severity, blocking, "runtime") \in Fresh
         /\ TaskNode(kind, "ACKNOWLEDGED", severity, blocking, "runtime") \in Fresh
         /\ TaskNode(kind, "OPEN", severity, blocking, "runtime").source # "pipeline"
         /\ Duty(kind, severity) \in Fresh
         /\ EvidenceNode \in Fresh /\ EvidenceNode.source # "pipeline"
         /\ EvidenceNode.kind = "EVIDENCE"
  BY DEF TaskNode, Duty, EvidenceNode, Fresh, Node, ObligationKinds, ObligationStatuses,
         Severities, Sources, Explanations

-----------------------------------------------------------------------------
(* The loops of the stages, one step of each.                              *)

(* A graph that such a step may leave of a sound graph g with an intent.   *)
Later(g, exempt) == {h \in Graph : Improves(g, h, exempt) /\ Awaits(g, h) /\ Spares(g, h)}

Results(g, exempt) == [graph: Later(g, exempt), ok: BOOLEAN]

(* Later graphs of a later graph.                                          *)
LEMMA LaterTransitive ==
  ASSUME NEW f, NEW exempt, Sound(f, exempt), NEW g \in Later(f, exempt),
         NEW h, Improves(g, h, exempt), Awaits(g, h), Spares(g, h)
  PROVE  h \in Later(f, exempt)
<1>1. Improves(f, g, exempt) /\ Awaits(f, g) /\ Spares(f, g) /\ h \in Graph
  BY DEF Later, Improves, Sound
<1>2. Improves(f, h, exempt)
  BY <1>1, ImprovesTransitive
<1>3. Spares(f, h)
  BY <1>1, SparesTransitive
<1>4. Awaits(f, h)
  BY <1>1 DEF Awaits
<1> QED
  BY <1>1, <1>2, <1>3, <1>4 DEF Later

(* A sound graph is later than itself, and what is later is sound.         *)
LEMMA LaterIs ==
  ASSUME NEW g, NEW exempt, Sound(g, exempt), 1 \in NodeIds(g)
  PROVE  /\ g \in Later(g, exempt)
         /\ \A h \in Later(g, exempt) : Sound(h, exempt) /\ 1 \in NodeIds(h)
<1>1. g \in Later(g, exempt)
  BY ItselfKept DEF Later, Sound
<1>2. ASSUME NEW h \in Later(g, exempt) PROVE Sound(h, exempt) /\ 1 \in NodeIds(h)
  BY <1>2, IntentStays DEF Later, Improves
<1> QED
  BY <1>1, <1>2

(* Evidence that is added.                                                 *)
LEMMA EvidenceLater ==
  ASSUME NEW f, NEW exempt, Sound(f, exempt), 1 \in NodeIds(f), NEW g \in Later(f, exempt)
  PROVE  AddEvidence(g) \in Later(f, exempt)
<1>1. Sound(g, exempt) /\ 1 \in NodeIds(g)
  BY LaterIs
<1>2. EvidenceNode \in Fresh /\ EvidenceNode.source # "pipeline"
  BY AddedNodes DEF ObligationKinds, Severities
<1>3. /\ Improves(g, AddEvidence(g), exempt) /\ Awaits(g, AddEvidence(g))
      /\ Spares(g, AddEvidence(g))
  BY <1>1, <1>2, AddingKeeps DEF AddEvidence
<1> QED
  BY <1>3, LaterTransitive

(* A deferred obligation that is added.                                    *)
LEMMA DeferredLater ==
  ASSUME NEW f, NEW exempt, Sound(f, exempt), 1 \in NodeIds(f), NEW g \in Later(f, exempt),
         NEW node \in Fresh, node.source # "pipeline", NEW why \in {"reason", "reason+retry"}
  PROVE  LET added == AddNode(g, node)
         IN  /\ Defer(added, Latest(added), why).ok \in BOOLEAN
             /\ Defer(added, Latest(added), why).graph \in Later(f, exempt)
<1> DEFINE added == AddNode(g, node)
           n == Latest(added)
           result == Defer(added, n, why)
<1>1. Sound(g, exempt) /\ 1 \in NodeIds(g)
  BY LaterIs
<1>2. /\ Sound(added, exempt) /\ added \in Later(f, exempt)
      /\ n = Latest(g) + 1 /\ added.nodes[n].source # "pipeline"
  BY <1>1, AddingKeeps, LaterTransitive
<1>3. n \in Nat /\ n # 1 /\ 1 \in NodeIds(added)
  <2>1. Latest(g) \in Nat /\ Latest(g) >= 1
    BY <1>1, GraphTyped DEF Sound, Latest, NodeIds
  <2> QED
    BY <1>2, <2>1, LaterIs
<1> HIDE DEF added, n
<1>4. result \in {Defer(added, n, why), Escalate(added, n, why)}
  OBVIOUS
<1> HIDE DEF result
<1>5. /\ result.ok \in BOOLEAN /\ Improves(added, result.graph, exempt)
      /\ Awaits(added, result.graph) /\ Spares(added, result.graph)
  BY <1>2, <1>3, <1>4, ExplainKeeps
<1>6. result.graph \in Later(f, exempt)
  BY <1>2, <1>5, LaterTransitive
<1> QED
  BY <1>5, <1>6 DEF result, n, added

(* _add_runtime_obligations, one statement.                                *)
LEMMA RuntimeStep ==
  ASSUME NEW f, NEW exempt, Sound(f, exempt), 1 \in NodeIds(f),
         NEW result \in Results(f, exempt), NEW severity \in Severities, NEW statement
  PROVE  AddRuntimeObligation(severity, result, statement) \in Results(f, exempt)
<1> DEFINE node == TaskNode("REQUIREMENT", "OPEN", severity, TRUE, "runtime")
           added == AddNode(result.graph, node)
           deferred == Defer(added, Latest(added), "reason")
<1>1. node \in Fresh /\ node.source # "pipeline"
  BY AddedNodes DEF ObligationKinds
<1>2. result.graph \in Later(f, exempt) /\ result.ok \in BOOLEAN
  BY DEF Results
<1> HIDE DEF node
<1>3. deferred.ok \in BOOLEAN /\ deferred.graph \in Later(f, exempt)
  BY <1>1, <1>2, DeferredLater
<1>4. deferred = [graph |-> deferred.graph, ok |-> deferred.ok]
  BY DEF Defer, Ok, Raised
<1> HIDE DEF deferred, added
<1>5. AddRuntimeObligation(severity, result, statement) \in {result, Raised(result.graph), deferred}
  BY DEF AddRuntimeObligation, deferred, added, node
<1>6. Raised(result.graph) \in Results(f, exempt) /\ deferred \in Results(f, exempt)
  BY <1>2, <1>3, <1>4 DEF Raised, Results
<1> QED
  BY <1>5, <1>6

(* A list of one evidence node.                                            *)
LEMMA OneId ==
  ASSUME NEW n \in Nat PROVE <<n>> \in Seq(Nat)
  OBVIOUS

(* _apply_obligation_results, one result.                                  *)
LEMMA CheckStep ==
  ASSUME NEW f, NEW exempt, Sound(f, exempt), 1 \in NodeIds(f),
         NEW result \in Results(f, exempt), NEW check \in Check
  PROVE  ApplyCheck(result, check) \in Results(f, exempt)
<1> DEFINE g == result.graph
           node == TaskNode(check.kind, "OPEN", check.severity, check.blocking, "runtime")
           again == [node EXCEPT !.blocking = TRUE]
           added == AddNode(g, node)
           seen == AddEvidence(added)
           duty == Latest(g) + 1
           discharged == Discharge(seen, duty, << duty + 1 >>)
           refuted == Refute(seen, duty, << duty + 1 >>).graph
           deferred == Defer(AddNode(refuted, again), Latest(refuted) + 1, "reason+retry")
<1>1. g \in Later(f, exempt) /\ result.ok \in BOOLEAN /\ Sound(g, exempt) /\ 1 \in NodeIds(g)
  BY LaterIs DEF Results
<1>2. node \in Fresh /\ node.source # "pipeline" /\ again \in Fresh /\ again.source # "pipeline"
  <2>1. /\ check.kind \in ObligationKinds /\ check.severity \in Severities
        /\ check.blocking \in BOOLEAN
    BY DEF Check
  <2>2. node \in Fresh /\ node.source # "pipeline"
    BY <2>1, AddedNodes
  <2> HIDE DEF node
  <2>3. again \in Fresh /\ again.source # "pipeline"
    BY <2>2 DEF Fresh, Node
  <2> QED
    BY <2>2, <2>3
<1>3. duty \in Nat /\ duty # 1 /\ << duty + 1 >> \in Seq(Nat)
  <2>1. Latest(g) \in Nat /\ Latest(g) >= 1
    BY <1>1, GraphTyped DEF Sound, Latest, NodeIds
  <2> QED
    BY <2>1, OneId
<1> HIDE DEF g, node, again, added, duty
<1>4. /\ added \in Later(f, exempt) /\ Sound(added, exempt) /\ 1 \in NodeIds(added)
      /\ duty \in NodeIds(added) /\ added.nodes[duty] = node
  <2>1. /\ Improves(g, added, exempt) /\ Awaits(g, added) /\ Spares(g, added)
        /\ duty \in NodeIds(added) /\ added.nodes[duty] = node
    BY <1>1, <1>2, AddingKeeps DEF added, duty
  <2> QED
    BY <1>1, <2>1, LaterTransitive, LaterIs
<1>5. /\ seen \in Later(f, exempt) /\ Sound(seen, exempt) /\ 1 \in NodeIds(seen)
      /\ seen.nodes[duty] = node
  <2>1. EvidenceNode \in Fresh
    BY AddedNodes DEF ObligationKinds, Severities
  <2>2. seen.nodes[duty] = node
    BY <1>4, <2>1, AddingKeeps DEF AddEvidence
  <2> QED
    BY <1>4, <2>2, EvidenceLater, LaterIs
<1> HIDE DEF seen
<1>6. discharged.ok \in BOOLEAN /\ discharged.graph \in Later(f, exempt)
  BY <1>3, <1>5, DischargeKeeps, LaterTransitive
<1>7. refuted \in Later(f, exempt)
  BY <1>2, <1>3, <1>5, RefuteKeeps, LaterTransitive
<1> HIDE DEF refuted, discharged
<1>8. deferred.ok \in BOOLEAN /\ deferred.graph \in Later(f, exempt)
  <2>1. Latest(AddNode(refuted, again)) = Latest(refuted) + 1
    BY <1>2, <1>7, LaterIs, AddingKeeps
  <2> QED
    BY <1>2, <1>7, <2>1, DeferredLater
<1> HIDE DEF deferred
<1>9. /\ discharged = [graph |-> discharged.graph, ok |-> discharged.ok]
      /\ deferred = [graph |-> deferred.graph, ok |-> deferred.ok]
  <2>1. discharged = [graph |-> discharged.graph, ok |-> discharged.ok]
    BY DEF Discharge, Ok, Raised, discharged
  <2>2. deferred = [graph |-> deferred.graph, ok |-> deferred.ok]
    BY DEF Defer, Ok, Raised, deferred
  <2> QED
    BY <2>1, <2>2
<1>10. ApplyCheck(result, check) \in {result, Raised(g), discharged, deferred}
  BY DEF ApplyCheck, g, node, again, added, seen, duty, discharged, refuted, deferred
<1>11. {Raised(g), discharged, deferred} \subseteq Results(f, exempt)
  BY <1>1, <1>6, <1>8, <1>9 DEF Raised, Results
<1> QED
  BY <1>10, <1>11

-----------------------------------------------------------------------------
(* The loops.                                                              *)

(* _add_runtime_obligations: a later graph, whether it raises or not.      *)
LEMMA RuntimeLater ==
  ASSUME NEW g, NEW exempt, Sound(g, exempt), 1 \in NodeIds(g),
         NEW severity \in Severities, NEW statements \in Statements
  PROVE  AddRuntimeObligations(g, statements, severity) \in Results(g, exempt)
<1> DEFINE V == Results(g, exempt)
           n == Len(statements)
           base == Ok(g)
           Turn(result, i) == AddRuntimeObligation(severity, result, statements[i])
           step == [p \in (1..n) \X V |-> Turn(p[2], p[1])]
           iter == CHOOSE h : h = [s \in SUBSET (1..n) |->
                     IF s = {} THEN base
                     ELSE LET x == Max(s) IN Turn(h[s \ {x}], x)]
<1>1. n \in Nat /\ DOMAIN statements = 1..n
  BY LenProperties DEF Statements
<1>2. base \in V
  BY LaterIs DEF Ok, Results
<1>3. \A i \in 1..n, result \in V : Turn(result, i) \in V
  BY RuntimeStep
<1>4. AddRuntimeObligations(g, statements, severity) = iter[1..n]
  BY <1>1 DEF AddRuntimeObligations, FoldLeft, MapThenFoldSet
<1> HIDE DEF V, base, Turn, n
<1>5. step \in [(1..n) \X V -> V]
  BY <1>3
<1>6. PICK h \in [SUBSET (1..n) -> V] : FoldedFrom(h, base, step, n)
  BY <1>1, <1>2, <1>5, FoldExists
<1>7. h = [s \in SUBSET (1..n) |->
             IF s = {} THEN base ELSE LET x == Max(s) IN Turn(h[s \ {x}], x)]
  <2>1. \A s \in SUBSET (1..n) : s # {} => Max(s) \in 1..n /\ s \ {Max(s)} \in SUBSET (1..n)
    BY <1>1, LastRemoved
  <2>2. \A s \in SUBSET (1..n) :
          s # {} => step[<<Max(s), h[s \ {Max(s)}]>>] = Turn(h[s \ {Max(s)}], Max(s))
    BY <2>1
  <2> HIDE DEF step
  <2> QED
    BY <1>6, <2>2 DEF FoldedFrom
<1>8. iter = [s \in SUBSET (1..n) |->
                IF s = {} THEN base ELSE LET x == Max(s) IN Turn(iter[s \ {x}], x)]
  BY <1>7
<1> HIDE DEF iter
<1>9. iter[{}] \in V
  BY <1>2, <1>8
<1>10. \A s \in SUBSET (1..n) : s # {} /\ iter[s \ {Max(s)}] \in V => iter[s] \in V
  <2> SUFFICES ASSUME NEW s \in SUBSET (1..n), s # {}, iter[s \ {Max(s)}] \in V
               PROVE  iter[s] \in V
    OBVIOUS
  <2>1. Max(s) \in 1..n
    BY <1>1, LastRemoved
  <2>2. iter[s] = Turn(iter[s \ {Max(s)}], Max(s))
    BY <1>8
  <2> QED
    BY <1>3, <2>1, <2>2
<1>11. iter[1..n] \in V
  BY <1>1, <1>9, <1>10, FoldStays
<1> QED
  BY <1>4, <1>11 DEF V

(* _apply_obligation_results: so does this loop.                           *)
LEMMA ChecksLater ==
  ASSUME NEW g, NEW exempt, Sound(g, exempt), 1 \in NodeIds(g), NEW checks \in Seq(Check)
  PROVE  ApplyObligationResults(g, checks) \in Results(g, exempt)
<1> DEFINE V == Results(g, exempt)
           n == Len(checks)
           base == Ok(g)
           Turn(result, i) == ApplyCheck(result, checks[i])
           step == [p \in (1..n) \X V |-> Turn(p[2], p[1])]
           iter == CHOOSE h : h = [s \in SUBSET (1..n) |->
                     IF s = {} THEN base
                     ELSE LET x == Max(s) IN Turn(h[s \ {x}], x)]
<1>1. n \in Nat /\ DOMAIN checks = 1..n /\ \A i \in 1..n : checks[i] \in Check
  BY LenProperties, ElementOfSeq
<1>2. base \in V
  BY LaterIs DEF Ok, Results
<1>3. \A i \in 1..n, result \in V : Turn(result, i) \in V
  BY <1>1, CheckStep
<1>4. ApplyObligationResults(g, checks) = iter[1..n]
  BY <1>1 DEF ApplyObligationResults, FoldLeft, MapThenFoldSet
<1> HIDE DEF V, base, Turn, n
<1>5. step \in [(1..n) \X V -> V]
  BY <1>3
<1>6. PICK h \in [SUBSET (1..n) -> V] : FoldedFrom(h, base, step, n)
  BY <1>1, <1>2, <1>5, FoldExists
<1>7. h = [s \in SUBSET (1..n) |->
             IF s = {} THEN base ELSE LET x == Max(s) IN Turn(h[s \ {x}], x)]
  <2>1. \A s \in SUBSET (1..n) : s # {} => Max(s) \in 1..n /\ s \ {Max(s)} \in SUBSET (1..n)
    BY <1>1, LastRemoved
  <2>2. \A s \in SUBSET (1..n) :
          s # {} => step[<<Max(s), h[s \ {Max(s)}]>>] = Turn(h[s \ {Max(s)}], Max(s))
    BY <2>1
  <2> HIDE DEF step
  <2> QED
    BY <1>6, <2>2 DEF FoldedFrom
<1>8. iter = [s \in SUBSET (1..n) |->
                IF s = {} THEN base ELSE LET x == Max(s) IN Turn(iter[s \ {x}], x)]
  BY <1>7
<1> HIDE DEF iter
<1>9. iter[{}] \in V
  BY <1>2, <1>8
<1>10. \A s \in SUBSET (1..n) : s # {} /\ iter[s \ {Max(s)}] \in V => iter[s] \in V
  <2> SUFFICES ASSUME NEW s \in SUBSET (1..n), s # {}, iter[s \ {Max(s)}] \in V
               PROVE  iter[s] \in V
    OBVIOUS
  <2>1. Max(s) \in 1..n
    BY <1>1, LastRemoved
  <2>2. iter[s] = Turn(iter[s \ {Max(s)}], Max(s))
    BY <1>8
  <2> QED
    BY <1>3, <2>1, <2>2
<1>11. iter[1..n] \in V
  BY <1>1, <1>9, <1>10, FoldStays
<1> QED
  BY <1>4, <1>11 DEF V

(* The evidence of an adapter, one node after the other.                   *)
LEMMA EvidencesLater ==
  ASSUME NEW g, NEW exempt, Sound(g, exempt), 1 \in NodeIds(g), NEW n \in Nat
  PROVE  AddEvidences(g, n) \in Later(g, exempt)
<1> DEFINE V == Later(g, exempt)
           base == g
           Turn(h, i) == AddEvidence(h)
           step == [p \in (1..n) \X V |-> Turn(p[2], p[1])]
           iter == CHOOSE h : h = [s \in SUBSET (1..n) |->
                     IF s = {} THEN base
                     ELSE LET x == Max(s) IN Turn(h[s \ {x}], x)]
<1>1. n \in Nat /\ DOMAIN [i \in 1..n |-> i] = 1..n
  OBVIOUS
<1>2. base \in V
  BY LaterIs
<1>3. \A i \in 1..n, h \in V : Turn(h, i) \in V
  BY EvidenceLater
<1>4. AddEvidences(g, n) = iter[1..n]
  BY <1>1 DEF AddEvidences, FoldLeft, MapThenFoldSet
<1> HIDE DEF V, base, Turn
<1>5. step \in [(1..n) \X V -> V]
  BY <1>3
<1>6. PICK h \in [SUBSET (1..n) -> V] : FoldedFrom(h, base, step, n)
  BY <1>1, <1>2, <1>5, FoldExists
<1>7. h = [s \in SUBSET (1..n) |->
             IF s = {} THEN base ELSE LET x == Max(s) IN Turn(h[s \ {x}], x)]
  <2>1. \A s \in SUBSET (1..n) : s # {} => Max(s) \in 1..n /\ s \ {Max(s)} \in SUBSET (1..n)
    BY <1>1, LastRemoved
  <2>2. \A s \in SUBSET (1..n) :
          s # {} => step[<<Max(s), h[s \ {Max(s)}]>>] = Turn(h[s \ {Max(s)}], Max(s))
    BY <2>1
  <2> HIDE DEF step
  <2> QED
    BY <1>6, <2>2 DEF FoldedFrom
<1>8. iter = [s \in SUBSET (1..n) |->
                IF s = {} THEN base ELSE LET x == Max(s) IN Turn(iter[s \ {x}], x)]
  BY <1>7
<1> HIDE DEF iter
<1>9. iter[{}] \in V
  BY <1>2, <1>8
<1>10. \A s \in SUBSET (1..n) : s # {} /\ iter[s \ {Max(s)}] \in V => iter[s] \in V
  <2> SUFFICES ASSUME NEW s \in SUBSET (1..n), s # {}, iter[s \ {Max(s)}] \in V
               PROVE  iter[s] \in V
    OBVIOUS
  <2>1. Max(s) \in 1..n
    BY <1>1, LastRemoved
  <2>2. iter[s] = Turn(iter[s \ {Max(s)}], Max(s))
    BY <1>8
  <2> QED
    BY <1>3, <2>1, <2>2
<1>11. iter[1..n] \in V
  BY <1>1, <1>9, <1>10, FoldStays
<1> QED
  BY <1>4, <1>11 DEF V

(* A finite set as a list of its elements.                                 *)
LEMMA ListOfSet ==
  ASSUME NEW S, IsFiniteSet(S)
  PROVE  Cardinality(S) \in Nat /\ SetToSeq(S) \in [1..Cardinality(S) -> S]
<1>1. Cardinality(S) \in Nat /\ ExistsBijection(1..Cardinality(S), S)
  BY FS_CardinalityType
<1>2. PICK f \in [1..Cardinality(S) -> S] : f \in Bijection(1..Cardinality(S), S)
  BY <1>1 DEF ExistsBijection, Bijection, Injection
<1>3. IsInjective(f)
  BY <1>2 DEF Bijection, Injection, IsInjective
<1> QED
  BY <1>1, <1>3 DEF SetToSeq

(* What may become of a graph when some nodes are discharged.              *)
Relieved(g, exempt, duties) ==
  {h \in Graph : Improves(g, h, exempt) /\ Spares(g, h) /\ (1 \notin duties => Awaits(g, h))}

(* One of them.                                                            *)
LEMMA ReliefStep ==
  ASSUME NEW f, NEW exempt, Sound(f, exempt), 1 \in NodeIds(f), NEW duties \in SUBSET Nat,
         NEW g \in Relieved(f, exempt, duties), NEW n \in duties, NEW evidence \in Seq(Nat)
  PROVE  Discharge(g, n, evidence).graph \in Relieved(f, exempt, duties)
<1> DEFINE h == Discharge(g, n, evidence).graph
<1>1. Improves(f, g, exempt) /\ Sound(g, exempt) /\ Spares(f, g)
  BY DEF Relieved, Improves
<1>2. /\ Improves(g, h, exempt) /\ Sound(h, exempt) /\ Spares(g, h)
      /\ n # 1 /\ 1 \in NodeIds(g) => Awaits(g, h)
  BY <1>1, DischargeKeeps
<1>3. 1 \in NodeIds(g)
  BY <1>1, IntentStays
<1> HIDE DEF h
<1>4. Improves(f, h, exempt) /\ Spares(f, h)
  BY <1>1, <1>2, ImprovesTransitive, SparesTransitive
<1>5. 1 \notin duties => Awaits(f, h)
  BY <1>2, <1>3 DEF Relieved, Awaits
<1> QED
  BY <1>2, <1>4, <1>5 DEF Relieved, Sound, h

(* All of them.                                                            *)
LEMMA ReliefLater ==
  ASSUME NEW g, NEW exempt, Sound(g, exempt), 1 \in NodeIds(g),
         NEW duties \in SUBSET NodeIds(g), NEW evidence \in Seq(Nat)
  PROVE  DischargeAll(g, duties, evidence) \in Relieved(g, exempt, duties)
<1> DEFINE V == Relieved(g, exempt, duties)
           n == Cardinality(duties)
           list == SetToSeq(duties)
           base == g
           Turn(h, i) == Discharge(h, list[i], evidence).graph
           step == [p \in (1..n) \X V |-> Turn(p[2], p[1])]
           iter == CHOOSE h : h = [s \in SUBSET (1..n) |->
                     IF s = {} THEN base
                     ELSE LET x == Max(s) IN Turn(h[s \ {x}], x)]
<1>1. n \in Nat /\ DOMAIN list = 1..n /\ (\A i \in 1..n : list[i] \in duties)
  <2>1. IsFiniteSet(duties)
    BY GraphTyped, PositionsFinite DEF Sound, NodeIds
  <2> QED
    BY <2>1, ListOfSet
<1>2. base \in V
  BY ItselfKept DEF Relieved, Sound
<1>3. \A i \in 1..n, h \in V : Turn(h, i) \in V
  <2>1. duties \in SUBSET Nat
    BY DEF NodeIds
  <2> QED
    BY <1>1, <2>1, ReliefStep
<1>4. DischargeAll(g, duties, evidence) = iter[1..n]
  BY <1>1 DEF DischargeAll, FoldLeft, MapThenFoldSet
<1> HIDE DEF V, base, Turn, n, list
<1>5. step \in [(1..n) \X V -> V]
  BY <1>3
<1>6. PICK h \in [SUBSET (1..n) -> V] : FoldedFrom(h, base, step, n)
  BY <1>1, <1>2, <1>5, FoldExists
<1>7. h = [s \in SUBSET (1..n) |->
             IF s = {} THEN base ELSE LET x == Max(s) IN Turn(h[s \ {x}], x)]
  <2>1. \A s \in SUBSET (1..n) : s # {} => Max(s) \in 1..n /\ s \ {Max(s)} \in SUBSET (1..n)
    BY <1>1, LastRemoved
  <2>2. \A s \in SUBSET (1..n) :
          s # {} => step[<<Max(s), h[s \ {Max(s)}]>>] = Turn(h[s \ {Max(s)}], Max(s))
    BY <2>1
  <2> HIDE DEF step
  <2> QED
    BY <1>6, <2>2 DEF FoldedFrom
<1>8. iter = [s \in SUBSET (1..n) |->
                IF s = {} THEN base ELSE LET x == Max(s) IN Turn(iter[s \ {x}], x)]
  BY <1>7
<1> HIDE DEF iter
<1>9. iter[{}] \in V
  BY <1>2, <1>8
<1>10. \A s \in SUBSET (1..n) : s # {} /\ iter[s \ {Max(s)}] \in V => iter[s] \in V
  <2> SUFFICES ASSUME NEW s \in SUBSET (1..n), s # {}, iter[s \ {Max(s)}] \in V
               PROVE  iter[s] \in V
    OBVIOUS
  <2>1. Max(s) \in 1..n
    BY <1>1, LastRemoved
  <2>2. iter[s] = Turn(iter[s \ {Max(s)}], Max(s))
    BY <1>8
  <2> QED
    BY <1>3, <2>1, <2>2
<1>11. iter[1..n] \in V
  BY <1>1, <1>9, <1>10, FoldStays
<1> QED
  BY <1>4, <1>11 DEF V

-----------------------------------------------------------------------------
(* What the promotion gate says.                                           *)

(* An open obligation of weight blocks a release.                          *)
LEMMA BlockedNotPromoted ==
  ASSUME NEW g, NEW n \in NodeIds(g), g.nodes[n].kind # "EVIDENCE", g.nodes[n].blocking,
         g.nodes[n].status \in Unresolved, g.nodes[n].severity \in {"HIGH", "CRITICAL"}
  PROVE  ~PromotionAllowed(g, "RELEASED")
  BY DEF PromotionAllowed, Blockers, ActiveIds

(* The open intent does.                                                   *)
LEMMA IntendedNotPromoted ==
  ASSUME NEW g, Intended(g) PROVE ~PromotionAllowed(g, "RELEASED")
  BY BlockedNotPromoted DEF Intended, Unresolved

(* The gate reads nothing but nodes and edges of a sound graph.            *)
LEMMA PromotionSame ==
  ASSUME NEW g, NEW h, NEW exempt, Sound(g, exempt), Sound(h, exempt),
         h.nodes = g.nodes, h.edges = g.edges
  PROVE  PromotionAllowed(g, "RELEASED") <=> PromotionAllowed(h, "RELEASED")
<1>1. NodeIds(h) = NodeIds(g) /\ Find(h, "EVIDENCE") = Find(g, "EVIDENCE")
  BY DEF NodeIds, Find
<1>2. \A n : Accountable(h, n) <=> Accountable(g, n)
  BY <1>1 DEF Accountable, EvidenceFor, HasTransport
<1>3. VerifyConservation(g) <=> VerifyConservation(h)
  BY <1>1, <1>2 DEF VerifyConservation, Conserved, Sound
<1>4. Blockers(h) = Blockers(g)
  BY <1>1 DEF Blockers, ActiveIds
<1>5. \A kind : Find(h, kind) = Find(g, kind)
  BY <1>1 DEF Find
<1>6. MissingKinds(h, "RELEASED") = MissingKinds(g, "RELEASED")
  BY <1>5 DEF MissingKinds
<1> QED
  BY <1>1, <1>3, <1>4, <1>6 DEF PromotionAllowed

(* What was released has discharged every duty of the pipeline.            *)
LEMMA PromotedIsEarned ==
  ASSUME NEW g, NEW exempt, NEW k, Sound(g, exempt), Dutiful(g, exempt, k),
         PromotionAllowed(g, "RELEASED")
  PROVE  /\ Cardinality(ImposedOf(g, exempt)) = k
         /\ \A n \in ImposedOf(g, exempt) :
              g.nodes[n].status = "DISCHARGED" /\ EvidenceFor(g, n) # {}
<1>1. ASSUME NEW n \in ImposedOf(g, exempt)
      PROVE  g.nodes[n].status = "DISCHARGED" /\ EvidenceFor(g, n) # {}
  <2>1. /\ n \in NodeIds(g) /\ n \notin exempt /\ g.nodes[n].kind # "EVIDENCE"
        /\ g.nodes[n].status \in {"OPEN", "DISCHARGED"}
        /\ g.nodes[n].blocking /\ g.nodes[n].severity \in {"HIGH", "CRITICAL"}
    BY DEF ImposedOf, Dutiful
  <2>2. g.nodes[n].status = "DISCHARGED"
    BY <2>1, BlockedNotPromoted DEF Unresolved
  <2>3. Accountable(g, n)
    BY <2>1 DEF Sound, Conserved
  <2> QED
    BY <2>1, <2>2, <2>3 DEF Accountable
<1> QED
  BY <1>1 DEF Dutiful

-----------------------------------------------------------------------------
(* The duties that the pipeline imposes.                                   *)

(* One more.                                                               *)
LEMMA DutyAdded ==
  ASSUME NEW g, NEW exempt, Sound(g, exempt), NEW k, Dutiful(g, exempt, k),
         NEW kind \in ObligationKinds \ {"EVIDENCE"}, NEW severity \in {"HIGH", "CRITICAL"}
  PROVE  LET h == AddNode(g, Duty(kind, severity))
         IN  /\ Improves(g, h, exempt) /\ Sound(h, exempt) /\ Awaits(g, h)
             /\ Dutiful(h, exempt, k + 1) /\ Latest(h) = Latest(g) + 1
             /\ Latest(h) \in Nat \ {0, 1} /\ h.nodes[Latest(h)].kind = kind
<1> DEFINE h == AddNode(g, Duty(kind, severity))
           new == Latest(g) + 1
<1>1. Duty(kind, severity) \in Fresh /\ 1 \in NodeIds(g) /\ exempt \subseteq NodeIds(g)
  BY AddedNodes DEF Dutiful, Severities
<1>2. /\ Improves(g, h, exempt) /\ Sound(h, exempt) /\ Awaits(g, h)
      /\ NodeIds(h) = NodeIds(g) \cup {new} /\ Latest(h) = new
      /\ h.nodes[new] = Duty(kind, severity) /\ \A n \in NodeIds(g) : h.nodes[n] = g.nodes[n]
  BY <1>1, AddingKeeps
<1> HIDE DEF h
<1>3. new \notin NodeIds(g) /\ new \in Nat \ {0, 1} /\ IsFiniteSet(NodeIds(g))
  BY <1>1, GraphTyped, PositionsFinite DEF Sound, NodeIds, Latest
<1>4. ImposedOf(h, exempt) = ImposedOf(g, exempt) \cup {new}
  BY <1>1, <1>2, <1>3 DEF ImposedOf, Duty, TaskNode
<1>5. Cardinality(ImposedOf(h, exempt)) = k + 1
  <2>1. ImposedOf(g, exempt) \in SUBSET NodeIds(g) /\ new \notin ImposedOf(g, exempt)
    BY <1>3 DEF ImposedOf
  <2>2. IsFiniteSet(ImposedOf(g, exempt))
    BY <1>3, <2>1, FS_Subset
  <2> QED
    BY <1>4, <2>1, <2>2, FS_AddElement DEF Dutiful
<1>6. ASSUME NEW n \in ImposedOf(h, exempt)
      PROVE  /\ h.nodes[n].kind # "EVIDENCE" /\ h.nodes[n].blocking
             /\ h.nodes[n].severity \in {"HIGH", "CRITICAL"}
             /\ h.nodes[n].status \in {"OPEN", "DISCHARGED"}
  <2>1. CASE n = new
    BY <1>2, <2>1 DEF Duty, TaskNode
  <2>2. CASE n \in ImposedOf(g, exempt)
    BY <1>2, <2>2 DEF ImposedOf, Dutiful
  <2> QED
    BY <1>4, <2>1, <2>2
<1>7. Dutiful(h, exempt, k + 1)
  BY <1>1, <1>2, <1>5, <1>6 DEF Dutiful
<1> QED
  BY <1>2, <1>3, <1>7 DEF h, Duty, TaskNode

(* A gate: one more duty, which is discharged, or refuted.                 *)
LEMMA GateKeeps ==
  ASSUME NEW g, NEW exempt, Sound(g, exempt), NEW k, Dutiful(g, exempt, k),
         NEW kind \in ObligationKinds \ {"EVIDENCE"}, NEW severity \in {"HIGH", "CRITICAL"},
         NEW passed \in BOOLEAN
  PROVE  LET h == Gate(g, kind, severity, passed)
         IN  /\ Improves(g, h, exempt) /\ Sound(h, exempt) /\ Awaits(g, h)
             /\ 1 \in NodeIds(h)
             /\ passed => Dutiful(h, exempt, k + 1)
<1> DEFINE added == AddNode(g, Duty(kind, severity))
           seen == AddEvidence(added)
           duty == Latest(seen) - 1
           one == << Latest(seen) >>
           discharged == Discharge(seen, duty, one).graph
           refuted == Refute(seen, duty, one).graph
<1>1. /\ Improves(g, added, exempt) /\ Sound(added, exempt) /\ Awaits(g, added)
      /\ Dutiful(added, exempt, k + 1) /\ Latest(added) \in Nat \ {0, 1}
  BY DutyAdded
<1>2. 1 \in NodeIds(added)
  BY <1>1 DEF Dutiful
<1>3. EvidenceNode \in Fresh /\ EvidenceNode.source # "pipeline"
  BY AddedNodes DEF ObligationKinds, Severities
<1> HIDE DEF added
<1>4. /\ Improves(added, seen, exempt) /\ Sound(seen, exempt) /\ Awaits(added, seen)
      /\ Spares(added, seen) /\ Latest(seen) = Latest(added) + 1
  BY <1>1, <1>2, <1>3, AddingKeeps DEF AddEvidence
<1> HIDE DEF seen
<1>5. /\ Improves(g, seen, exempt) /\ Awaits(g, seen) /\ Dutiful(seen, exempt, k + 1)
      /\ 1 \in NodeIds(seen)
  BY <1>1, <1>2, <1>4, ImprovesTransitive, DutifulKept, IntentStays DEF Awaits
<1>6. duty \in Nat /\ duty # 1 /\ one \in Seq(Nat)
  <2>1. duty = Latest(added) /\ Latest(seen) \in Nat
    BY <1>1, <1>4
  <2> QED
    BY <1>1, <2>1, OneId
<1> HIDE DEF duty, one
<1>7. /\ Improves(seen, discharged, exempt) /\ Sound(discharged, exempt)
      /\ Awaits(seen, discharged) /\ Spares(seen, discharged)
  BY <1>4, <1>5, <1>6, DischargeKeeps
<1>8. Improves(seen, refuted, exempt) /\ Sound(refuted, exempt) /\ Awaits(seen, refuted)
  BY <1>4, <1>5, <1>6, RefuteKeeps
<1>9. Gate(g, kind, severity, passed) = IF passed THEN discharged ELSE refuted
  BY DEF Gate, added, seen, duty, one
<1> HIDE DEF discharged, refuted
<1>10. Dutiful(discharged, exempt, k + 1)
  BY <1>4, <1>5, <1>7, DutifulKept
<1>11. /\ Improves(g, discharged, exempt) /\ Improves(g, refuted, exempt)
       /\ Awaits(g, discharged) /\ Awaits(g, refuted)
  BY <1>5, <1>7, <1>8, ImprovesTransitive DEF Awaits
<1>12. 1 \in NodeIds(discharged) /\ 1 \in NodeIds(refuted)
  BY <1>4, <1>5, <1>7, <1>8, IntentStays
<1> QED
  BY <1>7, <1>8, <1>9, <1>10, <1>11, <1>12

-----------------------------------------------------------------------------
(* What the stages leave.                                                  *)

(* A graph that a stage may take over: sound, with k duties and an intent. *)
Fit(g, exempt, k) == Sound(g, exempt) /\ Dutiful(g, exempt, k) /\ Intended(g)

(* It stays one under what touches neither the intent nor the duties,      *)
LEMMA FitKept ==
  ASSUME NEW g, NEW exempt, NEW k, Fit(g, exempt, k), NEW h,
         Improves(g, h, exempt), Awaits(g, h), Spares(g, h)
  PROVE  Fit(h, exempt, k)
  BY IntendedKept, DutifulKept DEF Fit, Improves

(* such as events, edges,                                                  *)
LEMMA FitSame ==
  ASSUME NEW g, NEW exempt, NEW k, Fit(g, exempt, k), NEW h, Improves(g, h, exempt),
         h.nodes = g.nodes
  PROVE  Fit(h, exempt, k)
  BY FitKept, SameNodes

(* the end of a stage,                                                     *)
LEMMA FitSettled ==
  ASSUME NEW g, NEW exempt, NEW k, Fit(g, exempt, k) PROVE Fit(Settle(g), exempt, k)
  BY FitSame, SettleKeeps DEF Fit

(* and the loops.                                                          *)
LEMMA FitLater ==
  ASSUME NEW g, NEW exempt, NEW k, Fit(g, exempt, k), NEW h \in Later(g, exempt)
  PROVE  Fit(h, exempt, k)
  BY FitKept DEF Later

(* A gate that is passed adds a duty; one that is not leaves the intent.   *)
LEMMA FitGate ==
  ASSUME NEW g, NEW exempt, NEW k \in Nat, Fit(g, exempt, k), NEW next, next = k + 1,
         NEW kind \in ObligationKinds \ {"EVIDENCE"}, NEW severity \in {"HIGH", "CRITICAL"}
  PROVE  /\ Fit(Gate(g, kind, severity, TRUE), exempt, next)
         /\ LET h == Gate(g, kind, severity, FALSE) IN Sound(h, exempt) /\ Intended(h)
<1>1. \A passed \in BOOLEAN :
        LET h == Gate(g, kind, severity, passed)
        IN  /\ Improves(g, h, exempt) /\ Sound(h, exempt) /\ Awaits(g, h)
            /\ passed => Dutiful(h, exempt, k + 1)
  BY GateKeeps DEF Fit
<1>2. \A passed \in BOOLEAN : Intended(Gate(g, kind, severity, passed))
  BY <1>1, IntendedKept DEF Fit
<1> QED
  BY <1>1, <1>2 DEF Fit

(* The ids of evidence that was added.                                     *)
LEMMA NewIdsTyped ==
  ASSUME NEW g, NEW h, NEW exempt, Sound(g, exempt), Improves(g, h, exempt)
  PROVE  NewIds(g, h) \in Seq(Nat)
<1>1. Latest(g) \in Nat /\ Latest(h) \in Nat /\ Latest(g) <= Latest(h)
  BY GraphTyped DEF Sound, Improves, Keeps, Grown, Latest
<1>2. NewIds(g, h) \in [1..(Latest(h) - Latest(g)) -> Nat]
  BY <1>1 DEF NewIds
<1> QED
  BY <1>1, <1>2, FunctionIsSeq

(* The execution contract and the conditions of success are discharged.    *)
LEMMA ConfirmedFits ==
  ASSUME NEW g, NEW exempt, NEW k, Fit(g, exempt, k), NEW evidence \in Seq(Nat),
         contract[2] \in Nat \ {0, 1}
  PROVE  Fit(Confirmed(g, evidence), exempt, k)
<1> DEFINE shown == IF evidence = << >> THEN AddEvidence(g) ELSE g
           ids == IF evidence = << >> THEN << Latest(shown) >> ELSE evidence
           kept == Discharge(shown, contract[2], ids).graph
           duties == SuccessConditions(shown)
           all == DischargeAll(kept, duties, ids)
<1>1. Confirmed(g, evidence) = all
  BY DEF Confirmed
<1>2. Fit(shown, exempt, k)
  <2>1. Sound(g, exempt) /\ 1 \in NodeIds(g)
    BY DEF Fit, Intended
  <2>2. AddEvidence(g) \in Later(g, exempt)
    BY <2>1, LaterIs, EvidenceLater
  <2> QED
    BY <2>2, FitLater
<1>3. Sound(shown, exempt) /\ shown \in Graph /\ Latest(shown) \in Nat /\ 1 \in NodeIds(shown)
  BY <1>2, GraphTyped DEF Fit, Sound, Latest, Intended
<1>4. ids \in Seq(Nat)
  BY <1>3, OneId
<1> HIDE DEF shown, ids
<1>5. /\ Improves(shown, kept, exempt) /\ Sound(kept, exempt)
      /\ Awaits(shown, kept) /\ Spares(shown, kept)
  BY <1>3, <1>4, DischargeKeeps
<1> HIDE DEF kept
<1>6. Fit(kept, exempt, k) /\ 1 \in NodeIds(kept)
  BY <1>2, <1>5, FitKept DEF Fit, Intended
<1>7. duties \in SUBSET NodeIds(kept) /\ 1 \notin duties
  <2>1. NodeIds(shown) \subseteq NodeIds(kept)
    BY <1>3, <1>5, GraphTyped DEF Improves, Keeps, Grown, NodeIds, Sound
  <2> QED
    BY <1>2, <2>1 DEF SuccessConditions, Find, Fit, Intended
<1> HIDE DEF duties
<1>8. all \in Relieved(kept, exempt, duties)
  BY <1>4, <1>5, <1>6, <1>7, ReliefLater
<1> HIDE DEF all
<1>9. Improves(kept, all, exempt) /\ Awaits(kept, all) /\ Spares(kept, all)
  BY <1>7, <1>8 DEF Relieved
<1> QED
  BY <1>1, <1>6, <1>9, FitKept

-----------------------------------------------------------------------------
(* What the ends of the stages leave.                                      *)

(* The graph that the exception handler leaves blocks a release.           *)
LEMMA UnhandledBlocks ==
  ASSUME NEW g, NEW exempt, Sound(g, exempt), 1 \in NodeIds(g)
  PROVE  LET added == AddNode(g, TaskNode("UNKNOWN", "OPEN", "CRITICAL", TRUE, "runtime"))
             h == Settle(Escalate(added, Latest(added), "reason").graph)
         IN  /\ Sound(h, exempt) /\ 1 \in NodeIds(h)
             /\ ~PromotionAllowed(h, "RELEASED")
<1> DEFINE node == TaskNode("UNKNOWN", "OPEN", "CRITICAL", TRUE, "runtime")
           added == AddNode(g, node)
           n == Latest(added)
           result == Escalate(added, n, "reason")
           raised == result.graph
           h == Settle(raised)
<1>1. node \in Fresh
  BY AddedNodes DEF ObligationKinds, Severities
<1>2. /\ node.kind = "UNKNOWN" /\ node.severity = "CRITICAL" /\ node.blocking
      /\ node.status = "OPEN"
  BY DEF TaskNode
<1> HIDE DEF node
<1>3. /\ Improves(g, added, exempt) /\ Sound(added, exempt) /\ added.nodes[n] = node
      /\ NodeIds(added) = NodeIds(g) \cup {n} /\ n = Latest(g) + 1
  BY <1>1, AddingKeeps
<1>4. n \in Nat /\ n # 1 /\ n \in NodeIds(added) /\ 1 \in NodeIds(added) /\ added \in Graph
  <2>1. Latest(g) \in Nat /\ Latest(g) >= 1
    BY GraphTyped DEF Sound, Latest, NodeIds
  <2> QED
    BY <1>3, <2>1 DEF Sound
<1> HIDE DEF added, n
<1>5. /\ result.ok \in BOOLEAN /\ Improves(added, raised, exempt) /\ Sound(raised, exempt)
      /\ SetsAtMost(added, result, n, {"ESCALATED"})
  BY <1>3, <1>4, ExplainKeeps, ExplainShape
<1> HIDE DEF result
<1>6. raised.nodes[n].status \in Unresolved
  <2>1. CASE ~result.ok
    BY <1>2, <1>3, <1>5, <2>1 DEF SetsAtMost, Unresolved
  <2>2. CASE result.ok
    <3>1. PICK value \in {"ESCALATED"}, why \in Explanations :
            raised.nodes = WithStatus(added.nodes, n, value, why)
      BY <1>5, <2>2 DEF SetsAtMost
    <3>2. raised.nodes[n].status = "ESCALATED"
      BY <1>4, <3>1, GraphTyped, WithStatusIs DEF NodeIds, ObligationStatuses
    <3> QED
      BY <3>2 DEF Unresolved
  <2> QED
    BY <1>5, <2>1, <2>2
<1>7. /\ raised.nodes[n].kind = "UNKNOWN" /\ raised.nodes[n].severity = "CRITICAL"
      /\ raised.nodes[n].blocking
  <2>1. Identity(raised.nodes[n]) = Identity(added.nodes[n])
    BY <1>4, <1>5 DEF Improves, Keeps, Grown
  <2> QED
    BY <1>2, <1>3, <2>1 DEF Identity
<1>8. NodeIds(added) \subseteq NodeIds(raised)
  BY <1>4, <1>5, GraphTyped DEF Improves, Keeps, Grown, NodeIds, Sound
<1> HIDE DEF raised
<1>9. Sound(h, exempt) /\ h.nodes = raised.nodes
  BY <1>5, SettleKeeps
<1>10. NodeIds(h) = NodeIds(raised)
  BY <1>9 DEF NodeIds
<1> HIDE DEF h
<1>11. ~PromotionAllowed(h, "RELEASED")
  <2>1. n \in NodeIds(h) /\ h.nodes[n] = raised.nodes[n]
    BY <1>4, <1>8, <1>9, <1>10
  <2> QED
    BY <1>6, <1>7, <2>1, BlockedNotPromoted
<1> QED
  BY <1>4, <1>8, <1>9, <1>10, <1>11 DEF h, raised, result, n, added, node

(* How many duties of the pipeline there are at each stage.                *)
Due == [preflight |-> 0, construct |-> 2, execute |-> 2, verify |-> 2, release |-> 3,
        safety |-> 4, review |-> 5, promote |-> 5]

(* A stage ends with an artifact withheld, with another stage to come, or  *)
(* with a release.                                                         *)
Withholds ==
  /\ task' = task /\ pc' = "graph" /\ status' # "RELEASED"
  /\ final' \in BOOLEAN /\ unresolved' \in Nat
  /\ Sound(graph', DeclaredIds(task)) /\ 1 \in NodeIds(graph')
  /\ ~PromotionAllowed(graph', "RELEASED")

Advances ==
  /\ task' = task /\ pc' \in Stages
  /\ final' \in BOOLEAN /\ unresolved' \in Nat
  /\ Sound(graph', DeclaredIds(task)) /\ Dutiful(graph', DeclaredIds(task), Due[pc'])
  /\ pc' # "promote" => Intended(graph')
  /\ contract'[1] \in Nat /\ contract'[2] \in Nat \ {0, 1}

Releases ==
  /\ task' = task /\ pc' = "graph" /\ status' = "RELEASED"
  /\ final' = TRUE /\ unresolved' \in Nat
  /\ Sound(graph', DeclaredIds(task)) /\ Dutiful(graph', DeclaredIds(task), 6)
  /\ PromotionAllowed(graph', "RELEASED")

(* What is recorded of a run, but for the graph and what depends on it.    *)
Recorded ==
  /\ task \in Tasks /\ final \in BOOLEAN /\ hasStore \in BOOLEAN /\ unresolved \in Nat
  /\ \A file \in Files \ {"bundle"} : disk[file] \subseteq Snapshots
  /\ index \subseteq Snapshots

(* RecordMatchesGraph is not inductive.  A run is withheld by the open     *)
(* intent, which nothing discharges before the last review, or by what an  *)
(* exception leaves; it is released with the six duties discharged, which  *)
(* have to be counted stage by stage.                                      *)
GraphInv ==
  /\ TableInv /\ Recorded
  /\ Sound(graph, DeclaredIds(task)) /\ 1 \in NodeIds(graph)
  /\ pc \in Stages => Dutiful(graph, DeclaredIds(task), Due[pc])
  /\ pc \in Stages \ {"promote"} => Intended(graph)
  /\ pc \in Stages \ {"preflight"} => contract[1] \in Nat /\ contract[2] \in Nat \ {0, 1}
  /\ VerdictMatchesGraph
  /\ Released => final /\ Dutiful(graph, DeclaredIds(task), 6)

(* The exception handler, before there is a verdict.                       *)
LEMMA UnhandledWithholds ==
  ASSUME NEW g, NEW more \in Nat, Sound(g, DeclaredIds(task)), 1 \in NodeIds(g),
         unresolved \in Nat, status # "RELEASED", Unhandled(g, more)
  PROVE  Withholds
<1> DEFINE added == AddNode(g, TaskNode("UNKNOWN", "OPEN", "CRITICAL", TRUE, "runtime"))
           h == Settle(Escalate(added, Latest(added), "reason").graph)
<1>1. graph' = h /\ task' = task /\ unresolved' = unresolved + more + 1
  BY DEF Unhandled, input
<1>2. /\ Sound(h, DeclaredIds(task)) /\ 1 \in NodeIds(h)
      /\ ~PromotionAllowed(h, "RELEASED")
  BY UnhandledBlocks
<1> HIDE DEF h, added
<1>3. pc' = "graph" /\ final' = TRUE /\ status' # "RELEASED"
  BY DEF Unhandled, Reach
<1> QED
  BY <1>1, <1>2, <1>3 DEF Withholds

(* An early return: the intent is still open.                              *)
LEMMA StopWithholds ==
  ASSUME NEW g, Sound(g, DeclaredIds(task)), Intended(g),
         NEW statements \in Statements, NEW severity \in Severities, NEW more \in Nat,
         NEW verdict \in {"REJECTED", "PARTIAL"}, NEW stages,
         Append(stages, verdict)[Len(Append(stages, verdict))] = verdict,
         unresolved \in Nat, status # "RELEASED", final \in BOOLEAN,
         Stop(g, statements, severity, more, verdict, stages)
  PROVE  Withholds
<1> DEFINE noted == AddRuntimeObligations(g, statements, severity)
<1>1. noted \in Results(g, DeclaredIds(task)) /\ 1 \in NodeIds(g)
  BY RuntimeLater DEF Intended
<1> HIDE DEF noted
<1>2. noted.graph \in Later(g, DeclaredIds(task))
  BY <1>1 DEF Results
<1>3. Sound(noted.graph, DeclaredIds(task)) /\ 1 \in NodeIds(noted.graph)
  BY <1>1, <1>2, LaterIs
<1>4. Intended(noted.graph)
  BY <1>2, IntendedKept DEF Later
<1>5. CASE /\ graph' = Settle(noted.graph) /\ unresolved' = unresolved + more
           /\ Reach(Append(stages, verdict)) /\ pc' = "graph" /\ UNCHANGED <<input, final, stored>>
  <2>1. Sound(graph', DeclaredIds(task)) /\ graph'.nodes = noted.graph.nodes
    BY <1>3, <1>5, SettleKeeps
  <2>2. Intended(graph')
    BY <1>4, <2>1 DEF Intended, NodeIds
  <2>3. status' = verdict
    BY <1>5 DEF Reach
  <2>4. ~PromotionAllowed(graph', "RELEASED") /\ 1 \in NodeIds(graph')
    BY <2>2, IntendedNotPromoted DEF Intended
  <2>5. task' = task /\ final' = final /\ pc' = "graph" /\ unresolved' \in Nat
    BY <1>5 DEF input
  <2> QED
    BY <2>1, <2>3, <2>4, <2>5 DEF Withholds
<1>6. CASE Unhandled(noted.graph, more)
  BY <1>3, <1>6, UnhandledWithholds
<1> QED
  BY <1>5, <1>6 DEF Stop, noted

(* So it is when the budget is exceeded.                                   *)
LEMMA BudgetWithholds ==
  ASSUME NEW g, Sound(g, DeclaredIds(task)), Intended(g), NEW stage,
         unresolved \in Nat, OverBudget(g, <<stage>>)
  PROVE  Withholds
<1> DEFINE node == TaskNode("RESOURCE", "OPEN", "HIGH", TRUE, "runtime")
           added == AddNode(g, node)
           h == Defer(added, Latest(added), "reason+retry").graph
<1>1. node \in Fresh /\ node.source # "pipeline" /\ 1 \in NodeIds(g)
  BY AddedNodes DEF ObligationKinds, Severities, Intended
<1> HIDE DEF node
<1>2. h \in Later(g, DeclaredIds(task))
  BY <1>1, LaterIs, DeferredLater
<1>3. /\ graph' = Settle(h) /\ unresolved' \in Nat /\ pc' = "graph" /\ final' = TRUE
      /\ task' = task /\ status' = "PARTIAL"
  BY LastOfTwo DEF OverBudget, Reach, input, node
<1> HIDE DEF h, added
<1>4. Sound(h, DeclaredIds(task)) /\ Intended(h)
  BY <1>1, <1>2, LaterIs, IntendedKept DEF Later
<1>5. Sound(graph', DeclaredIds(task)) /\ graph'.nodes = h.nodes
  BY <1>3, <1>4, SettleKeeps
<1>6. Intended(graph')
  BY <1>4, <1>5 DEF Intended, NodeIds
<1>7. ~PromotionAllowed(graph', "RELEASED") /\ 1 \in NodeIds(graph')
  BY <1>6, IntendedNotPromoted DEF Intended
<1> QED
  BY <1>3, <1>5, <1>7 DEF Withholds

(* A stage that goes on, with the duties of the next.                      *)
LEMMA ProceedAdvances ==
  ASSUME NEW next \in Stages, NEW g, NEW stages, Fit(g, DeclaredIds(task), Due[next]),
         Proceed(next, g, stages), final \in BOOLEAN, unresolved' \in Nat,
         contract'[1] \in Nat, contract'[2] \in Nat \ {0, 1}
  PROVE  Advances
<1>1. Fit(Settle(g), DeclaredIds(task), Due[next])
  BY FitSettled
<1>2. graph' = Settle(g) /\ pc' = next /\ task' = task /\ final' = final
  BY DEF Proceed, input
<1> QED
  BY <1>1, <1>2 DEF Advances, Fit

(* A list of statements that the pipeline itself writes.                   *)
LEMMA StatedTyped ==
  ASSUME NEW n \in Nat PROVE Stated(n) \in Statements /\ <<"stated">> \in Statements
<1>1. Stated(n) \in [1..n -> {"stated", "blank"}]
  BY DEF Stated
<1> QED
  BY <1>1, FunctionIsSeq DEF Statements

-----------------------------------------------------------------------------
(* The stages, one by one.                                                 *)

(* Where a stage starts from.                                              *)
LEMMA StageStart ==
  ASSUME GraphInv, pc \in Stages
  PROVE  /\ pc # "promote" => Fit(graph, DeclaredIds(task), Due[pc])
         /\ pc # "preflight" => contract[1] \in Nat /\ contract[2] \in Nat \ {0, 1}
         /\ status # "RELEASED" /\ unresolved \in Nat /\ final \in BOOLEAN
  BY DEF GraphInv, Recorded, Fit, TableInv, IInv, Final

(* The preflight denies.                                                   *)
LEMMA DeniedWithholds ==
  ASSUME GraphInv, PreflightDenied PROVE Withholds
<1> DEFINE g == Gate(graph, "POLICY", "HIGH", FALSE)
           h == AddRuntimeObligations(g, Stated(PreflightReasons), "HIGH").graph
<1>1. pc = "preflight" /\ Fit(graph, DeclaredIds(task), 0) /\ final \in BOOLEAN
  BY StageStart DEF PreflightDenied, Stages, Due
<1>2. Sound(g, DeclaredIds(task)) /\ Intended(g)
  BY <1>1, FitGate DEF ObligationKinds
<1>3. PreflightReasons \in Nat
  BY DEF PreflightReasons
<1> HIDE DEF g
<1>4. h \in Later(g, DeclaredIds(task))
  BY <1>2, <1>3, StatedTyped, RuntimeLater DEF Results, Severities, Intended
<1>5. /\ graph' = Settle(h) /\ pc' = "graph" /\ task' = task /\ final' = final
      /\ unresolved' = unresolved + PreflightReasons /\ status' = "REJECTED"
  BY DEF PreflightDenied, Reach, input, g
<1> HIDE DEF h
<1>6. Sound(h, DeclaredIds(task)) /\ Intended(h)
  BY <1>2, <1>4, LaterIs, IntendedKept DEF Later, Intended
<1>7. Sound(graph', DeclaredIds(task)) /\ graph'.nodes = h.nodes
  BY <1>5, <1>6, SettleKeeps
<1>8. Intended(graph')
  BY <1>6, <1>7 DEF Intended, NodeIds
<1>9. ~PromotionAllowed(graph', "RELEASED") /\ 1 \in NodeIds(graph')
  BY <1>8, IntendedNotPromoted DEF Intended
<1>10. unresolved' \in Nat
  BY <1>3, <1>5 DEF GraphInv, Recorded
<1> QED
  BY <1>1, <1>5, <1>7, <1>9, <1>10 DEF Withholds

(* The preflight allows: the decision and the execution contract.          *)
LEMMA AllowedAdvances ==
  ASSUME GraphInv, PreflightAllowed PROVE Advances
<1> DEFINE D == DeclaredIds(task)
           allowed == Gate(graph, "POLICY", "HIGH", TRUE)
           spec == Latest(allowed) + 1
           node == TaskNode("SPECIFICATION", "ACKNOWLEDGED", "HIGH", FALSE, "runtime")
           planned == AddNode(allowed, node)
           refined == AddEdge(planned, spec, 1, "REFINES").graph
           promised == AddNode(refined, Duty("REQUIREMENT", "HIGH"))
           linked == AddEdge(promised, spec + 1, spec, "DEPENDS_ON").graph
           stages == <<"INTENT_COMPILED", "ASSUMPTIONS_EXPOSED", "POLICY_PREFLIGHT">>
                     \o SubSeq(Ladder, 4, 8)
<1>1. Fit(graph, D, 0) /\ final \in BOOLEAN /\ unresolved' \in Nat
  BY StageStart DEF PreflightAllowed, Stages, Due
<1>2. contract' = <<spec, spec + 1>> /\ Proceed("construct", linked, stages)
  BY DEF PreflightAllowed
<1> HIDE DEF D, stages
<1>3. Fit(allowed, D, 1) /\ spec = Latest(allowed) + 1
  <2>1. "POLICY" \in ObligationKinds \ {"EVIDENCE"} /\ 0 \in Nat /\ 1 = 0 + 1
    BY DEF ObligationKinds
  <2>2. Fit(allowed, D, 1)
    BY <1>1, <2>1, FitGate
  <2> QED
    BY <2>2
<1> HIDE DEF allowed, spec
<1>4. node \in Fresh /\ node.source # "pipeline"
  <2>1. node \in Fresh
    BY AddedNodes DEF ObligationKinds, Severities
  <2> QED
    BY <2>1 DEF TaskNode
<1> HIDE DEF node
<1>5. Fit(planned, D, 1) /\ Latest(planned) = spec
  BY <1>3, <1>4, AddingKeeps, FitKept DEF Fit, Intended
<1> HIDE DEF planned
<1>6. Fit(refined, D, 1) /\ Latest(refined) = spec
  <2>1. Sound(planned, D) /\ "REFINES" \in Relations
    BY <1>5 DEF Fit, Relations
  <2>2. Improves(planned, refined, D) /\ refined.nodes = planned.nodes
    BY <2>1, AddEdgeKeeps
  <2> QED
    BY <1>5, <2>2, FitSame DEF Latest
<1> HIDE DEF refined
<1>7. Fit(promised, D, 2) /\ spec + 1 \in Nat \ {0, 1} /\ spec \in Nat
  <2>1. /\ Improves(refined, promised, D) /\ Sound(promised, D) /\ Awaits(refined, promised)
        /\ Dutiful(promised, D, 2) /\ spec + 1 \in Nat \ {0, 1}
    BY <1>6, DutyAdded DEF Fit, ObligationKinds
  <2>2. spec \in Nat
    BY <1>3, GraphTyped DEF Fit, Sound, Latest
  <2> QED
    BY <1>6, <2>1, <2>2, IntendedKept DEF Fit
<1> HIDE DEF promised
<1>8. Fit(linked, D, 2)
  <2>1. Sound(promised, D) /\ "DEPENDS_ON" \in Relations
    BY <1>7 DEF Fit, Relations
  <2>2. Improves(promised, linked, D) /\ linked.nodes = promised.nodes
    BY <2>1, AddEdgeKeeps
  <2> QED
    BY <1>7, <2>2, FitSame
<1> HIDE DEF linked
<1>9. Fit(linked, D, Due["construct"]) /\ "construct" \in Stages
  BY <1>8 DEF Due, Stages
<1> QED
  BY <1>1, <1>2, <1>7, <1>9, ProceedAdvances DEF D

(* What construct() returned.                                              *)
LEMMA ConstructLeaves ==
  ASSUME GraphInv, Construct PROVE Withholds \/ Advances
<1> DEFINE D == DeclaredIds(task)
           seen == AddEvidence(graph)
           supported == AddEdge(seen, Latest(seen), contract[1], "SUPPORTS").graph
<1>1. /\ Fit(graph, D, 2) /\ contract[1] \in Nat /\ contract[2] \in Nat \ {0, 1}
      /\ status # "RELEASED" /\ unresolved \in Nat /\ final \in BOOLEAN
  BY StageStart DEF Construct, Stages, Due
<1>2. PICK x \in Constructs :
        \/ ~x.success /\ Stop(graph, x.obligations, "HIGH", Len(x.obligations), "REJECTED", << >>)
        \/ Proceed("execute", supported, <<"ARTIFACT_CONSTRUCTED">>) /\ UNCHANGED unresolved
        \/ OverBudget(supported, <<"ARTIFACT_CONSTRUCTED">>)
  BY DEF Construct
<1>3. x.obligations \in Statements /\ Len(x.obligations) \in Nat
  BY InputsAssumption, LenProperties DEF Statements
<1>4. contract' = contract
  BY DEF Construct
<1> HIDE DEF D
<1>5. Fit(seen, D, 2)
  BY <1>1, LaterIs, EvidenceLater, FitLater DEF Fit, Intended
<1> HIDE DEF seen
<1>6. Fit(supported, D, 2)
  <2>1. Improves(seen, supported, D) /\ supported.nodes = seen.nodes
    BY <1>5, AddEdgeKeeps DEF Fit, Relations
  <2> QED
    BY <1>5, <2>1, FitSame
<1> HIDE DEF supported
<1>7. CASE Stop(graph, x.obligations, "HIGH", Len(x.obligations), "REJECTED", << >>)
  BY <1>1, <1>3, <1>7, StopWithholds, LastOfOne DEF Fit, D, Severities
<1>8. CASE Proceed("execute", supported, <<"ARTIFACT_CONSTRUCTED">>) /\ UNCHANGED unresolved
  BY <1>1, <1>4, <1>6, <1>8, ProceedAdvances DEF Due, Stages, D
<1>9. CASE OverBudget(supported, <<"ARTIFACT_CONSTRUCTED">>)
  BY <1>1, <1>6, <1>9, BudgetWithholds DEF Fit, D
<1> QED
  BY <1>2, <1>7, <1>8, <1>9

(* What execute() returned.                                                *)
LEMMA ExecuteLeaves ==
  ASSUME GraphInv, Execute PROVE Withholds \/ Advances
<1> DEFINE D == DeclaredIds(task)
<1>1. /\ Fit(graph, D, 2) /\ contract[1] \in Nat /\ contract[2] \in Nat \ {0, 1}
      /\ status # "RELEASED" /\ unresolved \in Nat /\ final \in BOOLEAN
  BY StageStart DEF Execute, Stages, Due
<1>2. PICK x \in Executes :
        LET seen    == AddEvidences(graph, x.evidence)
            checked == ApplyObligationResults(seen, x.checks)
            done    == Confirmed(checked.graph, NewIds(graph, seen))
        IN  \/ Unhandled(checked.graph, 0)
            \/ Stop(checked.graph, x.obligations, "HIGH", Len(x.obligations), "PARTIAL", << >>)
            \/ Proceed("verify", done, <<"EXECUTED">>) /\ UNCHANGED unresolved
            \/ OverBudget(done, <<"EXECUTED">>)
  BY DEF Execute
<1> DEFINE seen == AddEvidences(graph, x.evidence)
           checked == ApplyObligationResults(seen, x.checks)
           done == Confirmed(checked.graph, NewIds(graph, seen))
<1>3. /\ x.obligations \in Statements /\ Len(x.obligations) \in Nat
      /\ x.evidence \in Nat /\ x.checks \in Seq(Check)
  BY InputsAssumption, LenProperties DEF Statements
<1>4. contract' = contract
  BY DEF Execute
<1> HIDE DEF D
<1>5. Fit(seen, D, 2) /\ Improves(graph, seen, D)
  <2>1. seen \in Later(graph, D)
    BY <1>1, <1>3, EvidencesLater DEF Fit, Intended
  <2> HIDE DEF seen
  <2> QED
    BY <1>1, <2>1, FitLater DEF Later
<1>6. NewIds(graph, seen) \in Seq(Nat)
  BY <1>1, <1>5, NewIdsTyped DEF Fit
<1> HIDE DEF seen
<1>7. Fit(checked.graph, D, 2)
  <2>1. checked \in Results(seen, D)
    BY <1>3, <1>5, ChecksLater DEF Fit, Intended
  <2> HIDE DEF checked
  <2> QED
    BY <1>5, <2>1, FitLater DEF Results
<1> HIDE DEF checked
<1>8. Fit(done, D, 2)
  BY <1>1, <1>6, <1>7, ConfirmedFits
<1> HIDE DEF done
<1>9. CASE Unhandled(checked.graph, 0)
  BY <1>1, <1>7, <1>9, UnhandledWithholds DEF Fit, D, Intended
<1>10. CASE Stop(checked.graph, x.obligations, "HIGH", Len(x.obligations), "PARTIAL", << >>)
  BY <1>1, <1>3, <1>7, <1>10, StopWithholds, LastOfOne DEF Fit, D, Severities
<1>11. CASE Proceed("verify", done, <<"EXECUTED">>) /\ UNCHANGED unresolved
  BY <1>1, <1>4, <1>8, <1>11, ProceedAdvances DEF Due, Stages, D
<1>12. CASE OverBudget(done, <<"EXECUTED">>)
  BY <1>1, <1>8, <1>12, BudgetWithholds DEF Fit, D
<1> QED
  BY <1>2, <1>9, <1>10, <1>11, <1>12 DEF done, checked, seen

(* What verify() returned: the claim is one more duty.                     *)
LEMMA VerifyLeaves ==
  ASSUME GraphInv, Verify PROVE Withholds \/ Advances
<1> DEFINE D == DeclaredIds(task)
           claimed == AddNode(graph, Duty("CLAIM", "HIGH"))
           n == Latest(claimed)
<1>1. /\ Fit(graph, D, 2) /\ contract[1] \in Nat /\ contract[2] \in Nat \ {0, 1}
      /\ status # "RELEASED" /\ unresolved \in Nat /\ final \in BOOLEAN
  BY StageStart DEF Verify, Stages, Due
<1>2. PICK v \in Verifies :
        LET seen    == AddEvidences(claimed, Len(v.evidence))
            ids     == NewIds(claimed, seen)
            backed  == Discharge(seen, n, ids).graph
            proved  == IF StrongestStatus(v.evidence) = "KERNEL_VERIFIED"
                       THEN DischargeAll(backed, OpenProofs(backed), ids) ELSE backed
            reasons == IF v.obligations = << >> THEN <<"stated">> ELSE v.obligations
        IN  \/ Stop(seen, reasons, "HIGH", Len(reasons), "PARTIAL", << >>)
            \/ /\ Proceed("release", proved, <<"VERIFIED">>)
               /\ unresolved' = unresolved + Len(v.obligations)
  BY DEF Verify
<1> DEFINE seen == AddEvidences(claimed, Len(v.evidence))
           ids == NewIds(claimed, seen)
           backed == Discharge(seen, n, ids).graph
           all == DischargeAll(backed, OpenProofs(backed), ids)
           proved == IF StrongestStatus(v.evidence) = "KERNEL_VERIFIED" THEN all ELSE backed
           reasons == IF v.obligations = << >> THEN <<"stated">> ELSE v.obligations
<1>3. /\ v.obligations \in Statements /\ Len(v.obligations) \in Nat
      /\ Len(v.evidence) \in Nat
  BY InputsAssumption, LenProperties DEF Statements
<1>4. reasons \in Statements /\ Len(reasons) \in Nat
  BY <1>3, StatedTyped, LenProperties DEF Statements
<1>5. contract' = contract
  BY DEF Verify
<1> HIDE DEF D, reasons
<1>6. Fit(claimed, D, 3) /\ n \in Nat \ {0, 1}
  <2>1. /\ Improves(graph, claimed, D) /\ Sound(claimed, D) /\ Awaits(graph, claimed)
        /\ Dutiful(claimed, D, 3) /\ n \in Nat \ {0, 1}
    BY <1>1, DutyAdded DEF Fit, ObligationKinds
  <2> QED
    BY <1>1, <2>1, IntendedKept DEF Fit
<1> HIDE DEF claimed, n
<1>7. Fit(seen, D, 3) /\ Improves(claimed, seen, D)
  <2>1. seen \in Later(claimed, D)
    BY <1>3, <1>6, EvidencesLater DEF Fit, Intended
  <2> HIDE DEF seen
  <2> QED
    BY <1>6, <2>1, FitLater DEF Later
<1>8. ids \in Seq(Nat)
  BY <1>6, <1>7, NewIdsTyped DEF Fit
<1> HIDE DEF seen, ids
<1>9. Fit(backed, D, 3)
  <2>1. Improves(seen, backed, D) /\ Awaits(seen, backed) /\ Spares(seen, backed)
    BY <1>6, <1>7, <1>8, DischargeKeeps DEF Fit, Intended
  <2> QED
    BY <1>7, <2>1, FitKept
<1> HIDE DEF backed
<1>10. Fit(all, D, 3)
  <2>1. OpenProofs(backed) \in SUBSET NodeIds(backed) /\ 1 \notin OpenProofs(backed)
    BY <1>9 DEF OpenProofs, Find, Fit, Intended
  <2>2. all \in Relieved(backed, D, OpenProofs(backed))
    BY <1>8, <1>9, <2>1, ReliefLater DEF Fit, Intended
  <2> HIDE DEF all
  <2>3. Improves(backed, all, D) /\ Awaits(backed, all) /\ Spares(backed, all)
    BY <2>1, <2>2 DEF Relieved
  <2> QED
    BY <1>9, <2>3, FitKept
<1> HIDE DEF all
<1>11. Fit(proved, D, 3)
  BY <1>9, <1>10
<1> HIDE DEF proved
<1>12. CASE Stop(seen, reasons, "HIGH", Len(reasons), "PARTIAL", << >>)
  BY <1>1, <1>4, <1>7, <1>12, StopWithholds, LastOfOne DEF Fit, D, Severities
<1>13. CASE /\ Proceed("release", proved, <<"VERIFIED">>)
            /\ unresolved' = unresolved + Len(v.obligations)
  BY <1>1, <1>3, <1>5, <1>11, <1>13, ProceedAdvances DEF Due, Stages, D
<1> QED
  BY <1>2, <1>12, <1>13 DEF proved, all, backed, ids, seen, reasons

(* An adapter raised.                                                      *)
LEMMA RaisesWithholds ==
  ASSUME GraphInv, AdapterRaises PROVE Withholds
<1>1. Unhandled(graph, 0) /\ pc \in Stages /\ pc # "promote"
  BY DEF AdapterRaises, Stages
<1> QED
  BY <1>1, StageStart, UnhandledWithholds DEF Fit, Intended

(* The release policy.                                                     *)
LEMMA ReleaseLeaves ==
  ASSUME GraphInv, ReleasePolicy PROVE Withholds \/ Advances
<1> DEFINE D == DeclaredIds(task)
           denying == Gate(graph, "POLICY", "HIGH", FALSE)
           allowing == Gate(graph, "POLICY", "HIGH", TRUE)
<1>1. /\ Fit(graph, D, 3) /\ contract[1] \in Nat /\ contract[2] \in Nat \ {0, 1}
      /\ status # "RELEASED" /\ unresolved \in Nat /\ final \in BOOLEAN
  BY StageStart DEF ReleasePolicy, Stages, Due
<1>2. PICK denied \in BOOLEAN :
        \/ Stop(denying, Stated(ReleaseReasons(denied)), "HIGH", ReleaseReasons(denied),
                "REJECTED", <<"POLICY_RELEASE">>)
        \/ /\ Proceed("safety", allowing, <<"POLICY_RELEASE", "POLICY_REVIEWED">>)
           /\ UNCHANGED unresolved
  BY DEF ReleasePolicy
<1>3. contract' = contract
  BY DEF ReleasePolicy
<1>4. ReleaseReasons(denied) \in Nat
  BY DEF ReleaseReasons
<1> HIDE DEF D
<1>5. Fit(allowing, D, 4) /\ Sound(denying, D) /\ Intended(denying)
  <2>1. "POLICY" \in ObligationKinds \ {"EVIDENCE"} /\ 3 \in Nat /\ 4 = 3 + 1
    BY DEF ObligationKinds
  <2> QED
    BY <1>1, <2>1, FitGate
<1> HIDE DEF denying, allowing
<1>6. CASE Stop(denying, Stated(ReleaseReasons(denied)), "HIGH", ReleaseReasons(denied),
                "REJECTED", <<"POLICY_RELEASE">>)
  BY <1>1, <1>4, <1>5, <1>6, StatedTyped, StopWithholds, LastOfTwo DEF D, Severities
<1>7. CASE /\ Proceed("safety", allowing, <<"POLICY_RELEASE", "POLICY_REVIEWED">>)
           /\ UNCHANGED unresolved
  BY <1>1, <1>3, <1>5, <1>7, ProceedAdvances DEF Due, Stages, D
<1> QED
  BY <1>2, <1>6, <1>7

(* The safety review.                                                      *)
LEMMA SafetyLeaves ==
  ASSUME GraphInv, SafetyReview PROVE Withholds \/ Advances
<1> DEFINE D == DeclaredIds(task)
           denying == Gate(graph, "SAFETY", "CRITICAL", FALSE)
           allowing == Gate(graph, "SAFETY", "CRITICAL", TRUE)
<1>1. /\ Fit(graph, D, 4) /\ contract[1] \in Nat /\ contract[2] \in Nat \ {0, 1}
      /\ status # "RELEASED" /\ unresolved \in Nat /\ final \in BOOLEAN
  BY StageStart DEF SafetyReview, Stages, Due
<1>2. \/ Stop(denying, <<"stated">>, "CRITICAL", 1, "REJECTED", << >>)
      \/ Proceed("review", allowing, <<"SAFETY_REVIEWED">>) /\ UNCHANGED unresolved
  BY DEF SafetyReview
<1>3. contract' = contract
  BY DEF SafetyReview
<1> HIDE DEF D
<1>4. Fit(allowing, D, 5) /\ Sound(denying, D) /\ Intended(denying)
  <2>1. "SAFETY" \in ObligationKinds \ {"EVIDENCE"} /\ 4 \in Nat /\ 5 = 4 + 1
    BY DEF ObligationKinds
  <2> QED
    BY <1>1, <2>1, FitGate
<1> HIDE DEF denying, allowing
<1>5. CASE Stop(denying, <<"stated">>, "CRITICAL", 1, "REJECTED", << >>)
  <2>1. <<"stated">> \in Statements
    BY StatedTyped
  <2> QED
    BY <1>1, <1>4, <1>5, <2>1, StopWithholds, LastOfOne DEF D, Severities
<1>6. CASE Proceed("review", allowing, <<"SAFETY_REVIEWED">>) /\ UNCHANGED unresolved
  BY <1>1, <1>3, <1>4, <1>6, ProceedAdvances DEF Due, Stages, D
<1> QED
  BY <1>2, <1>5, <1>6

(* The adversarial review, which discharges what intents are open.         *)
LEMMA ReviewLeaves ==
  ASSUME GraphInv, AdversarialReview PROVE Withholds \/ Advances
<1> DEFINE D == DeclaredIds(task)
           seen == AddEvidence(graph)
           all == DischargeAll(seen, OpenIntents(seen), << Latest(seen) >>)
<1>1. /\ Fit(graph, D, 5) /\ contract[1] \in Nat /\ contract[2] \in Nat \ {0, 1}
      /\ status # "RELEASED" /\ unresolved \in Nat /\ final \in BOOLEAN
  BY StageStart DEF AdversarialReview, Stages, Due
<1>2. \/ Stop(graph, <<"stated">>, "HIGH", 1, "REJECTED", << >>)
      \/ Proceed("promote", all, <<"ADVERSARIAL_REVIEWED">>) /\ UNCHANGED unresolved
  BY DEF AdversarialReview
<1>3. contract' = contract
  BY DEF AdversarialReview
<1> HIDE DEF D
<1>4. Fit(seen, D, 5)
  BY <1>1, LaterIs, EvidenceLater, FitLater DEF Fit, Intended
<1>5. << Latest(seen) >> \in Seq(Nat)
  <2>1. Latest(seen) \in Nat
    BY <1>4, GraphTyped DEF Fit, Sound, Latest
  <2> QED
    BY <2>1, OneId
<1> HIDE DEF seen
<1>6. Sound(all, D) /\ Dutiful(all, D, 5)
  <2>1. OpenIntents(seen) \in SUBSET NodeIds(seen)
    BY DEF OpenIntents, Find
  <2>2. all \in Relieved(seen, D, OpenIntents(seen))
    BY <1>4, <1>5, <2>1, ReliefLater DEF Fit, Intended
  <2> HIDE DEF all
  <2>3. Improves(seen, all, D) /\ Spares(seen, all)
    BY <2>2 DEF Relieved
  <2>4. Sound(all, D)
    BY <2>3 DEF Improves
  <2> QED
    BY <1>4, <2>3, <2>4, DutifulKept DEF Fit
<1> HIDE DEF all
<1>7. CASE Stop(graph, <<"stated">>, "HIGH", 1, "REJECTED", << >>)
  <2>1. <<"stated">> \in Statements
    BY StatedTyped
  <2> QED
    BY <1>1, <1>7, <2>1, StopWithholds, LastOfOne DEF D, Severities, Fit
<1>8. CASE Proceed("promote", all, <<"ADVERSARIAL_REVIEWED">>) /\ UNCHANGED unresolved
  <2>1. /\ graph' = Settle(all) /\ pc' = "promote" /\ task' = task /\ final' = final
        /\ unresolved' = unresolved
    BY <1>8 DEF Proceed, input
  <2>2. /\ Improves(all, Settle(all), D) /\ Sound(Settle(all), D)
        /\ Settle(all).nodes = all.nodes
    BY <1>6, SettleKeeps
  <2>3. Dutiful(Settle(all), D, 5)
    BY <1>6, <2>2, DutifulKept, SameNodes
  <2> QED
    BY <1>1, <1>3, <2>1, <2>2, <2>3 DEF Advances, D, Due, Stages
<1> QED
  BY <1>2, <1>7, <1>8

(* How many reasons a refused promotion has.                               *)
LEMMA ReasonsCounted ==
  ASSUME NEW g \in Graph PROVE PromotionReasons(g) \in Nat
<1>1. Blockers(g) \in SUBSET NodeIds(g)
  BY DEF Blockers, ActiveIds
<1>2. IsFiniteSet(Blockers(g))
  BY <1>1, GraphTyped, PositionsFinite, FS_Subset DEF NodeIds
<1>3. Cardinality(Blockers(g)) \in Nat
  BY <1>2, FS_CardinalityType
<1> QED
  BY <1>3 DEF PromotionReasons

(* The promotion gate: the last duty, and the verdict.                     *)
LEMMA PromotionLeaves ==
  ASSUME GraphInv, Promote PROVE Withholds \/ Releases
<1> DEFINE D == DeclaredIds(task)
           kept == Gate(graph, "PROVENANCE", "HIGH", TRUE)
           marked == Checkpoint(kept, "artifact_released")
<1>1. /\ Sound(graph, D) /\ Dutiful(graph, D, 5) /\ 5 + 1 = 6
      /\ status # "RELEASED" /\ unresolved \in Nat /\ final \in BOOLEAN
  BY StageStart DEF Promote, Stages, Due, GraphInv
<1>2. "PROVENANCE" \in ObligationKinds \ {"EVIDENCE"} /\ "artifact_released" \in Operations
  BY DEF ObligationKinds, Operations
<1>3. task' = task /\ pc' = "graph"
  BY DEF Promote, input
<1>4. \/ /\ PromotionAllowed(kept, "RELEASED") /\ graph' = Settle(marked)
         /\ status' = "RELEASED" /\ final' = TRUE /\ unresolved' = unresolved
      \/ /\ ~PromotionAllowed(kept, "RELEASED") /\ graph' = Settle(kept)
         /\ status' = "PARTIAL" /\ unresolved' = unresolved + PromotionReasons(kept)
         /\ final' = final
  BY DEF Promote, Reach
<1> HIDE DEF D
<1>5. Sound(kept, D) /\ 1 \in NodeIds(kept) /\ Dutiful(kept, D, 6)
  BY <1>1, <1>2, GateKeeps
<1> HIDE DEF kept
<1>6. /\ Improves(kept, marked, D) /\ Sound(marked, D)
      /\ marked.nodes = kept.nodes /\ marked.edges = kept.edges
  BY <1>2, <1>5, CheckpointKeeps
<1> HIDE DEF marked
<1>7. CASE /\ PromotionAllowed(kept, "RELEASED") /\ graph' = Settle(marked)
           /\ status' = "RELEASED" /\ final' = TRUE /\ unresolved' = unresolved
  <2>1. /\ Improves(marked, graph', D) /\ Sound(graph', D)
        /\ graph'.nodes = marked.nodes /\ graph'.edges = marked.edges
    BY <1>6, <1>7, SettleKeeps
  <2>2. PromotionAllowed(graph', "RELEASED")
    BY <1>5, <1>6, <1>7, <2>1, PromotionSame
  <2>3. Dutiful(marked, D, 6)
    BY <1>5, <1>6, DutifulKept, SameNodes
  <2>4. Dutiful(graph', D, 6)
    BY <1>6, <2>1, <2>3, DutifulKept, SameNodes
  <2> QED
    BY <1>1, <1>3, <1>7, <2>1, <2>2, <2>4 DEF Releases, D
<1>8. CASE /\ ~PromotionAllowed(kept, "RELEASED") /\ graph' = Settle(kept)
           /\ status' = "PARTIAL" /\ unresolved' = unresolved + PromotionReasons(kept)
           /\ final' = final
  <2>1. /\ Sound(graph', D) /\ graph'.nodes = kept.nodes /\ graph'.edges = kept.edges
    BY <1>5, <1>8, SettleKeeps
  <2>2. ~PromotionAllowed(graph', "RELEASED")
    BY <1>5, <1>8, <2>1, PromotionSame
  <2>3. unresolved' \in Nat
    BY <1>1, <1>5, <1>8, ReasonsCounted DEF Sound
  <2>4. 1 \in NodeIds(graph')
    BY <1>5, <2>1 DEF NodeIds
  <2> QED
    BY <1>1, <1>3, <1>8, <2>1, <2>2, <2>3, <2>4 DEF Withholds, D
<1> QED
  BY <1>4, <1>7, <1>8

-----------------------------------------------------------------------------
(* Every step keeps the record and the graph matched.                      *)

(* A stage does.                                                           *)
LEMMA StageMatched ==
  ASSUME GraphInv, TableInv', StageActions PROVE GraphInv'
<1>1. Withholds \/ Advances \/ Releases
  BY DeniedWithholds, AllowedAdvances, ConstructLeaves, ExecuteLeaves, VerifyLeaves,
     RaisesWithholds, ReleaseLeaves, SafetyLeaves, ReviewLeaves, PromotionLeaves
  DEF StageActions
<1>2. hasStore' = hasStore /\ disk' = disk /\ index' = index
  <2>1. StageStep
    BY StagesStep DEF GraphInv, TableInv
  <2> QED
    BY <2>1 DEF StageStep, stored
<1>3. IInv'
  BY DEF TableInv
<1>4. task' = task /\ final' \in BOOLEAN /\ unresolved' \in Nat
  BY <1>1 DEF Withholds, Advances, Releases
<1>5. Recorded'
  BY <1>2, <1>4 DEF Recorded, GraphInv
<1>6. CASE Withholds \/ Releases
  <2>1. pc' \notin Stages /\ status' \in Final
    BY <1>3, <1>6 DEF Withholds, Releases, IInv, Persisting, Files, Stages
  <2>2. Sound(graph', DeclaredIds(task')) /\ 1 \in NodeIds(graph')
    BY <1>4, <1>6 DEF Withholds, Releases, Dutiful
  <2>3. VerdictMatchesGraph'
    BY <1>6 DEF Withholds, Releases, VerdictMatchesGraph, Released
  <2>4. Released' => final' /\ Dutiful(graph', DeclaredIds(task'), 6)
    BY <1>4, <1>6 DEF Withholds, Releases, Released
  <2> QED
    BY <1>5, <2>1, <2>2, <2>3, <2>4 DEF GraphInv
<1>7. CASE Advances
  <2>1. status' \notin Final
    BY <1>3, <1>7 DEF Advances, IInv
  <2>2. ~Released'
    BY <2>1 DEF Released, Final
  <2>3. VerdictMatchesGraph'
    BY <2>1 DEF VerdictMatchesGraph
  <2>4. 1 \in NodeIds(graph')
    BY <1>7 DEF Advances, Dutiful
  <2> QED
    BY <1>4, <1>5, <1>7, <2>2, <2>3, <2>4 DEF GraphInv, Advances
<1> QED
  BY <1>1, <1>6, <1>7

(* What may be done to the graph of a run that has its verdict.            *)
LEMMA VerdictKept ==
  ASSUME GraphInv, TableInv', Recorded', pc' \notin Stages, task' = task, status' = status,
         Released => final',
         Improves(graph, graph', DeclaredIds(task)),
         graph'.nodes = graph.nodes, graph'.edges = graph.edges
  PROVE  GraphInv'
<1>1. Sound(graph, DeclaredIds(task)) /\ Sound(graph', DeclaredIds(task))
  BY DEF GraphInv, Improves
<1>2. 1 \in NodeIds(graph')
  BY DEF GraphInv, NodeIds
<1>3. PromotionAllowed(graph, "RELEASED") <=> PromotionAllowed(graph', "RELEASED")
  BY <1>1, PromotionSame
<1>4. VerdictMatchesGraph'
  BY <1>3 DEF GraphInv, VerdictMatchesGraph, Released
<1>5. Released' => Dutiful(graph', DeclaredIds(task), 6)
  BY <1>1, DutifulKept, SameNodes DEF GraphInv, Released
<1> QED
  BY <1>1, <1>2, <1>4, <1>5 DEF GraphInv, Released

(* What is written is a snapshot of the record.                            *)
LEMMA SnapshotTyped ==
  ASSUME GraphInv PROVE Snapshot \in Snapshots
<1>1. events \in Seq(StageNames) /\ status \in RunStatuses
  BY DEF GraphInv, TableInv, Led
<1>2. Len(events) \in Nat
  BY <1>1, LenProperties
<1> QED
  BY <1>1, <1>2 DEF Snapshot, Snapshots, GraphInv, Recorded

(* A write adds a snapshot, and the first a checkpoint to the graph.       *)
LEMMA WriteMatched ==
  ASSUME GraphInv, TableInv', FileWrites \/ IndexArtifact PROVE GraphInv'
<1> DEFINE D == DeclaredIds(task)
           marked == Checkpoint(graph, "obligation_routes_recommended")
<1>1. /\ task' = task /\ status' = status /\ final' = final /\ unresolved' = unresolved
      /\ hasStore' = hasStore /\ pc' \notin Stages
  BY DEF FileWrites, WriteGraph, WriteArtifact, WriteAudit, WriteBundle, IndexArtifact,
         record, input, Stages
<1>2. graph' \in {graph, Settle(marked)}
  BY DEF FileWrites, WriteGraph, WriteArtifact, WriteAudit, WriteBundle, IndexArtifact
<1>3. Sound(graph, D)
  BY DEF GraphInv
<1> HIDE DEF D
<1>4. /\ Improves(graph, marked, D) /\ Sound(marked, D)
      /\ marked.nodes = graph.nodes /\ marked.edges = graph.edges
  BY <1>3, CheckpointKeeps DEF Operations
<1> HIDE DEF marked
<1>5. /\ Improves(marked, Settle(marked), D)
      /\ Settle(marked).nodes = marked.nodes /\ Settle(marked).edges = marked.edges
  BY <1>4, SettleKeeps
<1>6. Improves(graph, graph', D) /\ graph'.nodes = graph.nodes /\ graph'.edges = graph.edges
  BY <1>2, <1>3, <1>4, <1>5, ItselfKept, ImprovesTransitive
<1>7. Recorded'
  <2>1. /\ \A file \in Files \ {"bundle"} : disk[file] \subseteq Snapshots
        /\ index \subseteq Snapshots /\ disk = [file \in Files |-> disk[file]]
    BY DEF GraphInv, Recorded, TableInv, IInv
  <2>2. /\ \A file \in Files \ {"bundle"} : disk'[file] \in {disk[file], {Snapshot}}
        /\ index' \in {index, {Snapshot}}
    BY <2>1 DEF FileWrites, WriteGraph, WriteArtifact, WriteAudit, WriteBundle, IndexArtifact,
                Files
  <2>3. {Snapshot} \subseteq Snapshots
    BY SnapshotTyped
  <2>4. /\ \A file \in Files \ {"bundle"} : disk'[file] \subseteq Snapshots
        /\ index' \subseteq Snapshots
    BY <2>1, <2>2, <2>3
  <2> QED
    BY <1>1, <2>4 DEF GraphInv, Recorded
<1> QED
  BY <1>1, <1>6, <1>7, VerdictKept DEF GraphInv, D

(* What is left of a file whose write fails.                               *)
LEMMA CutTyped ==
  ASSUME GraphInv, Cut
  PROVE  \A file \in Files \ {"bundle"} : disk'[file] \subseteq Snapshots
<1>1. /\ \A file \in Files \ {"bundle"} : disk[file] \subseteq Snapshots
      /\ disk = [file \in Files |-> disk[file]]
  BY DEF GraphInv, Recorded, TableInv, IInv
<1>2. \A file \in Files \ {"bundle"} : disk'[file] \in {disk[file], {}}
  BY <1>1 DEF Cut
<1> QED
  BY <1>1, <1>2

(* A write that fails, in the handler's way or after it.                   *)
LEMMA FailureMatched ==
  ASSUME GraphInv, TableInv', PersistFails PROVE GraphInv'
<1> DEFINE D == DeclaredIds(task)
<1>1. /\ IInv /\ Sound(graph, D) /\ 1 \in NodeIds(graph) /\ VerdictMatchesGraph
      /\ (Released => final) /\ unresolved \in Nat
  BY DEF GraphInv, TableInv, Recorded
<1>2. status \in Final /\ status' = status /\ index' = {}
  BY <1>1, FailurePreserves DEF PersistFails, IInv
<1>3. \A file \in Files \ {"bundle"} : disk'[file] \subseteq Snapshots
  BY CutTyped DEF PersistFails
<1>4. task' = task /\ hasStore' = hasStore /\ pc' \notin Stages
  BY DEF PersistFails, Unhandled, input, Stages
<1>5. CASE final /\ UNCHANGED <<input, graph, record, final>>
  <2>1. Recorded'
    BY <1>2, <1>3, <1>4, <1>5 DEF GraphInv, Recorded, record
  <2>2. Improves(graph, graph', D) /\ graph'.nodes = graph.nodes /\ graph'.edges = graph.edges
    BY <1>1, <1>5, ItselfKept
  <2> QED
    BY <1>2, <1>4, <1>5, <2>1, <2>2, VerdictKept
<1>6. CASE ~final /\ Unhandled(graph, 0)
  <2>1. status # "RELEASED"
    BY <1>1, <1>6 DEF Released
  <2>2. Withholds
    BY <1>1, <1>6, <2>1, UnhandledWithholds
  <2>3. Recorded'
    BY <1>2, <1>3, <1>4, <2>2 DEF GraphInv, Recorded, Withholds
  <2>4. VerdictMatchesGraph' /\ ~Released'
    BY <2>2 DEF Withholds, VerdictMatchesGraph, Released
  <2> QED
    BY <1>4, <2>2, <2>3, <2>4 DEF GraphInv, Withholds
<1> QED
  BY <1>5, <1>6 DEF PersistFails

(* The death of the process.                                               *)
LEMMA CrashMatched ==
  ASSUME GraphInv, TableInv', Crash PROVE GraphInv'
<1>1. /\ task' = task /\ status' = status /\ final' = final /\ unresolved' = unresolved
      /\ hasStore' = hasStore /\ pc' \notin Stages /\ graph' = graph /\ index' = index
  BY DEF Crash, record, input, Stages
<1>2. \A file \in Files \ {"bundle"} : disk'[file] \subseteq Snapshots
  <2>1. UNCHANGED disk => Cut
    BY DEF Cut
  <2> QED
    BY <2>1, CutTyped DEF Crash
<1>3. Recorded'
  BY <1>1, <1>2 DEF GraphInv, Recorded
<1>4. Improves(graph, graph', DeclaredIds(task))
  BY <1>1, ItselfKept DEF GraphInv
<1> QED
  BY <1>1, <1>3, <1>4, VerdictKept DEF GraphInv

(* Every step.                                                             *)
LEMMA GraphStep == GraphInv /\ [Next]_vars => GraphInv'
<1> SUFFICES ASSUME GraphInv, [Next]_vars PROVE GraphInv'
  OBVIOUS
<1>1. TableInv'
  BY TableStep DEF GraphInv
<1>2. CASE UNCHANGED vars
  BY <1>1, <1>2 DEF vars, GraphInv, Recorded, VerdictMatchesGraph, Released
<1> QED
  BY <1>1, <1>2, NextIsOneOf, StageMatched, WriteMatched, FailureMatched, CrashMatched

(* A run starts with the intent open and no duty imposed.                  *)
LEMMA GraphInit == Init => GraphInv
<1> SUFFICES ASSUME Init PROVE GraphInv
  OBVIOUS
<1> DEFINE D == DeclaredIds(task)
           start == FromTask(task)
<1>1. /\ task \in Tasks /\ graph = Settle(start) /\ status = "INTAKE" /\ unresolved = 0
      /\ pc = "preflight" /\ final = FALSE /\ disk = [file \in Files |-> {}] /\ index = {}
      /\ hasStore \in BOOLEAN
  BY DEF Init
<1>2. TaskFields(task)
  BY <1>1, InputsAssumption DEF TaskFields
<1>3. /\ Sound(start, D) /\ 1 \in NodeIds(start) /\ start.nodes[1] = IntentNode
      /\ D \subseteq NodeIds(start)
      /\ \A n \in NodeIds(start) : n \in D \/ start.nodes[n] \in FromTheTask
  BY <1>2, FromTaskSound
<1> HIDE DEF start, D
<1>4. Sound(graph, D) /\ graph.nodes = start.nodes
  BY <1>1, <1>3, SettleKeeps
<1>5. NodeIds(graph) = NodeIds(start)
  BY <1>4 DEF NodeIds
<1>6. Intended(graph)
  BY <1>3, <1>4, <1>5 DEF Intended, IntentNode, TaskNode
<1>7. ImposedOf(graph, D) = {}
  BY <1>3, <1>4, <1>5 DEF ImposedOf, FromTheTask, IntentNode, TaskNode
<1>8. Cardinality(ImposedOf(graph, D)) = 0
  BY <1>7, FS_EmptySet
<1>9. Dutiful(graph, D, 0)
  BY <1>3, <1>5, <1>7, <1>8 DEF Dutiful
<1>10. status \notin Final /\ ~Released
  BY <1>1 DEF Final, Released
<1>11. Recorded
  BY <1>1 DEF Recorded
<1>12. Due[pc] = 0
  BY <1>1 DEF Due
<1> QED
  BY <1>1, <1>3, <1>4, <1>5, <1>6, <1>9, <1>10, <1>11, <1>12, TableInit
  DEF GraphInv, VerdictMatchesGraph, D

(* Pipeline.run and its two exception handlers: at every step, whatever    *)
(* the adapters answer and whatever fails, the graph is conserved but for  *)
(* what the task itself declares, an artifact is released exactly when the *)
(* persisted graph passes the promotion gate, and what released it is six  *)
(* duties discharged with evidence.                                        *)
THEOREM RecordStaysMatched == Spec => []RecordMatchesGraph
<1>1. GraphInv => RecordMatchesGraph
  <2> SUFFICES ASSUME GraphInv PROVE RecordMatchesGraph
    OBVIOUS
  <2>1. IInv /\ status \in RunStatuses /\ events \in Seq(StageNames)
    BY DEF GraphInv, TableInv, Led
  <2>2. Sound(graph, DeclaredIds(task)) /\ VerdictMatchesGraph
    BY DEF GraphInv
  <2>3. TypeOK
    BY <2>1, <2>2 DEF TypeOK, GraphInv, Recorded, IInv, Stages, Sound
  <2>4. ReleaseIsEarned
    <3>1. Imposed = ImposedOf(graph, DeclaredIds(task))
      BY DEF Imposed, ImposedOf
    <3>2. Released => /\ Dutiful(graph, DeclaredIds(task), 6)
                      /\ PromotionAllowed(graph, "RELEASED")
      BY DEF GraphInv, VerdictMatchesGraph, Released, Final
    <3> QED
      BY <2>2, <3>1, <3>2, PromotedIsEarned DEF ReleaseIsEarned
  <2>5. GraphConserved
    BY <2>2 DEF GraphConserved, Sound
  <2> QED
    BY <2>2, <2>3, <2>4, <2>5 DEF RecordMatchesGraph
<1> QED
  BY <1>1, GraphInit, GraphStep, PTL DEF Spec

=============================================================================
