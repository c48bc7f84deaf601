# NEXUS-U: a TLA+ verification project

NEXUS-U is an "obligation-centred" artifact factory: a task becomes a graph of
obligations, a pipeline constructs, executes, verifies and reviews an artifact,
every stage leaves obligations and evidence in the graph, and the artifact is
released only when the graph says that nothing blocking is unresolved.  This
directory holds TLA+ models of the parts of `src/src/nexus_u` in which order,
failure and concurrency decide whether that claim is true, the TLC runs that
check them, and TLAPS proofs of what matters most.  Paths below are relative to
`src/src/nexus_u/`.

## The system

| Component | State | Operations | Talks to | What is hard | What makes it correct |
|---|---|---|---|---|---|
| Obligation graph `core/obligation_graph.py` | nodes, edges, event list | `add_node`, `add_evidence`, `add_edge`, `discharge`, `refute`, `defer`, `escalate`, `transfer`, `checkpoint`, `from_task`, `verify_conservation`, `promotion_decision` | called by the pipeline, the router, integrations | operations that raise half way, any order of operations, statuses a task declares itself | every settled status has its support; nothing is erased; no cycle; events explain the active set |
| Pipeline `core/pipeline.py`, `state_machine.py`, `policy.py`, `resources.py`, `audit.py` | record, graph, audit chain | `run`: 15 stages, 2 handlers, `_persist` | adapters, policy engine, graph, router, bundle, store | exceptions at every call, a second persist from the handler, crash between writes | verdict = what the graph allows; verdict final; what is published is whole |
| Claims `core/claims.py` | none | rank, strongest status | pipeline, policy | maximum over a partial table | no claim above its evidence |
| Jobs `jobs/manager.py` | in-memory queue, thread pool, gauge | `submit`, `_run` | HTTP threads, pipeline, store | two tables written by threads that may fail; restart loses the queue | job row and artifact agree; statuses move forward; each accepted job settles |
| Control store `storage/sqlite.py` | tables (artifacts, obligations, jobs, routing outcomes, results) | one transaction per call | everything | concurrent writers, partial sequences of calls | each row follows its owner's protocol |
| Routing `routing/` | outcome history in the store | `recommend`, `record` | pipeline, store | reports late and out of order, repeated failure, ties of rounded scores | stagnation is noticed in time; critical duties go to tools on confidence only |
| Federation `federation/` | actors, submissions, dependencies; the callers' graph dictionaries | `register_actor`, `submit`, `evaluate`, `graph_digest`, `merge` | HTTP, CLI | evidence verified again after submissions were altered in any field or replaced under their id; early returns; a merge that writes into its inputs and joins names with colons | an approval rests on what was signed by a quorum of independent organizations; an objection on file is heeded; the merged graph is a graph |
| Kernel receipts `formalization/kernel_receipts.py` | runners, receipts | `register_runner`, `submit`, `evaluate` | CLI, benchmark | receipts altered in any field, replaced under their id, repeated; receipts that stop verifying are passed over | a quorum of registered, independent runners; a rejection that stands is not outvoted |
| Reproduction `benchmark/reproduction.py`, `reproduction/engine.py` | one output directory, the store | preregister, sign, verify, infer, write, gate | evaluator processes, HTTP threads, release gate | two runs into one directory, signed or not, dying processes, process ids used again | reproduced = untouched protocol and agreement of independent processes |
| Tension engine `tension/engine.py` | the callers' hypothesis objects | detect, generate, recommend, result | ledger | evidence that loses its validity, priors overwritten by a run | a tension is a conflict of the ledger; a result counts once and for what it tells |
| NEXUS kernel `kernel/` | environment of declarations; bundle and report files | `infer`, `check`, `whnf`, `normalize`, declare, verify; elaborate, bundle, replay | benchmark, CLI | index arithmetic under binders; kernel replaced between two reads of its digest | accepted terms are typed, reduction keeps types; what is called verified is proved |
| Git delivery `delivery/`, `adapters/git_delivery.py` | a clone, the source repository | construct, clone, apply, commands, inspect, verify | git, subprocesses, pipeline | failure and time-out at every command, and between commands; a removal that ignores its errors; others edit the source; a guard between execute and verify | judged on the recorded commit; a success keeps its contract; after a reported failure the workspace goes, if it can be removed |
| Trials, external challenge | sealed protocols, reports | freeze, run, compare | workers | protocol order | verdict only from the sealed protocol |
| Formalization, lower bounds | certificates, search frontier | verify, search | kernel bridge | search within a budget | a certificate covers every input |
| HTTP server, CLI, adapters, provenance, signing, observability, benchmarks | request local | one call each | all of the above | - | - |

The pipeline calls the graph's operations directly; `_persist` asks the router
for recommendations and records a checkpoint, writes the graph, the artifact,
the audit chain and the evidence bundle, and then indexes the artifact in the
control store.  Jobs run the pipeline on a pool of threads and write their own
rows in the same store.  HTTP clients see the two tables, nothing else.  The
tension engine reads the valid evidence of a ledger.  The Git adapter is called
by the pipeline, whose resource guard stands between its `execute` and its
`verify`.  The release gate reads what reproductions left in their directory.

`PROJECT.json` lists every component with its status, and under `hazards` each
place where the code could go wrong in a way a test would hardly reach.

## Modules

| Module | Models | State |
|---|---|---|
| `AccountableObligations` | the promise of README.md ("... but never silently erased") as fates of obligations, no graph | `fate` |
| `ObligationGraphOps` | every operation of the graph as an operator from a graph value to a result, conservation, promotion, `from_task` | - |
| `ObligationGraph` | one graph driven by any sequence of operations | `task`, `graph`, `ok` |
| `Claims` | ranks, evidence caps, release minimum | - |
| `RunOutcome` | the promise of a run: decide once, publish that decision | `outcome`, `published` |
| `Pipeline` | one call of `Pipeline.run` and `_persist` | record, graph, program counter, files, store row |
| `Jobs` | the job manager over many runs; a run is `RunOutcome` | rows, queue, per-job progress, gauge |
| `Routing` | router, stagnation detector and outcome history with concurrent workers | open duties, rows, what each worker is doing, the clock |
| `FederationLedger` | the evidence ledger | actors, those active, submissions on file with what they say and what was signed, satisfied dependencies, decisions |
| `GraphMerge` | digests, links and merges of the graphs of several repositories | the callers' dictionaries, links, the merged graph |
| `KernelReceipts` | the federation of kernel runners | runners, those active, receipts on file with what they say and their signatures, the latest decision |
| `Reproduction` | preregistered runs into one directory, the release gate's reading of it | step, secret and results of each run, files, manifest, store, gate |
| `Tension` | discovery over a `FederationLedger`, which it extends | the callers' hypotheses, the reports |
| `KernelCalculus` | terms, substitution, reduction, conversion, inference | - |
| `NexusKernel` | an environment and what was asked of it | `environment`, `verdict` |
| `KernelBundle` | surface elaboration, the benchmark's three files, `kernel-check`, kernels that are replaced | source, files, the running command and the kernel it imported |
| `GitDelivery` | the adapter, the workspace and the source repository in the hands of others | source, program counter, workspace and whether its removal failed, exit codes, checks |
| `FiniteSums` | no code: facts about sums over finite sets and folds over sequences that several proofs need | - |
| `ObligationGraphOps_proofs` | what each operation does to a sound graph, whoever calls it | - |
| `ObligationGraph_proofs`, `Jobs_proofs`, `Pipeline_proofs`, `Routing_proofs` | proofs about the module of that name | - |
| `Evidence_proofs` | proofs about the ledger, the tension engine that extends it, `GraphMerge` and `Reproduction` | - |
| `Artifacts_proofs` | proofs about `KernelReceipts` and `GitDelivery` | - |
| `MC*` | constants for TLC, and sums of components | - |

`MCGraphReaders`, `MCEvidence` and `MCArtifacts` run several components that
share no state in one model: they extend the modules of the components, and
`running` names the one that a behaviour exercises, while the others stay in one
of their initial states.  The properties that these runs check are the
definitions of the component modules, the same that the theorems state.  The
reachable states are the sum of those of the parts and not their product, and
nothing of a part is lost: a component that shares no state with another cannot
tell whether it moves.  Components that do
interact are composed properly: `Pipeline` calls the operations of
`ObligationGraphOps`, `Jobs` runs `RunOutcome`, which `Pipeline` implements,
`Tension` extends `FederationLedger`, `Reproduction` has the gate and both
runs in one state, `GitDelivery` the source's other users and the pipeline's guard.

### How the graph is represented

A node id is its position in `nodes` (insertion order; the code draws a uuid4).
`statement` and free metadata are dropped; of the metadata `verify_conservation`
reads whether the reason of the current status is there, which is the field
`why`.  `recent` holds the events since the last `Settle`, `mentioned` the ids
named by any event of the whole list, which is all that the history check
reads.  Operations that raise return the graph they leave behind: `Raised(g)`.
`Cyclic` says what `cycles` decides, not how it walks the graph.

In `ObligationGraph` one action is one call, with any arguments, including ids
that do not exist and evidence lists with bad, repeated and missing entries.
`CallersAssumption` states what callers in the repository do and the code does
not check: nodes are created OPEN or ACKNOWLEDGED, reasons are not empty, and
`transfer` is used with a transport relation.

### How a run is represented

An action of `Pipeline` is the code between two calls that can fail or answer
freely.  `pc` names the next one.  `Stop` is an early return: its obligations
become deferred nodes, the status becomes final, and the persist that follows is
inside the try block (`final = FALSE`), so that its failure runs `Unhandled`.
`Unhandled` and `OverBudget` are the two except clauses and lead to the last
persist (`final = TRUE`), whose failure leaves `run`.  `disk` holds for each file
what the record said when it was written, or `{}` when the file is absent or cut
short; the bundle holds what the three other files held.  `index` is the row.
A statement is "stated" or "blank": `add_node` refuses the second.  The number of
unresolved entries counts a repeated statement once per occurrence and the
errors of a refused promotion as one; only its being zero or not is read.

In `Jobs`, `step[j]` is the program counter of whatever thread has job `j`.
Threads are identical, so a pool is a bound on how many jobs are busy.  A store
write that fails moves the job along the exception's path and notes it in
`unwritten`, which the liveness property needs.

### How the other components are represented

`Routing`: a worker asks, tries, constructs its outcome (which takes the time
stamp) and only then stores it, so rows are stored late and out of order.  Scores
are the code's, with its tables: predictions in millionths, to which the code
rounds, utilities in quarters of a millionth since the least severity weighs a
quarter.  Debts and costs are whole numbers here.  Duties that agree on kind,
severity, blocking and family share a signature, and with it a history; the
window of the detector is taken by the places of the rows in time.

`FederationLedger`, `KernelReceipts`: what is on file is a set of records, of which
no two have the same id.  `says` is the statement that a submission or a receipt
makes by now, `signature` the statement that was signed; the HMAC is their
equality.  The owner keeps the object: `Alter` changes what it says in any field
and leaves the signature, also back again, `Sign` signs what it says by now, and
`Submit` under an id that is on file replaces what had it.  `SetActive` clears or
sets the flag of an actor or a runner; what else it was registered with stays as it
is, its key too.  An erased signature is for the ledger what an altered summary is;
for a receipt it matters, since a missing signature is the only thing that the core
checks of an external one, and `Erase` is an action.  An alteration of the id of a
submission on file has no effect on the dictionary, and one object that is filed
under two ids is covered by two that are altered alike.  A decision that
approves lists copies of what it counted (the code lists ids).

`GraphMerge`: a dictionary is a mark (what the metadata of a node hold) with
edges, and a digest is the graph it was taken of; what `namespace_graph` does to
the caller's metadata is part of `Merge`, also when it raises.  A name, of a
repository, a node or the two joined, is the sequence of its parts between
colons, so that ids of different nodes may be equal, as in the code.

`Reproduction`: a file is the run that wrote it.  An inference has a process id,
which an earlier process may have had, and answers anything or fails.  Each run,
and each look of the release gate, has a signing secret of its own or none, as it
is an argument of every call; a run without one writes no envelopes and leaves
those it finds.  The files that a run writes without a call in between that can
fail are one action.

`Tension`: probabilities are integer weights, normalized to numerators over their
least common denominator, likelihoods in parts of `Unit`, and entropies thousandths
of a bit read from a table `NLog` of n log2 n.  Floats are not modelled; utilities are
rounded as the code rounds them, down instead of to the nearest, in coarser units.

`KernelCalculus`: one shape of term for every constructor, so that `Shift`,
`Substitute` and `Normalize` are written once; a `KernelError` is the type `Bad`.
The kernel counts reductions and gives up; what it reduces has been given a type,
so that reduction ends, and the count is left out.

`KernelBundle`: a digest is what it was computed of.  A command imports the kernel
(`loaded`), and every later read of the digest reads the files as they are by then
(`sources`).  The benchmark reads it to verify (`Prove`), for the bundle (`Produce`), to
replay it (`Replay`) and for its checks (`Judge`), each an action; then `Write` writes
the report, the bundle and, if there is a secret, the envelope, one after another.
`kernel-check` reads the bundle and then replays it.  `Upgrade` replaces the
kernel's files at any moment; `replaced` remembers that it did so while a command
ran.  `CrashRun` kills a command and may cut the file it was writing, `Edit`
changes the bundle with or without a digest computed anew.

`GitDelivery`: a tree maps a path to a content or `Absent`.  A command of the
task may write files, commit, and exit with 0, 1, 124 (timed out) or 127 (not
found); one that is empty has no exit code.  A command that fails may or may not have
had its effect.  `Refuse` is a `GitWorkspaceError`, an empty command among them
after others ran; `Crash` is what execute does not catch, at any step and in the
middle of a command; `Exceed` is the pipeline's guard, `Others` whoever works in
the source meanwhile.  `CleanUp` is `rmtree(ignore_errors=True)`: it removes the
workspace, or does not, which nobody is told and the history variable `stuck`
remembers.

## Runs

| Run | Question | Bounds |
|---|---|---|
| `ObligationGraph` | does the law hold under every sequence of operations, also when the task declares settled statuses itself? | 3 tasks; 3 nodes, 2 edges when an operation starts (a call may add two more), ids 1..4 |
| `graph_readers` | promotion: is a release that was allowed taken back only for a duty that is new or was put aside? Routing: is stagnation noticed in time, and are critical duties left to people? | 5 declared nodes, 6 nodes and 2 edges when an operation starts; evidence, discharges, refutations, escalations and transfers (`ObligationGraph` has the other operations); 2 workers, 5 attempts, 7 portfolios of duties, 3 outcomes, 2 budgets |
| `Pipeline` | do verdict, graph, state machine, files and store agree in every run? | 33 tasks (9 for the gates, 24 for a declared obligation), 4 + 9 + 6 adapter results, raise, fail or crash at every point, store or none |
| `Jobs` | do rows, artifacts, queue and gauge agree, does every job settle? | 3 jobs, 2 threads, 1 restart, any write may fail |
| `evidence` | ledger, merges, reproductions: is every decision backed, is an objection heeded, is a merge faithful, is what was reproduced genuine? | 3 actors, 9 offers and 10 statements, 2 submission ids, 2 policies, one submission altered at a time (`OneIsAltered`); repositories "a", "a:b" and "d", each with one of 3 graphs of up to 2 nodes, 1 link, 1 change; 2 runs of 2 evaluators, 2 process ids, 2 answers, a secret or none |
| `tension` | is a tension a conflict of the ledger, what scores, what does a result count for, how often, is the experiment worth its cost? | 3 actors, 3 submission ids, one submission altered at a time, 3 hypotheses in 2 lists, 3 experiments or the default ones, 2 that are refused, 5 results, 2 reports, likelihoods in fortieths |
| `artifacts` | kernel: is what it accepts right? Bundles: is what is called verified proved? Receipts: is a reproduction backed, is a rejection heeded? Deliveries and reproductions: is a success what its contract says, does everything end? | terms of 60 nodes, 2 declarations, 3 universes, some 70 questions; 2 commands, 2 kernels, 1 edit, files of the kernel replaced once per command (`BundleBound`); 3 runners, 6 statements, 3 receipts, 1 alteration (`ReceiptsBound`); 13 tasks on 3 paths; 2 runs |
| `PromotedRefuted`, `AutoCleared`, `RetryConditions`, `VetoBlocks`, `leaked_workspace` | *violations*, see Divergences | small |

Why the bounds are enough.  The graph operations read one node, its edges and the
event tail, so a node, an evidence node and a third node to transfer to, link or
misuse exercise every branch, and every partial failure needs two evidence ids.
A cycle needs two edges.  A pipeline run is finite by itself; only its inputs are
chosen, one for each branch of the code that reads them.  Three jobs on two
threads are the least in which one job waits while two run, and one restart meets
them in every combination of steps.  Stagnation takes three failures, and a
worker that has asked before the third was stored adds one: the limit is four
attempts, so that five can break it.  A quorum of two organizations and two groups
takes two submissions, which is also enough for a conflict, a veto and a
replacement; `SupportIsMonotone` adds the third by itself.  Altering two
submissions at once would let each say anything, and each of the two can be altered
while the other stands.  Receipts take a third, a repetition or a rejection beside a
quorum; before the first receipt all runners are registered and at most one is
inactive, and with three on file none is altered, since two suffice for what an
alteration can do.  A pinned link needs a graph, a change after
the pin and a merge that raises first; links are resolved one by one, so that one
suffices.  Two nested names and one apart are all that a collision needs, and a
node on either side.  Two runs of two evaluators are the least
that can mix files, repeat a process id and disagree, and one secret the least that
two runs, or a run and the gate, can differ in.  The second report of the
tension engine is the first that starts from overwritten priors, and evidence on
two sides is all it takes to ask for one: `RunsAreOnTwoSubmissions` has runs report on
two submissions at most, while detection meets all three, repeated by lighter and
heavier actors and altered or deactivated between the reports.  Terms of two
nested binders are the least in which a wrong cutoff captures a variable, and
the reference theorem has seven binders.  The second
of two commands is the first that finds files of another, or another kernel's, and
files of the kernel replaced at any point between two of its reads are replaced
there once.  In `evidence` the two runs, the two process ids and the two submission
ids are interchangeable, in `tension` the three submission ids, which the symmetry
sets say; their temporal properties are action properties, for which symmetry is
sound.  In `graph_readers` the two workers are interchangeable; its temporal property
is an action property of the graph, which has no workers.

What each property says is stated above its definition; those of the sums are
conjunctions of the properties of one component.  `ImplementsPromise` and
`ImplementsOutcome` are refinements: the graph implements
`AccountableObligations` under the mapping `Fate` (a settled node without
support maps to "lost", which is no fate there), and a run implements
`RunOutcome` with its status as the outcome and its store row as what is
published.  `Jobs` builds on the second: `RunsKeepPromise`.

### Fairness

`Pipeline`: one thread executes the run, adapters bound their subprocesses with
timeouts, so a run that has not ended takes another step; a crash ends it.  The
formula `[]<>Ended \/ []<><<Run>>_vars` is `WF_vars(Run)` with `ENABLED` spelled
out.  `Jobs`: a thread that can go on does, and an idle thread takes the head of
the executor's FIFO queue; a client need not submit, and no write need succeed.
`EveryJobSettles` therefore excuses jobs whose process died and jobs for which
the store refused a write: nothing in the code resumes those.

`GitDelivery`: one thread executes the delivery, and every command and Git call
has a time-out, so that `Step` goes on; those who edit the source need not.
`Reproduction`: a run that was started is carried on, since the evaluators have
120 seconds; nobody has to start one, and the gate need not look.

## Divergences

Where the code and its documents disagree.  Five are runs:

* `PromotedRefuted`: docs/OBLIGATION_GRAPH.md:64 asks that required duties "exist
  and are satisfied"; `promotion_decision` (line 516) accepts REFUTED.
* `AutoCleared`: README.md:214, initial blocking obligations "are never
  auto-cleared"; `run` discharges open INTENT nodes (381-382) and requirements
  whose source is `task.success_conditions` (291-292), whoever declared them.
* `RetryConditions`: docs/OBLIGATION_GRAPH.md:43, "`DEFERRED` requires a reason
  and retry conditions"; `_add_runtime_obligations` (143) gives none and
  `verify_conservation` (469) asks for none.
* `VetoBlocks`: docs/FEDERATED_EVIDENCE.md:48, a veto "produces `BLOCKED` even when
  ordinary quorum is otherwise met"; `evaluate` (131) returns CONFLICT first.
* `leaked_workspace`: adapters/git_delivery.py:69, "verification removes it"; the
  resource guard of the pipeline (294) may raise between the two.

The rest was met while modelling.  Most of it contradicts no line that could be quoted
as a property, or a property would restate one line of code (two documents are
quoted below).  It is modelled as the code does it, and the properties are stated so
that they hold beside it and say what they except.

* federation/ledger.py:96 stores a submission under its id, whatever is there, and 101
  reads the obligation that a submission names by now.  A refutation that was
  accepted is therefore off the file of its obligation once its `obligation_id` was
  altered, or something was submitted under its `submission_id`, and what was blocked
  may be approved.  Altered in any other field it still blocks, as a reason, until it
  is signed anew.
  `ObjectionsStand` says that nothing else takes it away.
* federation/ledger.py:152 sums weights over submissions, so that a second
  submission of one actor counts again; organizations and groups are sets.
* federation/graph_merge.py:33 marks the caller's metadata and digests afterwards
  (42): a link that was pinned to the digest of an untouched graph stays
  unresolved in the first merge, and resolves when it is pinned after one.
* federation/graph_merge.py:28 joins the names of repository and node with a colon
  and nothing forbids colons in either: "a:b:c" is node "b:c" of "a" and node "c"
  of "a:b", and a link to the one is resolved by the other (59-62).
  `IdsAreOfOneNode` holds for repositories of which no name begins with another
  one and a colon.
* formalization/kernel_receipts.py:235 overwrites the receipt of the same
  `receipt_id`, and `evaluate` passes over an altered one: a rejection goes when
  something is done to its receipt, and `RejectionsAreHeeded` says by nothing else.
  Of an external signature only its presence is checked, so that an external
  receipt counts with whatever verdict it is altered to.
* formalization/kernel_receipts.py:266 reads the independence of a runner from its
  receipt, not from its registered identity.  `required_toolchain` and
  `expected_version_fragment` of a policy (125-126) are never consulted; the request's
  are.  Minimums are not validated: a policy that asks for no organization is met
  with no acceptance, also beside a rejection.
* reproduction/engine.py:201 lists the manifest of an earlier run in the new one;
  the release gate may attest the preregistration of one run beside the report of
  another, since it compares no protocol hash (scripts/release_gate.py:283); and
  `label_firewall_verified` (267) compares a hash with the hash of the same value, as
  external_challenge/engine.py:92 does.
* benchmark/reproduction.py:63 and 69 write the two envelopes only if there is a
  secret: after a run without one the envelopes of an earlier, signed run stay, and
  the release gate (scripts/release_gate.py:293-313) verifies envelopes without
  comparing what is in them with the files beside them.  `NothingLeftBehind` excepts
  the envelopes of runs that sign none.
* docs/TENSION_DRIVEN_DISCOVERY.md:59, the engine "updates hypothesis probabilities and
  calculates the reduction in unresolved tension"; where the prior entropy is zero, as
  with a single hypothesis, tension/engine.py:310 takes the remaining fraction for
  zero, so that whatever came out ends in TENSION_REDUCED with nothing updated.  That
  is why `AmbiguousResolvesNothing` and `ExcludedResolvesNothing` ask that something
  was open.
* In tension/engine.py, hypotheses that are used again keep the tension id of an
  earlier run (266); utilities are rounded before they are compared (170), which can
  hide up to half a millionth in each, so that `RecommendedTells` holds up to that; an
  experiment is recommended also when none tells anything; and no template generates
  HUMAN_POLICY_DECISION.
* routing/router.py selects DECOMPOSE for a stagnating duty also when DECOMPOSE is
  what was repeated; `FruitlessAttemptsAreBounded` counts the attempts elsewhere.
* delivery/git_workspace.py:166: the diff of a delivery omits files that are not
  tracked; a candidate without a change of its own succeeds when one of its
  commands leaves a file (236); the removals of a workspace (264, and
  adapters/git_delivery.py:138) ignore their errors, so that one may stay with nobody
  told; and what is not a GitWorkspaceError, as when a command cannot be split or
  executed or its output not decoded (150-163), leaves it too.
* docs/NEXUS_KERNEL.md:103, the result is "accepted by this exact NEXUS Kernel source
  digest": kernel/core.py:66 digests the files on disk, each time anew, and not the
  code that was loaded, so that a command during which the files are replaced names
  a kernel that proved nothing.  It may name two: `kernel_sha256` and
  `verification.kernel_sha256` are read apart and never compared
  (kernel/theorems.py:122).  `NamedKernelProved` excepts such commands.
* core/obligation_graph.py:425: `cycles` raises KeyError at an edge to a node that
  is not there, which `from_dict` may read.

## Proofs

Every theorem holds for all values of the constants that the module's assumptions
allow.  Where a component's constants are described by a definition instead
(`ConstantsAreRight`, `DeliveryConstantsAreRight`, `EvaluatorsAreNamed`, ...), it is
the hypothesis of the theorem, and the run that checks the property evaluates it.

### The graph (`ObligationGraphOps_proofs`, `ObligationGraph_proofs`)

`TypeCorrect`, `Conservation`, `NoCycle`, `AccountabilityNeverLost` and
`GraphOnlyGrows` follow from one inductive invariant, `IInv`: the graph is typed,
conserved outside the declared ids, and acyclic.  Conservation alone is not
inductive: `Discharge` succeeds only if every edge was accepted, which needs the
types of ids and edges, and `from_task` must be shown to build an acyclic graph,
by the order of positions in which each edge goes from a later node to the first.
`StepSound` rests on a lemma per operation that says what it does to edges, statuses
and mentioned ids.  These lemmas are about any sound graph (`Sound`, with the ids that
are exempt as a parameter), so that the proofs about a run cite the same ones.

`ReleaseStays`: what may be released is refused again only for a duty that is new or
was deferred, escalated or transferred since.  The decision asks for conservation, for
statuses and for kinds with their support; conservation comes from `IInv` and,
for the declared ids that it exempts, from the lemma of each operation, and
`ReleaseGrows` says of a graph that grew what the rest of the decision keeps.
`EventsTellActiveSet`: the events of a call name every
obligation whose status it changed.  Each operation has a lemma on the events that
it appends and the statuses that it sets before it returns or raises.

`GraphKeepsPromise` is the refinement of `AccountableObligations`, with
`RaisingIsHarmless`.  Each operation has a lemma that says which ids it touches
and how it moves them in the abstract specification.  An operation changes at
most one fate, or two when a duty is transported to an heir, and then it is one
abstract step; an edge that is added with no status changed can still give a
declared status its support, which is the step `Substantiate`.

### Jobs and the pipeline (`Jobs_proofs`, `Pipeline_proofs`)

For every set of jobs, any number of threads and restarts: `JobsTypeCorrect`,
`TablesAgree`, `StatusOnlyMovesForward`, `EveryRunKeepsPromise`, `IdleGauge`,
`NoJobQueuedTwice`, of which the last two are `QueueStaysAccounted`.  `SettledJobHasArtifact` is not inductive: `Report` must know
that the artifact it reports on was published, and `Publish` that no other
artifact was.  `Following` says, for each value of `step`, what row, outcome and
artifact can be.

`VerdictStaysFinal`, `PublicationIsWhole`, `RunImplementsOutcome` and
`TableIsFollowed`.  That a row
points to whole files is not inductive: the row comes last, so the invariant says
for every write which files are whole before it, and that the record they hold is
the one the verdict was written into.  That statuses follow the table is not
inductive either: `Led` says that the status of the record is the last one among
the stages recorded, and `Reached` which status each value of `pc` stands for, so
that every `transition` is a row of the table.  The operations of the graph are not
expanded: these theorems hold whatever the adapters and reviews put into it.

`RecordStaysMatched` is about what they put into it: at every step the graph is
conserved but for what the task declares, a terminal verdict is RELEASED exactly
when the graph that is persisted passes the promotion gate, and a release has the
six duties of the pipeline discharged with evidence.  The verdict says nothing of
the stages before it, so the invariant, `GraphInv`, has to say why each way out
leaves the graph it should.  Three parts make it inductive:

* `Intended`: up to the last review the first node is the intent of the task, open,
  HIGH and blocking.  No stage touches it (`Awaits`), so whatever is refused, refuted,
  over budget or blank on the way leaves a graph that the gate refuses; after the
  review the handler's own node does, which is unresolved and CRITICAL
  (`UnhandledBlocks`).
* `Dutiful`: the pipeline has imposed exactly `Due[pc]` duties, each of them open or
  discharged.  The stages in between add none and reopen none (`Spares`); a gate that
  is passed adds one and discharges it, and one that is not ends the run
  (`GateKeeps`).  With nothing blocking, all six are discharged, and since the graph
  is conserved each has its evidence (`PromotedIsEarned`).
* after a verdict, nodes and edges no longer change, or the run was withheld and the
  handler blocks it once more: the gate says the same (`PromotionSame`).

Most of a stage is a loop over what an adapter returned, of any length: statements,
checks, evidence, duties to discharge.  They are folds, and `FiniteSums` gives the
induction for them (`FoldStays`, `FoldExists`): `RuntimeLater`, `ChecksLater`,
`EvidencesLater` and `ReliefLater` say what graph each leaves, by what one turn does
to it.  TLC checks `GraphInv` on the instance of the `Pipeline` run (166 150 states).

### Sums and folds (`FiniteSums`)

Weights, costs and debts are summed with `MapThenSumSet`.  The induction theorems of
the library take an operator, which no installed prover can instantiate, so
`FiniteSums` has an induction that takes a set instead (`SetInduction`): the numbers
that are not in it would be a finite set that `n |-> n - 1` maps into itself, and
the library says that an injection of a finite set into itself is onto.  From it
follow induction over subsets, that the function behind a sum exists and is
unique, what a sum of a union or a part is, and that a finite set with a total
order has a top.  `FoldLeft` is defined by the greatest position of the sequence that is
left, and is treated in the same way: the function behind it exists, and stays in any
set that holds the start and is closed under a turn.

### Ledger, tensions and merges (`Evidence_proofs`)

For every set of actors, offers and policies and any number of submissions;
`TypeOK`, `DecisionsAreBacked`, `ObjectionsStand` and `SupportIsMonotone` are those of
`FederationLedger`, and their theorems use none of `Tension`'s assumptions.

`LedgerTypeCorrect`, `ApprovalStaysBacked` and `RefutationIsHeeded`.  `Submit`, `Alter` and
`Sign` do one thing to the file: a submission takes the place of what had its id
(`Files`, `StepFiles`), and its signature is one that a registered actor gave for its
own organization.  That is what makes the types inductive, and with `ValidIsSigned`
(what verifies was signed as it is) an approval is backed by signatures and not by
what submissions say (`DecisionIsBacked`); decisions keep copies, so that later
alterations do not touch it (`FilesPreserves`).  A refutation on file is heeded for
either of two reasons, which `RefutedIsNotApproved` separates: it still verifies and
counts against the quorum, or it does not and is a reason itself.  `SupportIsNoLoss`: more support raises
every sum and every set that a policy compares, since no weight is negative.

`TensionMeansConflict`: the engine finds a tension exactly where valid support meets
valid contradiction.  Its threshold compares weights, and is passed since
`register_actor` refuses a weight that is not positive.  `RepetitionDoesNotScore`:
another submission of a provenance group, with no more weight than the group has,
changes no score.

`ResultsCountOnce`: a run normalizes the priors of its caller's hypotheses and writes
them back, so that the next run starts from what this one wrote.  The invariant
(`HeldInv`) says that a list of hypotheses has either the priors it was declared with or
their shares (`Start`), and every report that it started there (`Counted`).  It rests on
what `_normalize` computes: the shares over the least common denominator depend on the
proportions only (`SameProportions`), so that normalizing twice is normalizing once
(`NormalizeTwice`), and a factor common to all weights falls out (`NormalizeScaled`).
The proof needs no induction but that of sums; it holds for any weights, all zero too.

`DiscoveryTypeCorrect`, `RecommendationTells` and `AmbiguityResolvesNothing` have the
hypothesis `TableIsFull`: the table of logarithms goes on for all natural numbers, where
TLC is given the part that its instance reads.  What a table has to satisfy is an
assumption of `Tension`, which TLC evaluates: it is superadditive, as n log2 n and its
rounding are, from which it follows that an entropy is not negative (`LogsOfParts`).
Then: a score is a product of fractions and what remains of it a part
(`ScoreBounded`, `RemainingIsPart`); the first of the best utilities exists and is best
(`RecommendIsBest`), and a utility hides less than a unit (`UtilityRounds`); a result that
all hypotheses expect equally scales the weights by one factor, so that the distribution
stays, and with it entropy and score.  `ResultsTellWhatTheyCount` puts together what is
proved of results.

`MergeStaysFaithful`: a merge, also one that raises, takes the edges of its graphs and
the resolved links, joins nothing else and loses no node; an id stands for one node
and a link ends where it says, unless the names of two repositories are nested.  The
invariant says of every dictionary that its edges join its own nodes.  That names
collide only when nested is `IdsCollide`: of two equal sequences that begin with
different names, the shorter of these begins the longer (`BeginsWith`).

### Kernel receipts and deliveries (`Artifacts_proofs`)

`ReceiptsTypeCorrect`, `ReproductionKeepsBacking` and `ReproductionStaysBacked` follow
by the argument of the ledger: whatever is submitted, altered or sealed stores one
receipt in the place of what had its id (`Stores`, `StepStores`, `StoresPreserves`), and a
reproduction keeps copies of what it counted.  What verifies names the
organization and the group of a registered runner, so that a count of receipts'
organizations is one of registered identities (`EvaluatePreserves`), and what is said
of local runners is what they have sealed.  The last of the three has also that a
repetition does not count: without a receipt of which another one is a copy, every
decision is what it was.  `StandingObjectionsStand` has a second hypothesis, that a policy asks for one
organization at least: `evaluate` passes over what does not verify, and without it
a quorum of nothing is met (see Divergences).

`DeliveryTypeCorrect`, `JudgedOnItsCommit`, `SuccessIsKept` and `WorkspaceIsCleaned`
together are `DeliveryStaysFaithful`; after a failure that is reported, and after a
verification, the workspace is gone or its removal has failed.  The invariant adds what each step relies on:
the clone is read for the base before anything is written into it, and nobody
writes between the checks and the result, so that what was checked is what is
delivered.

### Reproductions (`Evidence_proofs`)

Under `EvaluatorsAreNamed` (no evaluator has the name of one of the other files of
the directory): `ReproductionTypeCorrect`, `ReproducedIsAgreedOn` and
`DirectoryIsItsOwn` together are `ReproductionStaysGenuine`.  A report only counts
distinct predictions and process ids; that a count tells that all agree and none
shares a process is the pigeonhole of `CountsTell`.  `DirectoryIsItsOwn` holds whatever
secrets the runs were given: a run that was alone has written every file of the
directory but the envelopes, and these too if it has a secret.

### Routing (`Routing_proofs`)

`FruitlessAttemptsBounded`: the bound on attempts is not inductive, since workers that
asked early report late.  The invariant counts, for each duty, the rows on file and
on their way together with those under way, and the window of the detector must be
shown to hold the latest rows, each of them once: rows have distinct time stamps,
so that their places in time are a bijection (`PlacesAreTaken`, again by counting).
`EscalationIsCaused` and `CriticalDutiesAreGuarded` say what stands behind a
decision.  `RoutingTypeCorrect` says that there always is one: costs and debts add
up to whole numbers, no mean is taken of no attempts, and of the scores one is the
best, because the order of the sort (utility, prediction, place) is total.
`HandoversStayDue` puts the three together.

### Only model-checked

* Liveness: `EveryRunEnds`, `EveryJobSettles`, `EverythingEnds`.  Fairness and
  `ENABLED` are outside what the installed backends support.
* `KernelIsSound`, `TypesArePreserved`, `BundlesAreProofs`: the checker is recursive, and
  what it computes for every term would take an induction over terms.
* `ExcludedResolvesNothing`: after an outcome that all hypotheses exclude the weights
  are equal, and that no distribution has more entropy is not true of every rounded
  table: the rounding of a distribution close to the equal one may put it above.

## Not modelled

* Trials and external challenge: the challenge seals an inference before the labels
  are read, as `Reproduction` does with more actors and a shared directory; the
  trials run the tension engine over a fixed corpus, in one thread.
* Formalization (decision-tree certificates, the Lean bridge, the microkernel) and
  the lower-bound laboratory: searches and checkers without shared state, over
  tables of fixed cases.  A bounded model would restate the tables; the checker
  that decides what is proved is the NEXUS kernel, which is modelled.
* The control store beyond the tables above: single-row inserts, each its own
  transaction, with no sequence of calls to protect.
* `from_dict` and the walk of `cycles`: a graph is read back to be routed, shown and
  summarized, none of which changes it, and `Cyclic` says what the walk decides.
* `build_receipt_request` and `make_reference_receipt`: digests of a project
  directory; `federation/io.py` and the rest of the release gate: reading files.
* HTTP parsing, the command line, configuration, integrations: one call each.
* Provenance, SBOM, attestation: layout.  Signing: an HMAC, an equality where a
  component uses it.  Observability counters: no reader inside the program.
* Discovery evaluator and obligation metrics: scoring formulas over floats.
* Benchmarks: drivers on fixed inputs, but for the files of the kernel's benchmark
  and of the reproduction, which others read and which are modelled.
* The subprocesses behind adapters, evaluators and Git: external, their results are
  inputs that may be anything, late or missing.

## Plan

Done: the graph, the pipeline and jobs, then routing, federation, kernel receipts,
reproduction, tension, the NEXUS kernel and its bundles, and Git delivery, and
the proofs above, which cover every refinement.  What would come next, in this
order:

* `CycleSearch`, the depth-first walk against `Cyclic`; the search of the
  lower-bound laboratory within its budget; the sealed challenge.
