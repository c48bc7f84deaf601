------------------------------ MODULE Reproduction ------------------------------
(***************************************************************************)
(* Preregistered reproductions (benchmark/reproduction.py,                 *)
(* reproduction/engine.py) with the directory they share: the server and   *)
(* the command line run them into one output directory, in threads or      *)
(* processes of their own, and the release gate (scripts/release_gate.py)  *)
(* reads what it finds there.                                              *)
(*                                                                         *)
(* A file is the run that wrote it.  The blind cases, the labels, the two  *)
(* registries and the preregistration of the bundle are written together.  *)
(* The inference of an evaluator is a process: it has an id, which may be  *)
(* one that an earlier process had, and ends with some predictions, or     *)
(* fails.  Metrics are a function of the predictions, as labels are fixed. *)
(* Each run, and the release gate, has a signing secret of its own or none;*)
(* an envelope is verified by the secret that it was signed with.          *)
(***************************************************************************)
EXTENDS Naturals, Sequences, FiniteSets

CONSTANTS
  Run,           \* the runs into the directory
  Evaluators,    \* the evaluators of a protocol, in their order
  Keys,          \* the keys for which there is a secret
  EvaluatorQuorum,   \* evaluator_quorum
  Pids,          \* process ids
  Predictions,   \* what an inference may answer
  Metrics,       \* Metrics[p], how predictions p score
  Secrets,       \* the values of NEXUS_U_SIGNING_KEY
  NoSecret,      \* it is not set, or empty
  Nothing        \* no such file

ReproductionConstantsAreRight ==
  /\ \A i, j \in DOMAIN Evaluators : Evaluators[i] = Evaluators[j] => i = j
  /\ EvaluatorQuorum \in 1..Len(Evaluators)
  /\ Predictions \subseteq DOMAIN Metrics /\ NoSecret \notin Secrets

VARIABLES
  step,       \* step[r], how far r is
  secret,     \* secret[r], the signing_secret that r was given
  amended,    \* amended[r], what changed after r was preregistered
  results,    \* results[r], the evaluator results so far, then in the report
  files,      \* the output directory, but for the manifest of the bundle
  manifest,   \* that manifest: what wrote the files it lists, and itself
  stored,     \* the reports in the control store
  gate,       \* what the latest run of the release gate found
  latest      \* the run that started last and whether it was alone (history)

reproductionVars == <<step, secret, amended, results, files, manifest, stored, gate, latest>>

Envelopes == {"preregistration.signed", "report.signed"}

Names == {"preregistration", "report", "bundle"} \cup Envelopes
         \cup {Evaluators[i] : i \in DOMAIN Evaluators}

Inputs == {"protocol", "corpus", "labels", "registry"}

Ended == {"done", "failed"}

Active == {r \in Run : step[r] \notin Ended \cup {"new"}}

NoGate == [approved |-> FALSE]

ReproductionInit ==
  /\ step = [r \in Run |-> "new"] /\ secret = [r \in Run |-> NoSecret]
  /\ amended = [r \in Run |-> {}]
  /\ results = [r \in Run |-> << >>]
  /\ files = [n \in Names |-> Nothing]
  /\ manifest = [by |-> Nothing, lists |-> << >>]
  /\ stored = {} /\ gate = NoGate
  /\ latest = [run |-> Nothing, alone |-> TRUE]

-----------------------------------------------------------------------------
(* What a run concludes.                                                   *)

(* Fault: equal scores are taken for equal predictions.                    *)
ReproducedByMetrics(rs) ==
  /\ Len(rs) >= EvaluatorQuorum
  /\ Cardinality({Metrics[rs[i].predictions] : i \in DOMAIN rs}) = 1
  /\ Cardinality({rs[i].pid : i \in DOMAIN rs}) = Len(rs)

(* Signatures, protocol matches and keys are as many as there are results, *)
(* and the label firewall compares a hash with itself.                     *)
Reproduced(rs) ==
  /\ Len(rs) >= EvaluatorQuorum
  /\ Cardinality({rs[i].predictions : i \in DOMAIN rs}) = 1
  /\ Cardinality({Metrics[rs[i].predictions] : i \in DOMAIN rs}) = 1
  /\ Cardinality({rs[i].pid : i \in DOMAIN rs}) = Len(rs)

-----------------------------------------------------------------------------
(* The steps of a run.                                                     *)

Moves(r, from, to) == step[r] = from /\ step' = [step EXCEPT ![r] = to]

Writes(r, name) == files' = [files EXCEPT ![name] = r]

Preregister(r, s) ==
  /\ Moves(r, "new", IF s = NoSecret THEN "ready" ELSE "preregistered")
  /\ secret' = [secret EXCEPT ![r] = s]
  /\ Writes(r, "preregistration")
  /\ latest' = [run |-> r, alone |-> Active = {}]
  /\ UNCHANGED <<amended, results, manifest, stored, gate>>

SignProtocol(r) ==
  /\ Moves(r, "preregistered", "ready")
  /\ Writes(r, "preregistration.signed")
  /\ UNCHANGED <<secret, amended, results, manifest, stored, gate, latest>>

(* The caller holds the protocol, the cases, the labels and the registry,  *)
(* and changes one of them (one is enough for the run to be refused).      *)
Amend(r, input) ==
  /\ step[r] = "ready" /\ amended[r] = {}
  /\ amended' = [amended EXCEPT ![r] = @ \cup {input}]
  /\ UNCHANGED <<step, secret, results, files, manifest, stored, gate, latest>>

(* Faults: a run whose inputs changed waits; only the protocol's own hash  *)
(* is verified.                                                            *)
VerifyWaits(r) ==
  /\ amended[r] = {}
  /\ Moves(r, "ready", "inferring")
  /\ UNCHANGED <<secret, amended, results, files, manifest, stored, gate, latest>>

VerifyProtocol(r) ==
  /\ Moves(r, "ready", IF "protocol" \in amended[r] THEN "failed" ELSE "inferring")
  /\ UNCHANGED <<secret, amended, results, files, manifest, stored, gate, latest>>

Verify(r) ==
  /\ Moves(r, "ready", IF amended[r] = {} THEN "inferring" ELSE "failed")
  /\ UNCHANGED <<secret, amended, results, files, manifest, stored, gate, latest>>

(* Fault: what an evaluator has signed before is not written again.        *)
InferOnce(r, pid, p) ==
  LET e == Evaluators[Len(results[r]) + 1]
  IN  /\ step[r] = "inferring" /\ Len(results[r]) < Len(Evaluators) /\ e \in Keys
      /\ results' = [results EXCEPT ![r] = Append(@, [pid |-> pid, predictions |-> p])]
      /\ files' = [files EXCEPT ![e] = IF @ = Nothing THEN r ELSE @]
      /\ UNCHANGED <<step, secret, amended, manifest, stored, gate, latest>>

Infer(r, pid, p) ==
  LET e == Evaluators[Len(results[r]) + 1]
  IN  /\ step[r] = "inferring" /\ Len(results[r]) < Len(Evaluators) /\ e \in Keys
      /\ results' = [results EXCEPT ![r] = Append(@, [pid |-> pid, predictions |-> p])]
      /\ Writes(r, e)
      /\ UNCHANGED <<step, secret, amended, manifest, stored, gate, latest>>

(* No secret for the key, a worker that returns an error, or 120 seconds.  *)
InferFails(r) ==
  /\ Moves(r, "inferring", "failed")
  /\ Len(results[r]) < Len(Evaluators)
  /\ results' = [results EXCEPT ![r] = << >>]
  /\ UNCHANGED <<secret, amended, files, manifest, stored, gate, latest>>

WriteBundle(r) ==
  /\ Moves(r, "inferring", "bundling")
  /\ Len(results[r]) = Len(Evaluators)
  /\ Writes(r, "bundle")
  /\ UNCHANGED <<secret, amended, results, manifest, stored, gate, latest>>

(* rglob finds the manifest of an earlier run as well.                     *)
WriteManifest(r) ==
  /\ Moves(r, "bundling", "bundled")
  /\ manifest' = [by |-> r, lists |-> <<files["bundle"], manifest.by>>]
  /\ UNCHANGED <<secret, amended, results, files, stored, gate, latest>>

(* Fault: a report is recorded before the run is known to have ended.      *)
WriteReportStored(r) ==
  /\ Moves(r, "bundled", IF secret[r] = NoSecret THEN "signed" ELSE "reported")
  /\ Writes(r, "report") /\ stored' = stored \cup {r}
  /\ UNCHANGED <<secret, amended, results, manifest, gate, latest>>

WriteReport(r) ==
  /\ Moves(r, "bundled", IF secret[r] = NoSecret THEN "signed" ELSE "reported")
  /\ Writes(r, "report")
  /\ UNCHANGED <<secret, amended, results, manifest, stored, gate, latest>>

SignReport(r) ==
  /\ Moves(r, "reported", "signed")
  /\ Writes(r, "report.signed")
  /\ UNCHANGED <<secret, amended, results, manifest, stored, gate, latest>>

Record(r) ==
  /\ Moves(r, "signed", "done")
  /\ stored' = stored \cup {r}
  /\ UNCHANGED <<secret, amended, results, files, manifest, gate, latest>>

(* The process dies, or the store is locked.  Results outlive it in the    *)
(* report, once that is written.                                           *)
Die(r) ==
  /\ r \in Active
  /\ step' = [step EXCEPT ![r] = "failed"]
  /\ results' = IF step[r] \in {"reported", "signed"} THEN results
                ELSE [results EXCEPT ![r] = << >>]
  /\ UNCHANGED <<secret, amended, files, manifest, stored, gate, latest>>

-----------------------------------------------------------------------------
(* validate_preregistered_reproduction, with its part of the attestations. *)

Present(names) == \A n \in names : files[n] # Nothing

(* The envelopes are verified, but not compared with what they go with.    *)
Approves(s) ==
  /\ Present({"report", "preregistration"}) /\ manifest.by # Nothing
  /\ Reproduced(results[files["report"]])
  /\ s # NoSecret => Present(Envelopes) /\ \A n \in Envelopes : secret[files[n]] = s

Gate(s) ==
  /\ gate' = IF Approves(s)
             THEN [approved |-> TRUE, protocol |-> files["preregistration"],
                   report |-> files["report"]]
             ELSE NoGate
  /\ UNCHANGED <<step, secret, amended, results, files, manifest, stored, latest>>

Step(r) ==
  \/ \E s \in Secrets \cup {NoSecret} : Preregister(r, s)
  \/ SignProtocol(r) \/ Verify(r)
  \/ \E pid \in Pids, p \in Predictions : Infer(r, pid, p)
  \/ InferFails(r)
  \/ WriteBundle(r) \/ WriteManifest(r) \/ WriteReport(r) \/ SignReport(r) \/ Record(r)

ReproductionNext ==
  \/ \E r \in Run : \/ Step(r)
                    \/ \E input \in Inputs : Amend(r, input)
                    \/ Die(r)
  \/ \E s \in Secrets \cup {NoSecret} : Gate(s)

(* A run that was started is carried on.                                   *)
Fairness == \A r \in Run : WF_reproductionVars(step[r] # "new" /\ Step(r))

ReproductionSpec == ReproductionInit /\ [][ReproductionNext]_reproductionVars /\ Fairness

-----------------------------------------------------------------------------
(* Properties.                                                             *)

(* Types; the store holds the reports of runs that ended well.             *)
ReproductionTypeOK ==
  /\ \A r \in Run : /\ secret[r] \in Secrets \cup {NoSecret}
                    /\ amended[r] \subseteq Inputs /\ Len(results[r]) <= Len(Evaluators)
                    /\ r \in stored <=> step[r] = "done"
  /\ files \in [Names -> Run \cup {Nothing}] /\ manifest.by \in Run \cup {Nothing}
  /\ gate.approved \in BOOLEAN

(* "Any later mutation invalidates it", and all of the evaluators agree on *)
(* every prediction, each in a process of its own: that is what a report of*)
(* PROCESS_REPRODUCED has behind it, in the store and at the release gate. *)
Behind(r) ==
  /\ amended[r] = {}
  /\ \A i, j \in DOMAIN Evaluators :
       /\ results[r][i].predictions = results[r][j].predictions
       /\ results[r][i].pid = results[r][j].pid => i = j

ReproducedMeansAgreement ==
  /\ \A r \in stored : Reproduced(results[r]) => Behind(r)
  /\ gate.approved => Behind(gate.report)

(* Whatever earlier runs left behind, done or broken off: the directory of *)
(* a run that ended well has all of the run's own files, if it was alone.  *)
(* The envelopes of an earlier run stay in it if this one signs none.      *)
NothingLeftBehind ==
  (latest.run \in Run /\ latest.alone /\ step[latest.run] = "done") =>
    /\ \A n \in Names \ Envelopes : files[n] = latest.run
    /\ secret[latest.run] # NoSecret => \A n \in Envelopes : files[n] = latest.run
    /\ manifest.by = latest.run

(* A reproduction is what its report says it is.                           *)
ReproductionIsGenuine == ReproductionTypeOK /\ ReproducedMeansAgreement /\ NothingLeftBehind

(* A run that was started ends: every evaluator answers or fails in time.  *)
EveryReproductionEnds ==
  \A r \in Run : step[r] # "new" ~> step[r] \in Ended

=============================================================================
