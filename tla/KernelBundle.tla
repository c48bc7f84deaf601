------------------------------ MODULE KernelBundle ------------------------------
(***************************************************************************)
(* Proof bundles of the NEXUS kernel (kernel/surface.py, codec.py,         *)
(* theorems.py, benchmark/nexus_kernel.py): the reference theorem with its *)
(* named proof, elaborated, verified and written to a file together with   *)
(* the report of the benchmark; and the bundle that is read back, after    *)
(* the kernel's source or the file have changed.                           *)
(*                                                                         *)
(* A command imports the kernel, and reads the digest of its files each    *)
(* time it records or compares it, up to five times.  Files that are being *)
(* replaced have a digest of their own for as long.                        *)
(*                                                                         *)
(* The JSON form of a term is the term, its tag being the constructor; a   *)
(* digest is what it is computed of, and an envelope the run that signed   *)
(* it.  What a report says of the lines of the kernel's files is left out. *)
(***************************************************************************)
EXTENDS KernelCalculus, SequencesExt

CONSTANTS
  Digests,        \* the digests that the sources of the kernel have had
  EditedProofs,   \* the proofs that the bundle file is edited to hold
  NoDigest,       \* a bundle that names no kernel
  MaxRuns,        \* bound: processes
  MaxEdits        \* bound: edits of the bundle file

ASSUME BundleAssumption == {MaxRuns, MaxEdits} \subseteq Nat /\ NoDigest \notin Digests

VARIABLES
  sources,    \* the digest of the kernel's files, which source_digest() reads
  report,     \* nexus-kernel-benchmark.json
  bundle,     \* nexus-kernel-proof.json
  envelope,   \* nexus-kernel-benchmark.signed.json
  process,    \* the running command: its step, the kernel that it imported, what it made
  answer,     \* how the latest command ended
  runs, edits

bundleVars == <<sources, report, bundle, envelope, process, answer, runs, edits>>

NoFile == [kind |-> "none"]
Torn   == [kind |-> "torn"]     \* a write that was cut off
Idle   == [step |-> "idle", replaced |-> FALSE]
NoAnswer == [kind |-> "none"]

-----------------------------------------------------------------------------
(* The surface language: a variable has a name, and a binder the name of   *)
(* the variable it binds; elaborate replaces names by indices and raises   *)
(* (Bad) at an unbound or a shadowing name.                                *)

SVar(name) == Leaf("Var", name)
SPi(name, domain, codomain) == Node("Pi", name, <<domain, codomain>>)
SLam(name, domain, body)    == Node("Lam", name, <<domain, body>>)

IsBinder(op) == op \in {"Pi", "Lam", "Let"}

Index(name, context) == Min({i \in DOMAIN context : context[i] = name}) - 1

Below(t, i, context) == IF Binds(t.op, i) = 1 THEN <<t.label>> \o context ELSE context

Shadows(t, context) == IsBinder(t.op) /\ \E i \in DOMAIN context : context[i] = t.label

RECURSIVE Elaborate(_, _)
Elaborate(t, context) ==
  CASE t.op = "Var" -> IF \E i \in DOMAIN context : context[i] = t.label
                       THEN Var(Index(t.label, context)) ELSE Bad
    [] Shadows(t, context) -> Bad
    [] OTHER ->
         LET args == [i \in DOMAIN t.args |-> Elaborate(t.args[i], Below(t, i, context))]
         IN  IF \E i \in DOMAIN args : args[i] = Bad THEN Bad
             ELSE Node(t.op, IF IsBinder(t.op) THEN 0 ELSE t.label, args)

-----------------------------------------------------------------------------
(* sensitivity_to_query_surface()                                          *)

Arrow(left, right) == SPi("_", left, right)

Queried  == SVar("queried")
NotQ     == Arrow(Queried, EMPTY)
NotEqual == Arrow(SVar("equal"), EMPTY)
Preserve == Arrow(NotQ, SVar("same"))
Exact    == Arrow(SVar("same"), SVar("equal"))
Decidable == SumType(Queried, NotQ)

(* The premises and their types, the outermost first.                      *)
Premises ==
  << <<"queried", PROP>>, <<"same", PROP>>, <<"equal", PROP>>, <<"not_equal", NotEqual>>,
     <<"preserve", Preserve>>, <<"path_exact", Exact>>, <<"decide", Decidable>> >>

Closed(op, conclusion) ==
  FoldRight(LAMBDA premise, t : Node(op, premise[1], <<premise[2], t>>), Premises, conclusion)

SurfaceTheorem == Closed("Pi", Queried)

SurfaceProof ==
  LET contradiction == App(SVar("not_equal"), App(SVar("path_exact"),
                                                  App(SVar("preserve"), SVar("not_queried"))))
  IN  Closed("Lam", Match(SVar("decide"),
                          SLam("queried_proof", Queried, SVar("queried_proof")),
                          SLam("not_queried", NotQ, EmptyElim(contradiction, Queried)),
                          Queried))

Statement == Elaborate(SurfaceTheorem, << >>)
Proof   == Elaborate(SurfaceProof, << >>)

-----------------------------------------------------------------------------
(* Bundles.  A fresh kernel has no declarations.                           *)

Proves(proof, theorem) ==
  IsType(<< >>, theorem, << >>) /\ Checks(<< >>, proof, theorem, << >>)

Verification(proof, theorem) ==
  [kernel |-> sources, nodes |-> NodeCount(proof), depth |-> Depth(proof),
   theoremNodes |-> NodeCount(theorem), axioms |-> {}]

(* Fault: the digest is taken before the verification is added.            *)
SealEarly(payload) ==
  [kind |-> "bundle", payload |-> payload, digest |-> [payload EXCEPT !.verification = << >>]]

Seal(payload) == [kind |-> "bundle", payload |-> payload, digest |-> payload]

ProofBundle(verification) ==
  Seal([kernel |-> sources, theorem |-> Statement, proof |-> Proof, verification |-> verification])

(* Faults: the bundle's own verification is believed; its kernel is not    *)
(* compared.                                                               *)
AcceptsBelieving(b) ==
  /\ b.kind = "bundle" /\ b.digest = b.payload
  /\ b.payload.kernel \in {NoDigest, sources}

AcceptsAnyKernel(b) ==
  /\ b.kind = "bundle" /\ b.digest = b.payload
  /\ Proves(b.payload.proof, b.payload.theorem)

(* verify_bundle; a bundle need not name a kernel.                         *)
Accepts(b) ==
  /\ b.kind = "bundle" /\ b.digest = b.payload
  /\ Proves(b.payload.proof, b.payload.theorem)
  /\ b.payload.kernel \in {NoDigest, sources}

(* The checks of the benchmark that do not raise, and its mutations.       *)
ShallowLimit == 4

Refused(t) == Infer(<< >>, t, << >>) = Bad

ChecksPass(b) ==
  LET id == [name |-> "idProp", type |-> Pi(PROP, Pi(Var(0), Var(1))),
             value |-> Lam(PROP, Lam(Var(0), Var(0))), opaque |-> FALSE]
      term == App(App(Const("idProp"), EMPTY), EMPTY)
  IN  /\ b.payload.verification.axioms = {}
      /\ Checks(<< >>, id.value, id.type, << >>)
      /\ Normalize(<<id>>, term) = EMPTY /\ Convertible(<<id>>, term, EMPTY)
      /\ b.payload.kernel = sources
      /\ NodeCount(Proof) > ShallowLimit \/ Depth(Proof) > 20

MutationsRejected(b) ==
  /\ \A t \in {Var(0), App(EMPTY, EMPTY), EmptyElim(Lam(EMPTY, Var(0)), EMPTY), Const("fabricated")} :
       Refused(t)
  /\ ~Checks(<< >>, Lam(PROP, Var(0)), Statement, << >>)
  /\ ~Checks(<< >>, Proof, EMPTY, << >>)
  /\ ~Accepts([b EXCEPT !.payload.kernel = "0"])
  /\ ~Accepts([b EXCEPT !.payload.theorem = PROP])

-----------------------------------------------------------------------------
(* Operations.                                                             *)

BundleInit ==
  /\ sources \in Digests
  /\ report = NoFile /\ bundle = NoFile /\ envelope = NoFile
  /\ process = Idle /\ answer = NoAnswer
  /\ runs = 0 /\ edits = 0

(* A command begins: it imports the kernel.  It may have a signing secret. *)
Start(step, signs) ==
  /\ process = Idle /\ runs < MaxRuns
  /\ process' = [step |-> step, signs |-> signs, run |-> runs + 1,
                 loaded |-> sources, replaced |-> FALSE]
  /\ runs' = runs + 1
  /\ UNCHANGED <<sources, report, bundle, envelope, answer, edits>>

Goes(step, more) == process' = [process EXCEPT !.step = step] @@ more

Ends(how) == process' = Idle /\ answer' = how

Raise == Ends([kind |-> "raised", replaced |-> process.replaced])

(* proof_bundle(), the first thing the benchmark does: the proof is checked*)
(* and the digest read.                                                    *)
Prove ==
  /\ process.step = "prove"
  /\ IF Proves(Proof, Statement)
     THEN Goes("produce", [verification |-> Verification(Proof, Statement)]) /\ UNCHANGED answer
     ELSE Raise
  /\ UNCHANGED <<sources, report, bundle, envelope, runs, edits>>

(* The digest is read again, for the bundle.  Fault: the bundle that an    *)
(* earlier benchmark left is taken.                                        *)
ProduceCached ==
  /\ process.step = "produce"
  /\ Goes("replay", [made |-> IF bundle.kind = "bundle" THEN bundle
                              ELSE ProofBundle(process.verification)])
  /\ UNCHANGED <<sources, report, bundle, envelope, answer, runs, edits>>

Produce ==
  /\ process.step = "produce"
  /\ Goes("replay", [made |-> ProofBundle(process.verification)])
  /\ UNCHANGED <<sources, report, bundle, envelope, answer, runs, edits>>

(* Replaying the bundle raises when it fails.                              *)
Replay ==
  /\ process.step = "replay"
  /\ IF Accepts(process.made) THEN Goes("judge", << >>) /\ UNCHANGED answer
     ELSE Raise
  /\ UNCHANGED <<sources, report, bundle, envelope, runs, edits>>

(* The other checks and the mutations.                                     *)
Judge ==
  /\ process.step = "judge"
  /\ Goes("report", [passed |-> ChecksPass(process.made) /\ MutationsRejected(process.made)])
  /\ UNCHANGED <<sources, report, bundle, envelope, answer, runs, edits>>

Report == [kind |-> "report", bundle |-> process.made, run |-> process.run,
           loaded |-> process.loaded, replaced |-> process.replaced,
           status |-> IF process.passed THEN "NEXUS_KERNEL_VERIFIED" ELSE "BLOCKED"]

(* The report is written, then the bundle, then the envelope if there is a *)
(* secret.  Faults: the report goes to both files; the bundle is completed *)
(* after it was sealed; it is written first.                               *)
Sealed == process.made @@ [run |-> process.run]

Written(step) ==
  IF step = "bundle" /\ process.signs THEN Goes("sign", << >>) /\ UNCHANGED answer
  ELSE Ends([kind |-> "benchmark"])

WriteReportTwice ==
  /\ process.step \in {"report", "bundle"}
  /\ report' = Report /\ bundle' = Report
  /\ Ends([kind |-> "benchmark"])
  /\ UNCHANGED <<sources, envelope, runs, edits>>

WriteAnnotated ==
  /\ process.step = "report"
  /\ report' = Report
  /\ bundle' = [Sealed EXCEPT !.payload = @ @@ [status |-> Report.status]]
  /\ Ends([kind |-> "benchmark"])
  /\ UNCHANGED <<sources, envelope, runs, edits>>

WriteSwapped ==
  \/ /\ process.step = "report"
     /\ bundle' = Sealed /\ Goes("bundle", << >>)
     /\ UNCHANGED <<sources, report, envelope, answer, runs, edits>>
  \/ /\ process.step = "bundle"
     /\ report' = Report /\ Ends([kind |-> "benchmark"])
     /\ UNCHANGED <<sources, bundle, envelope, runs, edits>>

Write ==
  \/ /\ process.step = "report"
     /\ report' = Report /\ Goes("bundle", << >>)
     /\ UNCHANGED <<sources, bundle, envelope, answer, runs, edits>>
  \/ /\ process.step = "bundle"
     /\ bundle' = Sealed /\ Written("bundle")
     /\ UNCHANGED <<sources, report, envelope, runs, edits>>
  \/ /\ process.step = "sign"
     /\ envelope' = [kind |-> "envelope", run |-> process.run] /\ Written("sign")
     /\ UNCHANGED <<sources, report, bundle, runs, edits>>

(* The process dies, and the file that it was writing may be cut off.      *)
CrashRun ==
  /\ process # Idle
  /\ Ends(NoAnswer)
  /\ report' \in {report} \cup (IF process.step = "report" THEN {Torn} ELSE {})
  /\ bundle' \in {bundle} \cup (IF process.step = "bundle" THEN {Torn} ELSE {})
  /\ envelope' \in {envelope} \cup (IF process.step = "sign" THEN {Torn} ELSE {})
  /\ UNCHANGED <<sources, runs, edits>>

(* kernel-check: the file is read.                                         *)
ReadBundle ==
  /\ process.step = "read"
  /\ IF bundle.kind = "bundle" THEN Goes("check", [made |-> bundle]) /\ UNCHANGED answer
     ELSE Ends([kind |-> "refused"])
  /\ UNCHANGED <<sources, report, bundle, envelope, runs, edits>>

(* What was read is replayed, and the digest of the kernel's files is read.*)
KernelCheck ==
  /\ process.step = "check"
  /\ LET b == process.made
     IN  IF Accepts(b)
         THEN Ends([kind |-> "verified", named |-> b.payload.kernel, theorem |-> b.payload.theorem,
                    proof |-> b.payload.proof, loaded |-> process.loaded,
                    replaced |-> process.replaced])
         ELSE Ends([kind |-> "refused"])
  /\ UNCHANGED <<sources, report, bundle, envelope, runs, edits>>

(* The kernel's sources change, while a command runs or between two.       *)
Upgrade ==
  /\ sources' \in Digests \ {sources}
  /\ process' = [process EXCEPT !.replaced = process # Idle]
  /\ UNCHANGED <<report, bundle, envelope, answer, runs, edits>>

(* The bundle file is edited, by hand or by another producer, which may    *)
(* compute its digest anew.                                                *)
Edit(change) ==
  /\ bundle.kind = "bundle" /\ edits < MaxEdits
  /\ bundle' \in {[bundle EXCEPT !.payload = change], [bundle EXCEPT !.payload = change, !.digest = change]}
  /\ edits' = edits + 1
  /\ UNCHANGED <<sources, report, envelope, process, answer, runs>>

Changes(payload) ==
  {[payload EXCEPT !.proof = proof] : proof \in EditedProofs}
    \cup {[payload EXCEPT !.kernel = digest] : digest \in Digests \cup {NoDigest}}
    \cup {[payload EXCEPT !.verification.nodes = 0], [payload EXCEPT !.theorem = EMPTY]}

BundleNext ==
  \/ \E signs \in BOOLEAN : Start("prove", signs)
  \/ Start("read", FALSE)
  \/ Prove \/ Produce \/ Replay \/ Judge \/ Write \/ ReadBundle \/ KernelCheck \/ CrashRun
  \/ Upgrade
  \/ bundle.kind = "bundle" /\ \E change \in Changes(bundle.payload) : Edit(change)

BundleSpec == BundleInit /\ [][BundleNext]_bundleVars

-----------------------------------------------------------------------------
(* Properties.                                                             *)

(* Types; what a process holds depends on the step that it is at.          *)
BundleTypeOK ==
  /\ sources \in Digests /\ runs \in 0 .. MaxRuns /\ edits \in 0 .. MaxEdits
  /\ report.kind \in {"none", "torn", "report"} /\ bundle.kind \in {"none", "torn", "bundle"}
  /\ envelope.kind \in {"none", "torn", "envelope"}
  /\ process.step \in {"replay", "judge", "report", "bundle", "sign", "check"} =>
       process.made.kind = "bundle"

(* A bundle that nobody has edited replays as long as the kernel is the    *)
(* one that made it: what was sealed is all that is compared.              *)
UntouchedBundleReplays ==
  (bundle.kind = "bundle" /\ edits = 0 /\ bundle.payload.kernel = sources) => Accepts(bundle)

(* The benchmark fails, or reports BLOCKED, only because files of the      *)
(* kernel were replaced while it ran: the reference theorem, elaborated    *)
(* from names, is proved by every kernel.                                  *)
FailsOnlyOnChange ==
  /\ answer.kind = "raised" => answer.replaced
  /\ report.kind = "report" /\ report.status = "BLOCKED" => report.replaced

(* What kernel-check verifies is proved, whatever the file says of itself. *)
VerifiedIsProved == answer.kind = "verified" => HasType(<< >>, answer.proof, answer.theorem, << >>)

(* The kernel that a report or a verified bundle names is the one that was *)
(* imported and did the proving, whatever was installed before and after:  *)
(* unless files of it were replaced while the command ran.  Then the digest*)
(* is of files that nothing was proved with.                               *)
NamedKernelProved ==
  /\ answer.kind = "verified" /\ ~answer.replaced => answer.named \in {NoDigest, answer.loaded}
  /\ report.kind = "report" /\ ~report.replaced =>
       LET b == report.bundle.payload
       IN  {b.kernel, b.verification.kernel} = {report.loaded}

(* After any crash the bundle file is never of a later benchmark than the  *)
(* report beside it, nor the envelope than either.                         *)
ReportIsNotOlder ==
  /\ report.kind = "report" /\ bundle.kind = "bundle" => bundle.run <= report.run
  /\ envelope.kind = "envelope" =>
       /\ report.kind = "report" => envelope.run <= report.run
       /\ bundle.kind = "bundle" => envelope.run <= bundle.run

(* A report of status NEXUS_KERNEL_VERIFIED carries a proof of the         *)
(* theorem, without axioms, and what it says of the proof is true of it.   *)
VerifiedReportIsProved ==
  (report.kind = "report" /\ report.status = "NEXUS_KERNEL_VERIFIED") =>
    LET b == report.bundle.payload
    IN  b.theorem = Statement /\ b.verification.axioms = {}
        /\ b.verification.nodes = NodeCount(b.proof)
        /\ HasType(<< >>, b.proof, b.theorem, << >>)

(* What is called verified, in a report or by kernel-check, is proved, by  *)
(* the kernel that it names if that was left alone meanwhile, and the files*)
(* beside each other are in order.  An honest bundle is not refused: not by*)
(* the kernel that made it, and not by the benchmark that makes one.       *)
BundlesAreProofs ==
  /\ BundleTypeOK /\ VerifiedIsProved /\ VerifiedReportIsProved
  /\ NamedKernelProved /\ ReportIsNotOlder
  /\ UntouchedBundleReplays /\ FailsOnlyOnChange

=============================================================================
