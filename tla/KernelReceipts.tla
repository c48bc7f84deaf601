----------------------------- MODULE KernelReceipts -----------------------------
(***************************************************************************)
(* The federation of proof-kernel receipts                                 *)
(* (formalization/kernel_receipts.py).  Runners of several organizations   *)
(* replay one request and submit receipts; a quorum policy is evaluated on *)
(* what is on file.  Receipts and runners are objects that their owners    *)
(* keep: a runner's flag may be cleared and set, and a receipt altered in  *)
(* every field, signed anew, or replaced by another one of its receipt_id. *)
(* evaluate verifies again, and passes over what no longer verifies.       *)
(*                                                                         *)
(* Only the local profile has a signature that the core checks: it is what *)
(* the receipt said when it was sealed.  Of an external signature the core *)
(* checks that there is one.  The digests, the toolchain, the command and  *)
(* the names of the theorem and the project are one fact here, whether the *)
(* receipt answers the request.                                            *)
(***************************************************************************)
EXTENDS Naturals, FiniteSets

CONSTANTS
  Runner,
  Identity,        \* Identity[r], the KernelRunnerIdentity registered as r
  Claim,       \* what a receipt may say
  Offers,          \* the statements that runners submit
  ReceiptId,       \* the receipt_ids
  External,        \* signature material that the core does not check
  NoSignature,     \* a receipt's signature left empty
  Policies,        \* the policies that are evaluated
  MaxAlterations   \* bound: alterations of receipts on file

Verdicts == {"ACCEPTED", "REJECTED", "INCONCLUSIVE"}

Profiles == {"LOCAL_REFERENCE_HMAC", "EXTERNAL_ED25519", "SIGSTORE_BUNDLE"}

Statuses == {"NO_RECEIPTS", "INVALID_RECEIPTS", "CONFLICT", "INSUFFICIENT_QUORUM",
             "LOCAL_PROCESS_QUORUM", "FEDERATED_KERNEL_REPRODUCED"}

(* What the callers pass.                                                  *)
ReceiptsConstantsAreRight ==
  /\ \A r \in Runner : Identity[r].profile \in Profiles
  /\ \A s \in Claim : /\ s.runner \in Runner /\ s.verdict \in Verdicts
                          /\ s.code \in {0, 1} /\ {s.external, s.answers} \subseteq BOOLEAN
  /\ Offers \subseteq Claim
  /\ {External, NoSignature} \cap Claim = {} /\ External # NoSignature
  /\ \A p \in Policies : /\ {p.organizations, p.groups, p.platforms} \subseteq Nat
                          /\ {p.noRejections, p.externalOnly} \subseteq BOOLEAN
  /\ MaxAlterations \in Nat

VARIABLES
  runners,       \* the registered runners
  active,        \* those whose active flag is set
  receipts,      \* the receipts on file: their ids, what they say, their signatures
  decision,      \* the latest decision, or NoDecision
  alterations    \* alterations so far

receiptsVars == <<runners, active, receipts, decision, alterations>>

NoDecision == [status |-> "NONE"]

ReceiptsInit ==
  /\ runners = {} /\ active = {} /\ receipts = {}
  /\ decision = NoDecision /\ alterations = 0

-----------------------------------------------------------------------------
(* Verification.                                                           *)

Local(profile) == profile = "LOCAL_REFERENCE_HMAC"

SignatureHolds(e) ==
  /\ e.signature # NoSignature
  /\ Local(Identity[e.says.runner].profile) => e.signature = e.says

(* Fault: a receipt may name any organization and group.                   *)
VerifiesAnyOrganization(e) ==
  /\ e.says.runner \in active
  /\ e.says.profile = Identity[e.says.runner].profile
  /\ e.says.answers
  /\ e.says.verdict = "ACCEPTED" => e.says.code = 0
  /\ e.says.verdict = "REJECTED" => e.says.code # 0
  /\ SignatureHolds(e)

(* Fault: a seal counts, whatever it was set under.                        *)
VerifiesAnySeal(e) ==
  /\ e.says.runner \in active
  /\ e.says.organization = Identity[e.says.runner].organization
  /\ e.says.group = Identity[e.says.runner].group
  /\ e.says.profile = Identity[e.says.runner].profile
  /\ e.says.answers
  /\ e.says.verdict = "ACCEPTED" => e.says.code = 0
  /\ e.says.verdict = "REJECTED" => e.says.code # 0
  /\ e.signature # NoSignature

Verifies(e) ==
  /\ e.says.runner \in active
  /\ e.says.organization = Identity[e.says.runner].organization
  /\ e.says.group = Identity[e.says.runner].group
  /\ e.says.profile = Identity[e.says.runner].profile
  /\ e.says.answers
  /\ e.says.verdict = "ACCEPTED" => e.says.code = 0
  /\ e.says.verdict = "REJECTED" => e.says.code # 0
  /\ SignatureHolds(e)

Valid(on) == {e \in on : Verifies(e)}

Accepted(on) == {e \in Valid(on) : e.says.verdict = "ACCEPTED"}

Rejected(on) == {e \in Valid(on) : e.says.verdict = "REJECTED"}

-----------------------------------------------------------------------------
(* The decision on a set of receipts.                                      *)

Organizations(on) == {e.says.organization : e \in on}

Groups(on) == {e.says.group : e \in on}

Platforms(on) == {e.says.platform : e \in on}

(* Fault: receipts are counted, not the organizations they come from.      *)
QuorumOfReceipts(on, p) ==
  /\ Cardinality(Accepted(on)) >= p.organizations
  /\ Cardinality(Groups(Accepted(on))) >= p.groups - 1
  /\ Cardinality(Platforms(Accepted(on))) >= p.platforms

Quorum(on, p) ==
  /\ Cardinality(Organizations(Accepted(on))) >= p.organizations
  /\ Cardinality(Groups(Accepted(on))) >= p.groups
  /\ Cardinality(Platforms(Accepted(on))) >= p.platforms

AllExternal(on) ==
  /\ Accepted(on) # {}
  /\ \A e \in Accepted(on) : ~Local(e.says.profile) /\ e.says.external

(* Fault: a rejection is outvoted by more acceptances.                     *)
StatusByMajority(on, p) ==
  IF on = {} THEN "NO_RECEIPTS"
  ELSE IF Valid(on) = {} THEN "INVALID_RECEIPTS"
  ELSE IF p.noRejections /\ Rejected(on) # {}
          /\ Cardinality(Accepted(on)) \in 1..Cardinality(Rejected(on)) THEN "CONFLICT"
  ELSE IF ~Quorum(on, p) THEN "INSUFFICIENT_QUORUM"
  ELSE IF p.externalOnly /\ ~AllExternal(on) THEN "LOCAL_PROCESS_QUORUM"
  ELSE "FEDERATED_KERNEL_REPRODUCED"

Status(on, p) ==
  IF on = {} THEN "NO_RECEIPTS"
  ELSE IF Valid(on) = {} THEN "INVALID_RECEIPTS"
  ELSE IF p.noRejections /\ Accepted(on) # {} /\ Rejected(on) # {} THEN "CONFLICT"
  ELSE IF ~Quorum(on, p) THEN "INSUFFICIENT_QUORUM"
  ELSE IF p.externalOnly /\ ~AllExternal(on) THEN "LOCAL_PROCESS_QUORUM"
  ELSE "FEDERATED_KERNEL_REPRODUCED"

(* A copy of the receipts that were accepted stands for their ids; those   *)
(* that other decisions list are left out.                                 *)
Decision(p) ==
  IF Status(receipts, p) = "FEDERATED_KERNEL_REPRODUCED"
  THEN [status |-> "FEDERATED_KERNEL_REPRODUCED", policy |-> p, accepted |-> Accepted(receipts)]
  ELSE [status |-> Status(receipts, p)]

-----------------------------------------------------------------------------
(* Operations.                                                             *)

RegisterRunner(r, isActive) ==
  /\ r \notin runners
  /\ runners' = runners \cup {r}
  /\ active' = IF isActive THEN active \cup {r} ELSE active
  /\ UNCHANGED <<receipts, decision, alterations>>

(* The owner of the KernelRunnerIdentity sets or clears its flag.          *)
SetActive(r, isActive) ==
  /\ r \in runners
  /\ active' = IF isActive THEN active \cup {r} ELSE active \ {r}
  /\ UNCHANGED <<runners, receipts, decision, alterations>>

(* The receipt of that id is the one given; what had the id is gone.       *)
Filed(e) == {f \in receipts : f.id # e.id} \cup {e}

(* sign_local raises for any other runner.                                 *)
SignedLocally(id, s) == [id |-> id, says |-> s, signature |-> s]

(* A receipt without a signature is signed on the way in, if it is local.  *)
Submitted(id, s, given) ==
  IF Local(s.profile) /\ given = NoSignature THEN SignedLocally(id, s)
  ELSE [id |-> id, says |-> s, signature |-> given]

(* Fault: a runner's receipt takes the place of its earlier ones.          *)
SubmitReplacing(id, s, given) ==
  /\ s.runner \in runners /\ Verifies(Submitted(id, s, given))
  /\ receipts' = {f \in Filed(Submitted(id, s, given)) : f.says.runner = s.runner => f.id = id}
  /\ UNCHANGED <<runners, active, decision, alterations>>

(* Without a registered runner of that profile sign_local raises, and      *)
(* verify refuses what it would have signed.                               *)
Submit(id, s, given) ==
  /\ s.runner \in runners /\ Verifies(Submitted(id, s, given))
  /\ receipts' = Filed(Submitted(id, s, given))
  /\ UNCHANGED <<runners, active, decision, alterations>>

(* The owner of a receipt alters what it says, or takes its signature away.*)
Altered(e, says, signature) ==
  /\ alterations < MaxAlterations
  /\ alterations' = alterations + 1
  /\ receipts' = Filed([e EXCEPT !.says = says, !.signature = signature])
  /\ UNCHANGED <<runners, active, decision>>

Alter(e, s) == Altered(e, s, e.signature)

Erase(e) == Altered(e, e.says, NoSignature)

(* sign_local of a receipt that is on file.                                *)
Sign(e) ==
  /\ e.says.runner \in runners /\ Local(Identity[e.says.runner].profile)
  /\ receipts' = Filed(SignedLocally(e.id, e.says))
  /\ UNCHANGED <<runners, active, decision, alterations>>

Evaluate(p) ==
  /\ decision' = Decision(p)
  /\ UNCHANGED <<runners, active, receipts, alterations>>

ReceiptsNext ==
  \/ \E r \in Runner, isActive \in BOOLEAN : RegisterRunner(r, isActive) \/ SetActive(r, isActive)
  \/ \E id \in ReceiptId, s \in Offers, given \in {External, NoSignature} : Submit(id, s, given)
  \/ \E e \in receipts : (\E s \in Claim : Alter(e, s)) \/ Erase(e) \/ Sign(e)
  \/ \E p \in Policies : Evaluate(p)

ReceiptsSpec == ReceiptsInit /\ [][ReceiptsNext]_receiptsVars

-----------------------------------------------------------------------------
(* Properties.                                                             *)

IsReceipt(e) ==
  /\ e = [id |-> e.id, says |-> e.says, signature |-> e.signature]
  /\ e.id \in ReceiptId /\ e.says \in Claim
  /\ e.signature \in Claim \cup {External, NoSignature}

(* Types; each receipt has an id of its own, and whatever it says by now,  *)
(* what its seal holds for was said for a runner that is registered.       *)
ReceiptsTypeOK ==
  /\ runners \subseteq Runner /\ active \subseteq runners
  /\ alterations \in 0..MaxAlterations
  /\ \A e \in receipts : /\ IsReceipt(e)
                         /\ e.signature \in Claim => e.signature.runner \in runners
  /\ \A e, f \in receipts : e.id = f.id => e = f
  /\ decision = NoDecision \/ decision.status \in Statuses

Promoted == decision.status = "FEDERATED_KERNEL_REPRODUCED"

(* A reproduction rests on enough runners that were registered, of as many *)
(* organizations and provenance groups as the policy asked for, none local *)
(* if it asked for that, and a local one only for what it has sealed.  For *)
(* another runner it rests on a signature that the core has not checked.   *)
ReproductionIsBacked ==
  Promoted =>
    LET by == {Identity[e.says.runner] : e \in decision.accepted}
    IN  /\ \A e \in decision.accepted :
             /\ e.says.runner \in runners
             /\ Local(Identity[e.says.runner].profile) => e.signature = e.says
        /\ Cardinality({i.organization : i \in by}) >= decision.policy.organizations
        /\ Cardinality({i.group : i \in by}) >= decision.policy.groups
        /\ decision.policy.externalOnly => \A i \in by : ~Local(i.profile)

(* A kernel that rejected the theorem is not outvoted: while a rejection   *)
(* that verifies is on file, no quorum that asks for none is reached,      *)
(* however many runners accept; and it leaves the file by nothing but what *)
(* is done to that very receipt.                                           *)
RejectionHeeded ==
  \A e \in Rejected(receipts) :
    /\ \A p \in Policies :
         p.noRejections /\ Evaluate(p)
           => decision'.status \notin {"LOCAL_PROCESS_QUORUM", "FEDERATED_KERNEL_REPRODUCED"}
    /\ e \in receipts' \/ \E f \in receipts' \ receipts : f.id = e.id

RejectionsAreHeeded == [][RejectionHeeded]_receiptsVars

(* Running the same replay again changes nothing: a further receipt of a   *)
(* runner that says what an earlier one said leaves every decision as it is*)
SaysTheSame(e, f) == e.says = f.says /\ e.signature = f.signature

RepetitionIsIdle ==
  \A e, f \in receipts, p \in Policies :
    e # f /\ SaysTheSame(e, f) => Status(receipts \ {f}, p) = Status(receipts, p)

(* A decision on receipts rests on runners that are known to be different, *)
(* and not on how often each of them was asked.                            *)
ReproductionsAreBacked == ReceiptsTypeOK /\ ReproductionIsBacked /\ RepetitionIsIdle

=============================================================================
