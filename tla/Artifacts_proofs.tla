---------------------------- MODULE Artifacts_proofs ----------------------------
(***************************************************************************)
(* The receipts of kernel runners and Git deliveries.                      *)
(*                                                                         *)
(* For any runners, receipts and policies, in whatever fields receipts are *)
(* altered and however often they are replaced: a reproduction is accounted*)
(* for by registered runners, a rejection that verifies is not outvoted,   *)
(* and a replay that is run again counts once.                             *)
(* For any tasks, commands and trees, and whatever others make of the      *)
(* source: a delivery is judged on the commit it recorded, one that        *)
(* succeeded keeps its contract, and a failure leaves no workspace but one *)
(* that could not be removed.                                              *)
(***************************************************************************)
EXTENDS KernelReceipts, GitDelivery, FiniteSetTheorems, SequenceTheorems, TLAPS

-----------------------------------------------------------------------------
(* The receipts.                                                           *)

(* ReproductionIsBacked is inductive with the types: a decision keeps what *)
(* it counted as it was, so that what becomes of the receipts on file does *)
(* not touch it, and the runners it counted stay registered.               *)
ReceiptsInv == ReceiptsTypeOK /\ ReproductionIsBacked

-----------------------------------------------------------------------------

(* The initial state satisfies the invariant: nothing is on file.          *)
LEMMA InitReceipts == ReceiptsConstantsAreRight /\ ReceiptsInit => ReceiptsInv
  BY DEF ReceiptsConstantsAreRight, ReceiptsInit, ReceiptsInv, ReceiptsTypeOK,
         ReproductionIsBacked, Promoted, NoDecision

(* What is done to the file: one receipt is the one given, and has its id. *)
Stores(e) ==
  /\ receipts' = Filed(e) /\ UNCHANGED <<runners, active, decision>>
  /\ alterations' \in 0..MaxAlterations
  /\ IsReceipt(e) /\ (e.signature \in Claim => e.signature.runner \in runners)

(* What a local runner signs is such a receipt.                            *)
LEMMA SignedLocallyStores ==
  ASSUME ReceiptsInv, NEW id \in ReceiptId, NEW s \in Claim, s.runner \in runners,
         receipts' = Filed(SignedLocally(id, s)),
         UNCHANGED <<runners, active, decision, alterations>>
  PROVE  Stores(SignedLocally(id, s))
<1>1. /\ SignedLocally(id, s) = [id |-> id, says |-> s, signature |-> s]
      /\ SignedLocally(id, s).id = id /\ SignedLocally(id, s).says = s
      /\ SignedLocally(id, s).signature = s
  BY DEF SignedLocally
<1>2. IsReceipt(SignedLocally(id, s))
  BY <1>1 DEF IsReceipt
<1> QED
  BY <1>1, <1>2 DEF Stores, ReceiptsInv, ReceiptsTypeOK

(* So is what is submitted, with its own signature or signed on the way.   *)
LEMMA SubmitStores ==
  ASSUME ReceiptsConstantsAreRight, ReceiptsInv, NEW id \in ReceiptId, NEW s \in Offers,
         NEW given \in {External, NoSignature}, Submit(id, s, given)
  PROVE  Stores(Submitted(id, s, given))
<1>1. s \in Claim /\ s.runner \in runners
  BY DEF ReceiptsConstantsAreRight, Submit
<1>2. receipts' = Filed(Submitted(id, s, given))
      /\ UNCHANGED <<runners, active, decision, alterations>>
  BY DEF Submit
<1>3. CASE Local(s.profile) /\ given = NoSignature
  <2>1. Submitted(id, s, given) = SignedLocally(id, s)
    BY <1>3 DEF Submitted
  <2> QED
    BY <1>1, <1>2, <2>1, SignedLocallyStores
<1>4. CASE ~(Local(s.profile) /\ given = NoSignature)
  <2> DEFINE e == [id |-> id, says |-> s, signature |-> given]
  <2>1. Submitted(id, s, given) = e
    BY <1>4 DEF Submitted
  <2>2. e.id = id /\ e.says = s /\ e.signature = given
    OBVIOUS
  <2>3. given \notin Claim
    BY DEF ReceiptsConstantsAreRight
  <2>4. IsReceipt(e)
    BY <1>1, <2>2 DEF IsReceipt
  <2> HIDE DEF e
  <2> QED
    BY <1>2, <2>1, <2>2, <2>3, <2>4 DEF Stores, ReceiptsInv, ReceiptsTypeOK
<1> QED
  BY <1>3, <1>4

(* So is one that is altered, or has lost its signature.                   *)
LEMMA AlteredStores ==
  ASSUME ReceiptsConstantsAreRight, ReceiptsInv, NEW e \in receipts, NEW s \in Claim,
         NEW g, g = e.signature \/ g = NoSignature,
         Altered(e, s, g)
  PROVE  Stores([e EXCEPT !.says = s, !.signature = g])
<1> DEFINE altered == [e EXCEPT !.says = s, !.signature = g]
<1>1. IsReceipt(e) /\ (e.signature \in Claim => e.signature.runner \in runners)
  BY DEF ReceiptsInv, ReceiptsTypeOK
<1>2. /\ altered = [id |-> e.id, says |-> s, signature |-> g]
      /\ altered.id = e.id /\ altered.says = s /\ altered.signature = g
  <2>1. e = [id |-> e.id, says |-> e.says, signature |-> e.signature]
    BY <1>1 DEF IsReceipt
  <2>2. e \in [id : {e.id}, says : {e.says, s}, signature : {e.signature, g}]
    BY <2>1
  <2>3. /\ altered \in [id : {e.id}, says : {e.says, s}, signature : {e.signature, g}]
        /\ altered.id = e.id /\ altered.says = s /\ altered.signature = g
    BY <2>2
  <2> HIDE DEF altered
  <2>4. altered = [id |-> e.id, says |-> s, signature |-> g]
    BY <2>3
  <2> QED
    BY <2>3, <2>4
<1>3. receipts' = Filed(altered) /\ UNCHANGED <<runners, active, decision>>
  BY DEF Altered
<1>4. alterations' \in 0..MaxAlterations
  BY DEF Altered, ReceiptsInv, ReceiptsTypeOK, ReceiptsConstantsAreRight
<1> HIDE DEF altered
<1>5. IsReceipt(altered)
  BY <1>1, <1>2 DEF IsReceipt
<1>6. altered.signature \in Claim => altered.signature.runner \in runners
  BY <1>1, <1>2 DEF ReceiptsConstantsAreRight
<1>7. Stores(altered)
  BY <1>3, <1>4, <1>5, <1>6 DEF Stores
<1> QED
  BY <1>7 DEF altered

(* Every step that changes the file stores a receipt.                      *)
LEMMA StepStores ==
  ASSUME ReceiptsConstantsAreRight, ReceiptsInv, [ReceiptsNext]_receiptsVars,
         receipts' # receipts
  PROVE  \E e : Stores(e)
<1>1. ASSUME NEW e \in receipts, NEW s \in Claim, Alter(e, s)
      PROVE  \E f : Stores(f)
  BY <1>1, AlteredStores DEF Alter
<1>2. ASSUME NEW e \in receipts, Erase(e)
      PROVE  \E f : Stores(f)
  <2>1. e.says \in Claim
    BY DEF ReceiptsInv, ReceiptsTypeOK, IsReceipt
  <2> QED
    BY <1>2, <2>1, AlteredStores DEF Erase
<1>3. ASSUME NEW e \in receipts, Sign(e)
      PROVE  \E f : Stores(f)
  <2>1. e.id \in ReceiptId /\ e.says \in Claim /\ e.says.runner \in runners
    BY <1>3 DEF Sign, ReceiptsInv, ReceiptsTypeOK, IsReceipt
  <2> QED
    BY <1>3, <2>1, SignedLocallyStores DEF Sign
<1> QED
  BY <1>1, <1>2, <1>3, SubmitStores
  DEF ReceiptsNext, receiptsVars, RegisterRunner, SetActive, Evaluate

(* What is stored keeps the invariant.                                     *)
LEMMA StoresPreserves ==
  ASSUME ReceiptsInv, NEW e, Stores(e)
  PROVE  ReceiptsInv'
<1>1. receipts' = {f \in receipts : f.id # e.id} \cup {e} /\ UNCHANGED <<runners, active, decision>>
  BY DEF Stores, Filed
<1>2. \A f \in receipts' : IsReceipt(f) /\ (f.signature \in Claim => f.signature.runner \in runners)
  BY <1>1 DEF ReceiptsInv, ReceiptsTypeOK, Stores
<1>3. \A f, g \in receipts' : f.id = g.id => f = g
  BY <1>1 DEF ReceiptsInv, ReceiptsTypeOK
<1>4. ReceiptsTypeOK'
  BY <1>1, <1>2, <1>3 DEF ReceiptsInv, ReceiptsTypeOK, Stores, IsReceipt
<1>5. ReproductionIsBacked'
  BY <1>1 DEF ReceiptsInv, ReproductionIsBacked, Promoted
<1> QED
  BY <1>4, <1>5 DEF ReceiptsInv

(* An evaluation preserves it: what it counts has a quorum behind it, and  *)
(* a receipt that verifies speaks for the identity of its runner.          *)
LEMMA EvaluatePreserves ==
  ASSUME ReceiptsInv, NEW p \in Policies, Evaluate(p)
  PROVE  ReceiptsInv'
<1>1. decision' = Decision(p) /\ UNCHANGED <<runners, active, receipts, alterations>>
  BY DEF Evaluate
<1>2. decision'.status = Status(receipts, p) /\ decision'.status \in Statuses
  BY <1>1 DEF Decision, Status, Statuses
<1>3. ReceiptsTypeOK'
  BY <1>1, <1>2 DEF ReceiptsInv, ReceiptsTypeOK, IsReceipt
<1>4. ReproductionIsBacked'
  <2> SUFFICES ASSUME Promoted' PROVE ReproductionIsBacked'
    BY DEF ReproductionIsBacked
  <2> DEFINE counted == Accepted(receipts)
             by == {Identity[e.says.runner] : e \in counted}
  <2>1. Status(receipts, p) = "FEDERATED_KERNEL_REPRODUCED"
    BY <1>2 DEF Promoted
  <2>2. decision'.accepted = counted /\ decision'.policy = p
    BY <1>1, <2>1 DEF Decision
  <2>3. Quorum(receipts, p) /\ (p.externalOnly => AllExternal(receipts))
    BY <2>1 DEF Status
  <2>4. \A e \in counted :
          /\ e.says.runner \in runners
          /\ e.says.organization = Identity[e.says.runner].organization
          /\ e.says.group = Identity[e.says.runner].group
          /\ e.says.profile = Identity[e.says.runner].profile
          /\ Local(Identity[e.says.runner].profile) => e.signature = e.says
    BY DEF Accepted, Valid, Verifies, SignatureHolds, ReceiptsInv, ReceiptsTypeOK
  <2> HIDE DEF counted
  <2>5. {i.organization : i \in by} = Organizations(counted)
    BY <2>4 DEF Organizations
  <2>6. {i.group : i \in by} = Groups(counted)
    BY <2>4 DEF Groups
  <2>7. p.externalOnly => \A i \in by : ~Local(i.profile)
    <3>1. p.externalOnly => \A e \in counted : ~Local(e.says.profile)
      BY <2>3 DEF AllExternal, counted
    <3> QED
      BY <3>1, <2>4
  <2>8. /\ Cardinality(Organizations(counted)) >= p.organizations
        /\ Cardinality(Groups(counted)) >= p.groups
    BY <2>3 DEF Quorum, counted
  <2>9. /\ Cardinality({i.organization : i \in by}) >= p.organizations
        /\ Cardinality({i.group : i \in by}) >= p.groups
    BY <2>5, <2>6, <2>8
  <2>10. \A e \in counted : /\ e.says.runner \in runners'
                            /\ Local(Identity[e.says.runner].profile) => e.signature = e.says
    BY <1>1, <2>4
  <2> QED
    BY <2>2, <2>7, <2>9, <2>10 DEF ReproductionIsBacked
<1> QED
  BY <1>3, <1>4 DEF ReceiptsInv

(* Every step of the federation preserves the invariant.                   *)
LEMMA StepReceipts ==
  ReceiptsConstantsAreRight /\ ReceiptsInv /\ [ReceiptsNext]_receiptsVars => ReceiptsInv'
<1> SUFFICES ASSUME ReceiptsConstantsAreRight, ReceiptsInv, [ReceiptsNext]_receiptsVars
             PROVE  ReceiptsInv'
  OBVIOUS
<1>1. ASSUME UNCHANGED <<receipts, decision, alterations>>, runners \subseteq runners',
             runners' \subseteq Runner, active' \subseteq runners'
      PROVE  ReceiptsInv'
  <2>1. ReceiptsTypeOK'
    BY <1>1 DEF ReceiptsInv, ReceiptsTypeOK, IsReceipt
  <2>2. ReproductionIsBacked'
    BY <1>1 DEF ReceiptsInv, ReproductionIsBacked, Promoted
  <2> QED
    BY <2>1, <2>2 DEF ReceiptsInv
<1>2. ASSUME NEW r \in Runner, NEW isActive \in BOOLEAN, RegisterRunner(r, isActive)
      PROVE  ReceiptsInv'
  BY <1>1, <1>2 DEF RegisterRunner, ReceiptsInv, ReceiptsTypeOK
<1>3. ASSUME NEW r \in Runner, NEW isActive \in BOOLEAN, SetActive(r, isActive)
      PROVE  ReceiptsInv'
  BY <1>1, <1>3 DEF SetActive, ReceiptsInv, ReceiptsTypeOK
<1>4. ASSUME NEW p \in Policies, Evaluate(p) PROVE ReceiptsInv'
  BY <1>4, EvaluatePreserves
<1>5. CASE receipts' # receipts
  BY <1>5, StepStores, StoresPreserves
<1>6. ASSUME UNCHANGED <<runners, active, receipts, decision>>, alterations' \in 0..MaxAlterations
      PROVE  ReceiptsInv'
  <2>1. ReceiptsTypeOK'
    BY <1>6 DEF ReceiptsInv, ReceiptsTypeOK, IsReceipt
  <2>2. ReproductionIsBacked'
    BY <1>6 DEF ReceiptsInv, ReproductionIsBacked, Promoted
  <2> QED
    BY <2>1, <2>2 DEF ReceiptsInv
<1>7. ASSUME NEW e \in receipts,
             (\E s \in Claim : Alter(e, s)) \/ Erase(e) \/ Sign(e), receipts' = receipts
      PROVE  ReceiptsInv'
  <2>1. \/ alterations' = alterations
        \/ alterations < MaxAlterations /\ alterations' = alterations + 1
    BY <1>7 DEF Alter, Erase, Sign, Altered
  <2>2. alterations' \in 0..MaxAlterations
    BY <2>1 DEF ReceiptsInv, ReceiptsTypeOK, ReceiptsConstantsAreRight
  <2>3. UNCHANGED <<runners, active, receipts, decision>>
    BY <1>7 DEF Alter, Erase, Sign, Altered
  <2> QED
    BY <1>6, <2>2, <2>3
<1>8. ASSUME NEW id \in ReceiptId, NEW s \in Offers, NEW given \in {External, NoSignature},
             Submit(id, s, given), receipts' = receipts
      PROVE  ReceiptsInv'
  BY <1>6, <1>8 DEF Submit, ReceiptsInv, ReceiptsTypeOK
<1>9. CASE UNCHANGED receiptsVars
  BY <1>6, <1>9 DEF receiptsVars, ReceiptsInv, ReceiptsTypeOK
<1> QED
  BY <1>2, <1>3, <1>4, <1>5, <1>7, <1>8, <1>9 DEF ReceiptsNext

(* The invariant holds in every reachable state.                           *)
LEMMA ReceiptsInvariance == ASSUME ReceiptsConstantsAreRight PROVE ReceiptsSpec => []ReceiptsInv
<1>1. ReceiptsInit => ReceiptsInv
  BY InitReceipts
<1>2. ReceiptsInv /\ [ReceiptsNext]_receiptsVars => ReceiptsInv'
  BY StepReceipts
<1> QED
  BY <1>1, <1>2, PTL DEF ReceiptsSpec

-----------------------------------------------------------------------------

(* The types of formalization/kernel_receipts.py: whatever a receipt on    *)
(* file says by now and under whichever id it was submitted again, there is*)
(* one of each id, and its seal was set for a runner that is registered.   *)
THEOREM ReceiptsTypeCorrect ==
  ASSUME ReceiptsConstantsAreRight PROVE ReceiptsSpec => []ReceiptsTypeOK
<1>1. ReceiptsInv => ReceiptsTypeOK
  BY DEF ReceiptsInv
<1> QED
  BY <1>1, ReceiptsInvariance, PTL

(* KernelReceiptFederation.evaluate: a reproduced theorem rests on         *)
(* registered runners of as many organizations and groups as the policy    *)
(* asked for, local ones on what they have sealed, in whatever fields the  *)
(* receipts were altered before they were counted, or are altered or       *)
(* overwritten later.                                                      *)
THEOREM ReproductionKeepsBacking ==
  ASSUME ReceiptsConstantsAreRight PROVE ReceiptsSpec => []ReproductionIsBacked
<1>1. ReceiptsInv => ReproductionIsBacked
  BY DEF ReceiptsInv
<1> QED
  BY <1>1, ReceiptsInvariance, PTL

(* Where no rejections are asked for, one that verifies leaves no quorum:  *)
(* next to an acceptance it is a conflict, and without any there is none.  *)
LEMMA RejectionLeavesNoQuorum ==
  ASSUME NEW p, p.organizations \in Nat, p.organizations >= 1, p.noRejections,
         Rejected(receipts) # {}
  PROVE  Status(receipts, p) \notin {"LOCAL_PROCESS_QUORUM", "FEDERATED_KERNEL_REPRODUCED"}
<1>1. CASE Accepted(receipts) # {}
  BY <1>1 DEF Status
<1>2. CASE Accepted(receipts) = {}
  <2>1. Cardinality(Organizations(Accepted(receipts))) = 0
    BY <1>2, FS_EmptySet DEF Organizations
  <2>2. ~Quorum(receipts, p)
    BY <2>1 DEF Quorum
  <2> QED
    BY <2>2 DEF Status
<1> QED
  BY <1>1, <1>2

(* A receipt stays on file, unless something is done to this very receipt. *)
LEMMA ReceiptStays ==
  ASSUME ReceiptsConstantsAreRight, ReceiptsInv, [ReceiptsNext]_receiptsVars, NEW e \in receipts
  PROVE  e \in receipts' \/ \E f \in receipts' \ receipts : f.id = e.id
<1>1. CASE receipts' # receipts
  <2>1. PICK g : receipts' = {f \in receipts : f.id # g.id} \cup {g}
    BY <1>1, StepStores DEF Stores, Filed
  <2>2. CASE g.id = e.id /\ g # e
    <3>1. g \notin receipts
      BY <2>2 DEF ReceiptsInv, ReceiptsTypeOK
    <3> QED
      BY <2>1, <2>2, <3>1
  <2> QED
    BY <2>1, <2>2
<1> QED
  BY <1>1

(* A kernel that rejected the theorem is not outvoted, under any policy    *)
(* that asks for an organization at least, for as long as its receipt      *)
(* verifies; and only what is done to that receipt removes it.  The code   *)
(* does not validate the minimum: with none, a quorum is met with no       *)
(* acceptance at all.                                                      *)
THEOREM StandingObjectionsStand ==
  ASSUME ReceiptsConstantsAreRight, \A p \in Policies : p.organizations >= 1
  PROVE  ReceiptsSpec => RejectionsAreHeeded
<1>1. ReceiptsInv /\ [ReceiptsNext]_receiptsVars => RejectionHeeded
  <2> SUFFICES ASSUME ReceiptsInv, [ReceiptsNext]_receiptsVars, NEW e \in Rejected(receipts)
               PROVE  /\ \A p \in Policies :
                           p.noRejections /\ Evaluate(p)
                             => decision'.status
                                  \notin {"LOCAL_PROCESS_QUORUM", "FEDERATED_KERNEL_REPRODUCED"}
                      /\ e \in receipts' \/ \E f \in receipts' \ receipts : f.id = e.id
    BY DEF RejectionHeeded
  <2>1. ASSUME NEW p \in Policies, p.noRejections, Evaluate(p)
        PROVE  decision'.status \notin {"LOCAL_PROCESS_QUORUM", "FEDERATED_KERNEL_REPRODUCED"}
    <3>1. p.organizations \in Nat /\ p.organizations >= 1
      BY DEF ReceiptsConstantsAreRight
    <3>2. decision'.status = Status(receipts, p)
      BY <2>1 DEF Evaluate, Decision
    <3> QED
      BY <2>1, <3>1, <3>2, RejectionLeavesNoQuorum
  <2>2. e \in receipts
    BY DEF Rejected, Valid
  <2> QED
    BY <2>1, <2>2, ReceiptStays
<1>2. ReceiptsInv /\ [ReceiptsNext]_receiptsVars => [RejectionHeeded]_receiptsVars
  BY <1>1
<1> QED
  BY <1>2, ReceiptsInvariance, PTL DEF ReceiptsSpec, RejectionsAreHeeded

-----------------------------------------------------------------------------

(* Running the same replay again changes nothing, under any policy: without*)
(* a receipt that says what another one says every decision is what it is. *)
THEOREM RepetitionDoesNotCount ==
  ASSUME ReceiptsConstantsAreRight PROVE ReceiptsSpec => []RepetitionIsIdle
<1>1. RepetitionIsIdle
  <2> SUFFICES ASSUME NEW e \in receipts, NEW f \in receipts, NEW p \in Policies,
                      e # f, SaysTheSame(e, f)
               PROVE  Status(receipts \ {f}, p) = Status(receipts, p)
    BY DEF RepetitionIsIdle
  <2> DEFINE rest == receipts \ {f}
  <2>1. e.says = f.says /\ (Verifies(e) <=> Verifies(f))
    BY DEF SaysTheSame, Verifies, SignatureHolds
  <2>2. /\ rest # {} /\ receipts # {}
        /\ Valid(rest) = {} <=> Valid(receipts) = {}
        /\ Accepted(rest) = {} <=> Accepted(receipts) = {}
        /\ Rejected(rest) = {} <=> Rejected(receipts) = {}
    BY <2>1 DEF Valid, Accepted, Rejected
  <2>3. f \in Accepted(receipts) => e \in Accepted(rest)
    BY <2>1 DEF Valid, Accepted
  <2>4. Accepted(rest) = Accepted(receipts) \ {f}
    BY DEF Valid, Accepted
  <2>5. /\ Organizations(Accepted(rest)) = Organizations(Accepted(receipts))
        /\ Groups(Accepted(rest)) = Groups(Accepted(receipts))
        /\ Platforms(Accepted(rest)) = Platforms(Accepted(receipts))
    BY <2>1, <2>3, <2>4 DEF Organizations, Groups, Platforms
  <2>6. Quorum(rest, p) <=> Quorum(receipts, p)
    BY <2>5 DEF Quorum
  <2>7. AllExternal(rest) <=> AllExternal(receipts)
    BY <2>1, <2>2, <2>3, <2>4 DEF AllExternal
  <2> HIDE DEF rest
  <2>8. Status(rest, p) = Status(receipts, p)
    BY <2>2, <2>6, <2>7 DEF Status
  <2> QED
    BY <2>8 DEF rest
<1> QED
  BY <1>1, PTL

(* Together: the decisions of kernel_receipts.py rest on runners that are  *)
(* known to be different, and not on how often each of them was asked.     *)
THEOREM ReproductionStaysBacked ==
  ASSUME ReceiptsConstantsAreRight PROVE ReceiptsSpec => []ReproductionsAreBacked
<1>1. ReceiptsTypeOK /\ ReproductionIsBacked /\ RepetitionIsIdle => ReproductionsAreBacked
  BY DEF ReproductionsAreBacked
<1> QED
  BY <1>1, ReceiptsTypeCorrect, ReproductionKeepsBacking, RepetitionDoesNotCount, PTL

-----------------------------------------------------------------------------
(* The deliveries.                                                         *)

(* Types; the task is one that the callers pass.                           *)
Typed ==
  /\ pc \in Ended \cup {"new", "constructed", "cloned", "prepared", "running", "inspected", "executed"}
  /\ task \in Tasks
  /\ source \in [exists : BOOLEAN, git : BOOLEAN, head : FileTree, files : FileTree]
  /\ work \in [exists : BOOLEAN, head : FileTree, files : FileTree]
  /\ stuck \in BOOLEAN /\ base \in FileTree
  /\ results \in Seq({0, 1, 124, 127})
  /\ Len(results) <= Len(task.commands)
  /\ DOMAIN delivery.diff \subseteq delivery.changed

(* What has been done before a step is what the step relies on.  The clone *)
(* is read for the base commit before anything is written into it, and     *)
(* until then the workspace is a commit; nobody writes to the workspace    *)
(* between the checks and the result.                                      *)
Progress ==
  /\ pc \in {"new", "constructed"} => work = NoWork
  /\ pc \in {"new", "constructed", "cloned", "prepared"} => results = << >>
  /\ pc = "cloned" => work.files = work.head
  /\ pc = "prepared" => work.files = base
  /\ pc \in {"inspected", "executed"} =>
       /\ Len(results) = Len(task.commands)
       /\ checks = Inspection(task, work.files) \cup RollbackCheck(task)
  /\ pc = "executed" => Obligations = {}

(* JudgedOnItsBase and NothingLeftBehind are inductive with that.          *)
DeliveryInv == Typed /\ Progress /\ JudgedOnItsBase /\ NothingLeftBehind

-----------------------------------------------------------------------------

(* What is written over a tree is a tree.                                  *)
LEMMA OverlayIsTree ==
  ASSUME NEW tree \in FileTree, NEW f, Writes(f) PROVE Overlay(tree, f) \in FileTree
  BY DEF Overlay, FileTree, Writes

(* The empty workspace.                                                    *)
LEMMA NoWorkTyped ==
  /\ NoWork \in [exists : BOOLEAN, head : FileTree, files : FileTree]
  /\ ~NoWork.exists
  BY DEF NoWork, Empty, FileTree

(* A workspace that is cleaned up is gone, or stuck.                       *)
LEMMA CleanUpRemoves ==
  ASSUME Typed, CleanUp
  PROVE  /\ work' \in [exists : BOOLEAN, head : FileTree, files : FileTree]
         /\ stuck' \in BOOLEAN /\ (work'.exists => stuck')
<1>1. CASE work' = NoWork /\ UNCHANGED stuck
  BY <1>1, NoWorkTyped DEF Typed
<1>2. CASE work' = [work EXCEPT !.exists = TRUE] /\ stuck' = TRUE
  BY <1>2 DEF Typed
<1> QED
  BY <1>1, <1>2 DEF CleanUp

(* What differs from HEAD and is tracked is among what changed.            *)
LEMMA DiffIsChanged == ASSUME NEW w PROVE DOMAIN Diff(w) \subseteq ChangedFiles(w)
  BY DEF Diff, ChangedFiles, Tracked

(* The initial state satisfies the invariant.                              *)
LEMMA InitDelivery == ASSUME DeliveryConstantsAreRight PROVE DeliveryInit => DeliveryInv
<1> SUFFICES ASSUME DeliveryInit PROVE DeliveryInv
  OBVIOUS
<1>1. base \in FileTree
  BY DEF DeliveryInit, Empty, FileTree
<1>2. source \in [exists : BOOLEAN, git : BOOLEAN, head : FileTree, files : FileTree]
  BY DEF DeliveryInit, DeliveryConstantsAreRight
<1>3. /\ task \in Tasks /\ results = << >> /\ results \in Seq({0, 1, 124, 127})
      /\ Len(results) <= Len(task.commands)
  <2>1. task \in Tasks /\ results = << >> /\ results \in Seq({0, 1, 124, 127})
    BY DEF DeliveryInit
  <2>2. task.commands \in Seq({task.commands[i] : i \in DOMAIN task.commands})
    BY <2>1 DEF DeliveryConstantsAreRight
  <2>3. Len(task.commands) \in Nat /\ Len(results) = 0
    BY <2>1, <2>2
  <2> QED
    BY <2>1, <2>3
<1>4. DOMAIN delivery.diff = {}
  BY DEF DeliveryInit, NoDelivery
<1>5. pc = "new" /\ work = NoWork /\ stuck = FALSE
  BY DEF DeliveryInit
<1>6. Typed
  BY <1>1, <1>2, <1>3, <1>4, <1>5, NoWorkTyped DEF Typed
<1> QED
  BY <1>3, <1>5, <1>6 DEF DeliveryInv, Progress, JudgedOnItsBase, NothingLeftBehind

(* The steps up to the candidate.                                          *)
LEMMA PreparePreserves ==
  ASSUME DeliveryConstantsAreRight, DeliveryInv, Construct \/ Clone \/ ResolveBase \/ Apply PROVE DeliveryInv'
<1>1. CASE Construct
  <2>1. Typed'
    BY <1>1 DEF Construct, Unchanged, DeliveryInv, Typed, Ended
  <2> QED
    BY <1>1, <2>1, NoWorkTyped DEF Construct, Unchanged, DeliveryInv, Progress, JudgedOnItsBase,
       NothingLeftBehind
<1>2. CASE Clone
  <2> DEFINE tree == IF source.git THEN source.head ELSE source.files
  <2>1. tree \in FileTree /\ work' = [exists |-> TRUE, head |-> tree, files |-> tree]
    BY <1>2 DEF Clone, DeliveryInv, Typed
  <2>2. work' \in [exists : BOOLEAN, head : FileTree, files : FileTree] /\ work'.files = work'.head
    BY <2>1
  <2>3. Typed'
    BY <1>2, <2>2 DEF Clone, Unchanged, DeliveryInv, Typed
  <2> QED
    BY <1>2, <2>2, <2>3 DEF Clone, Unchanged, DeliveryInv, Progress, JudgedOnItsBase, NothingLeftBehind
<1>3. CASE ResolveBase
  <2>1. work.head \in FileTree
    BY DEF DeliveryInv, Typed
  <2>2. Typed'
    BY <1>3, <2>1 DEF ResolveBase, Unchanged, DeliveryInv, Typed
  <2> QED
    BY <1>3, <2>2 DEF ResolveBase, Unchanged, DeliveryInv, Progress, JudgedOnItsBase, NothingLeftBehind
<1>4. CASE Apply
  <2>1. work.files \in FileTree /\ base \in FileTree /\ Writes(task.changes) /\ Writes(task.patch)
    BY DEF DeliveryInv, Typed, DeliveryConstantsAreRight
  <2>2. Overlay(Overlay(work.files, task.changes), task.patch) \in FileTree
    BY <2>1, OverlayIsTree
  <2>3. /\ work' \in [exists : BOOLEAN, head : FileTree, files : FileTree]
        /\ work'.files = Overlay(Overlay(base, task.changes), task.patch)
    BY <1>4, <2>2 DEF Apply, DeliveryInv, Typed, Progress
  <2>4. Typed'
    BY <1>4, <2>3 DEF Apply, Unchanged, DeliveryInv, Typed
  <2> QED
    BY <1>4, <2>3, <2>4 DEF Apply, Unchanged, DeliveryInv, Progress, JudgedOnItsBase, NothingLeftBehind,
       Candidate
<1> QED
  BY <1>1, <1>2, <1>3, <1>4

(* What a command leaves of a workspace.                                   *)
LEMMA CommandTyped ==
  ASSUME DeliveryConstantsAreRight, DeliveryInv, Len(results) < Len(task.commands)
  PROVE  Effect(work, task.commands[Len(results) + 1])
           \in [exists : BOOLEAN, head : FileTree, files : FileTree]
<1>1. task \in Tasks /\ work \in [exists : BOOLEAN, head : FileTree, files : FileTree]
      /\ results \in Seq({0, 1, 124, 127})
  BY DEF DeliveryInv, Typed
<1>2. task.commands \in Seq({task.commands[i] : i \in DOMAIN task.commands})
  BY <1>1 DEF DeliveryConstantsAreRight
<1>3. Len(results) + 1 \in DOMAIN task.commands
  BY <1>1, <1>2
<1> DEFINE c == task.commands[Len(results) + 1]
<1>4. Writes(c.writes)
  BY <1>1, <1>3 DEF DeliveryConstantsAreRight
<1>5. Overlay(work.files, c.writes) \in FileTree
  BY <1>1, <1>4, OverlayIsTree
<1> QED
  BY <1>1, <1>5 DEF Effect

(* A command, whatever it returns and whether or not it had its effect.    *)
LEMMA CommandPreserves ==
  ASSUME DeliveryConstantsAreRight, DeliveryInv, NEW code \in {0, 1, 124, 127}, RunCommand(code) PROVE DeliveryInv'
<1>1. task \in Tasks /\ work \in [exists : BOOLEAN, head : FileTree, files : FileTree]
  BY DEF DeliveryInv, Typed
<1>2. task.commands \in Seq({task.commands[i] : i \in DOMAIN task.commands})
  BY <1>1 DEF DeliveryConstantsAreRight
<1>3. results \in Seq({0, 1, 124, 127}) /\ results' = Append(results, code)
  BY DEF RunCommand, DeliveryInv, Typed
<1> DEFINE c == task.commands[Len(results) + 1]
<1>4. Effect(work, c) \in [exists : BOOLEAN, head : FileTree, files : FileTree]
  BY CommandTyped DEF RunCommand
<1>5. work' \in [exists : BOOLEAN, head : FileTree, files : FileTree]
  <2>1. work' = Effect(work, c) \/ work' = work
    BY DEF RunCommand
  <2> QED
    BY <1>1, <1>4, <2>1
<1>6. /\ results' \in Seq({0, 1, 124, 127}) /\ results' # << >>
      /\ Len(results') <= Len(task.commands)
  BY <1>2, <1>3 DEF RunCommand
<1>7. Typed'
  BY <1>5, <1>6 DEF RunCommand, Unchanged, DeliveryInv, Typed
<1> QED
  BY <1>6, <1>7 DEF RunCommand, Unchanged, DeliveryInv, Progress, JudgedOnItsBase, NothingLeftBehind

(* The checks and the result.                                              *)
LEMMA JudgePreserves == ASSUME DeliveryInv, Inspect \/ Conclude PROVE DeliveryInv'
<1>1. CASE Inspect
  <2>1. Typed'
    BY <1>1 DEF Inspect, Unchanged, DeliveryInv, Typed
  <2> QED
    BY <1>1, <2>1 DEF Inspect, Unchanged, DeliveryInv, Progress, JudgedOnItsBase, NothingLeftBehind
<1>2. CASE Conclude
  <2>1. DOMAIN delivery'.diff \subseteq delivery'.changed
    BY <1>2, DiffIsChanged DEF Conclude
  <2>2. CASE Obligations = {}
    <3>1. pc' = "executed" /\ work' = work /\ stuck' = stuck
      BY <1>2, <2>2 DEF Conclude
    <3>2. Typed'
      BY <1>2, <2>1, <3>1 DEF Conclude, Unchanged, DeliveryInv, Typed
    <3>3. Obligations' = {}
      BY <1>2, <2>2, <3>1 DEF Conclude, Unchanged, Obligations, ChangedFiles
    <3> QED
      BY <1>2, <3>1, <3>2, <3>3 DEF Conclude, Unchanged, DeliveryInv, Progress, JudgedOnItsBase,
         NothingLeftBehind
  <2>3. CASE Obligations # {}
    <3>1. pc' = "refused" /\ CleanUp
      BY <1>2, <2>3 DEF Conclude
    <3>2. /\ work' \in [exists : BOOLEAN, head : FileTree, files : FileTree]
          /\ stuck' \in BOOLEAN /\ (work'.exists => stuck')
      BY <3>1, CleanUpRemoves DEF DeliveryInv
    <3>3. Typed'
      BY <1>2, <2>1, <3>1, <3>2 DEF Conclude, Unchanged, DeliveryInv, Typed, Ended
    <3> QED
      BY <3>1, <3>2, <3>3 DEF DeliveryInv, Progress, JudgedOnItsBase, NothingLeftBehind
  <2> QED
    BY <2>2, <2>3
<1> QED
  BY <1>1, <1>2

(* The ends of a delivery.                                                 *)
LEMMA EndPreserves == ASSUME DeliveryConstantsAreRight, DeliveryInv, Refuse \/ Crash \/ Exceed \/ Verify PROVE DeliveryInv'
<1>1. CASE Refuse
  <2>1. /\ work' \in [exists : BOOLEAN, head : FileTree, files : FileTree]
        /\ stuck' \in BOOLEAN /\ (work'.exists => stuck') /\ pc' = "refused"
    BY <1>1, CleanUpRemoves DEF Refuse, DeliveryInv
  <2>2. Typed'
    BY <1>1, <2>1 DEF Refuse, Unchanged, DeliveryInv, Typed, Ended
  <2> QED
    BY <2>1, <2>2 DEF DeliveryInv, Progress, JudgedOnItsBase, NothingLeftBehind
<1>2. CASE Crash
  <2>1. work' \in [exists : BOOLEAN, head : FileTree, files : FileTree]
    <3>1. work \in [exists : BOOLEAN, head : FileTree, files : FileTree]
      BY DEF DeliveryInv, Typed
    <3>2. CASE /\ pc = "running" /\ Len(results) < Len(task.commands)
               /\ work' = Effect(work, task.commands[Len(results) + 1])
      BY <3>2, CommandTyped
    <3>3. CASE work' \in {work, [work EXCEPT !.exists = TRUE]}
      BY <3>1, <3>3
    <3> QED
      BY <1>2, <3>2, <3>3 DEF Crash
  <2>2. Typed'
    BY <1>2, <2>1 DEF Crash, Unchanged, DeliveryInv, Typed, Ended
  <2> QED
    BY <1>2, <2>2 DEF Crash, DeliveryInv, Progress, JudgedOnItsBase, NothingLeftBehind
<1>3. CASE Exceed
  <2>1. Typed'
    BY <1>3 DEF Exceed, Unchanged, DeliveryInv, Typed, Ended
  <2> QED
    BY <1>3, <2>1 DEF Exceed, DeliveryInv, Progress, JudgedOnItsBase, NothingLeftBehind
<1>4. CASE Verify
  <2>1. delivery'.diff = delivery.diff /\ delivery'.changed = delivery.changed
    BY <1>4 DEF Verify
  <2>2. /\ work' \in [exists : BOOLEAN, head : FileTree, files : FileTree]
        /\ stuck' \in BOOLEAN /\ (work'.exists => stuck')
    BY <1>4, CleanUpRemoves DEF Verify, DeliveryInv
  <2>3. Typed'
    BY <1>4, <2>1, <2>2 DEF Verify, Unchanged, DeliveryInv, Typed, Ended
  <2> QED
    BY <1>4, <2>2, <2>3 DEF Verify, DeliveryInv, Progress, JudgedOnItsBase, NothingLeftBehind
<1> QED
  BY <1>1, <1>2, <1>3, <1>4

(* Others change the source, of which the workspace is a copy.             *)
LEMMA OthersPreserve == ASSUME DeliveryConstantsAreRight, DeliveryInv, Others PROVE DeliveryInv'
<1>1. source' \in [exists : BOOLEAN, git : BOOLEAN, head : FileTree, files : FileTree]
  <2>1. source \in [exists : BOOLEAN, git : BOOLEAN, head : FileTree, files : FileTree]
    BY DEF DeliveryInv, Typed
  <2>2. \/ \E tree \in FileTree : source' = [source EXCEPT !.files = tree]
        \/ source' = [source EXCEPT !.head = source.files]
        \/ source' = [source EXCEPT !.exists = FALSE]
    BY DEF Others, DeliveryConstantsAreRight
  <2> QED
    BY <2>1, <2>2
<1>2. Typed'
  BY <1>1 DEF Others, DeliveryInv, Typed
<1>3. Obligations' = Obligations
  BY DEF Others, Obligations, ChangedFiles
<1> QED
  BY <1>2, <1>3 DEF Others, DeliveryInv, Progress, JudgedOnItsBase, NothingLeftBehind, Candidate

(* Every step preserves the invariant.                                     *)
LEMMA StepDelivery == ASSUME DeliveryConstantsAreRight PROVE DeliveryInv /\ [DeliveryNext]_deliveryVars => DeliveryInv'
<1> SUFFICES ASSUME DeliveryInv, [DeliveryNext]_deliveryVars PROVE DeliveryInv'
  OBVIOUS
<1>1. CASE UNCHANGED deliveryVars
  <2>1. Obligations' = Obligations
    BY <1>1 DEF deliveryVars, Obligations, ChangedFiles
  <2>2. Typed'
    BY <1>1 DEF deliveryVars, DeliveryInv, Typed
  <2> QED
    BY <1>1, <2>1, <2>2 DEF deliveryVars, DeliveryInv, Progress, JudgedOnItsBase, NothingLeftBehind, Candidate
<1>2. CASE Step
  BY <1>2, PreparePreserves, CommandPreserves, JudgePreserves, EndPreserves DEF Step
<1>3. CASE Others
  BY <1>3, OthersPreserve
<1> QED
  BY <1>1, <1>2, <1>3 DEF DeliveryNext, Finished

(* The invariant holds in every reachable state.                           *)
LEMMA DeliveryInvariance == ASSUME DeliveryConstantsAreRight PROVE DeliverySpec => []DeliveryInv
<1>1. DeliveryInit => DeliveryInv
  BY InitDelivery
<1>2. DeliveryInv /\ [DeliveryNext]_deliveryVars => DeliveryInv'
  BY StepDelivery
<1> QED
  BY <1>1, <1>2, PTL DEF DeliverySpec

-----------------------------------------------------------------------------

(* Types; a result has as many exit codes as commands ran, and what the    *)
(* diff shows is among the changed files.                                  *)
THEOREM DeliveryTypeCorrect == ASSUME DeliveryConstantsAreRight PROVE DeliverySpec => []DeliveryTypeOK
<1>1. DeliveryInv => DeliveryTypeOK
  BY DEF DeliveryInv, Typed, DeliveryTypeOK, FileTree
<1> QED
  BY <1>1, DeliveryInvariance, PTL

(* prepare and apply_candidate: what the commands are given is a commit of *)
(* the source with the changes of the task and nothing else, and it is the *)
(* commit that is recorded, whoever edits the source meanwhile.            *)
THEOREM JudgedOnItsCommit == ASSUME DeliveryConstantsAreRight PROVE DeliverySpec => []JudgedOnItsBase
<1>1. DeliveryInv => JudgedOnItsBase
  BY DEF DeliveryInv
<1> QED
  BY <1>1, DeliveryInvariance, PTL

(* GitDeliveryAdapter.execute: a success has run every command with exit   *)
(* code zero, and its contract holds of the files the commands left.       *)
THEOREM SuccessIsKept == ASSUME DeliveryConstantsAreRight PROVE DeliverySpec => []SuccessKeepsContract
<1>1. DeliveryInv => SuccessKeepsContract
  <2> SUFFICES ASSUME DeliveryInv, pc = "executed" PROVE SuccessKeepsContract
    BY DEF SuccessKeepsContract
  <2>1. /\ Len(results) = Len(task.commands)
        /\ checks = Inspection(task, work.files) \cup RollbackCheck(task)
        /\ Obligations = {}
    BY DEF DeliveryInv, Progress
  <2>2. \A i \in DOMAIN results : results[i] = 0
    <3> SUFFICES ASSUME NEW i \in DOMAIN results, results[i] # 0 PROVE FALSE
      OBVIOUS
    <3>1. <<"command", i>> \in Obligations
      BY DEF Obligations
    <3> QED
      BY <2>1, <3>1
  <2>3. \A c \in checks : c.success
    <3> SUFFICES ASSUME NEW c \in checks, ~c.success PROVE FALSE
      OBVIOUS
    <3>1. <<c.kind, c.on>> \in Obligations
      BY DEF Obligations
    <3> QED
      BY <2>1, <3>1
  <2>4. ASSUME NEW p \in task.required PROVE work.files[p] # Absent
    <3> DEFINE c == [kind |-> "required_path", on |-> p, success |-> work.files[p] # Absent]
    <3>1. c \in checks
      BY <2>1 DEF Inspection
    <3> HIDE DEF c
    <3>2. c.success
      BY <2>3, <3>1
    <3> QED
      BY <3>2 DEF c
  <2>5. ASSUME NEW p \in DOMAIN task.forbidden PROVE work.files[p] # task.forbidden[p]
    <3> DEFINE c == [kind |-> "forbidden_pattern", on |-> p,
                     success |-> work.files[p] # task.forbidden[p]]
    <3>1. c \in checks
      BY <2>1 DEF Inspection
    <3> HIDE DEF c
    <3>2. c.success
      BY <2>3, <3>1
    <3> QED
      BY <3>2 DEF c
  <2>6. ASSUME NEW p \in DOMAIN task.patterns PROVE work.files[p] = task.patterns[p]
    <3> DEFINE c == [kind |-> "required_pattern", on |-> p,
                     success |-> work.files[p] = task.patterns[p]]
    <3>1. c \in checks
      BY <2>1 DEF Inspection
    <3> HIDE DEF c
    <3>2. c.success
      BY <2>3, <3>1
    <3> QED
      BY <3>2 DEF c
  <2>7. ASSUME task.rollbackRequired PROVE task.rollback = "executable"
    <3> DEFINE c == [kind |-> "rollback", on |-> task.rollback,
                     success |-> task.rollback = "executable"]
    <3>1. c \in checks
      BY <2>1, <2>7 DEF RollbackCheck
    <3> HIDE DEF c
    <3>2. c.success
      BY <2>3, <3>1
    <3> QED
      BY <3>2 DEF c
  <2> QED
    BY <2>1, <2>2, <2>4, <2>5, <2>6, <2>7 DEF SuccessKeepsContract
<1> QED
  BY <1>1, DeliveryInvariance, PTL

(* A failure that the adapter reports, of a command or of git, in the      *)
(* middle of them or after them, and a verification: the workspace is gone,*)
(* unless it could not be removed, which the code does not notice.         *)
THEOREM WorkspaceIsCleaned == ASSUME DeliveryConstantsAreRight PROVE DeliverySpec => []NothingLeftBehind
<1>1. DeliveryInv => NothingLeftBehind
  BY DEF DeliveryInv
<1> QED
  BY <1>1, DeliveryInvariance, PTL

(* adapters/git_delivery.py: what succeeds keeps its contract and is judged*)
(* on the commit that is recorded, and what is reported leaves no workspace*)
(* behind that could be removed.                                           *)
THEOREM DeliveryStaysFaithful ==
  ASSUME DeliveryConstantsAreRight PROVE DeliverySpec => []DeliveryKeepsContract
<1>1. DeliveryTypeOK /\ JudgedOnItsBase /\ SuccessKeepsContract /\ NothingLeftBehind
        => DeliveryKeepsContract
  BY DEF DeliveryKeepsContract
<1> QED
  BY <1>1, DeliveryTypeCorrect, JudgedOnItsCommit, SuccessIsKept, WorkspaceIsCleaned, PTL

=============================================================================
