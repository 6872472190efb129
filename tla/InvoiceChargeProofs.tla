------------------------ MODULE InvoiceChargeProofs ------------------------
(***************************************************************************)
(* Proofs about InvoiceCharge, for any number of invoices, workflows,      *)
(* requests and failures; and, after them, about CreditPurchase, which the *)
(* same payment event settles, for any payments, deliveries and spending.  *)
(***************************************************************************)
EXTENDS InvoiceCharge, CreditPurchase, Sums, TLAPS

LEMMA TypeInit == Init => TypeOK
  BY ConstantsAssumption DEF Init, TypeOK, Procs, InvoiceStatus, RunStatus, WorkflowPC, RequestPC,
         MaxChargeAttempts

LEMMA WorkflowType ==
  ASSUME TypeOK, NEW w \in Workflows, Workflow(w)
  PROVE  TypeOK'
<1> USE DEF TypeOK, Procs, InvoiceStatus, RunStatus, WorkflowPC, MaxChargeAttempts, Goto, SetStatusWhere, rows, provider
<1>1. CASE WfLoadPayment(w) BY <1>1 DEF WfLoadPayment
<1>2. CASE WfReadStatus(w) BY <1>2 DEF WfReadStatus
<1>3. CASE WfReadAttempt(w) BY <1>3 DEF WfReadAttempt
<1>4. CASE WfSettle(w) BY <1>4 DEF WfSettle
<1>5. CASE WfClaim(w) BY <1>5 DEF WfClaim
<1>6. CASE WfCommitClaim(w) BY <1>6 DEF WfCommitClaim
<1>7. CASE WfChargeAccepted(w) BY <1>7 DEF WfChargeAccepted, CardCharged
<1>8. CASE WfChargeDeclined(w) BY <1>8 DEF WfChargeDeclined, AfterFailedTry
<1>9. CASE WfRecordSuccess(w) BY <1>9 DEF WfRecordSuccess
<1>10. CASE WfMarkPaid(w) BY <1>10 DEF WfMarkPaid
<1>11. CASE WfRecordFailure(w) BY <1>11 DEF WfRecordFailure
<1>12. CASE WfReopen(w) BY <1>12 DEF WfReopen
<1>13. CASE WfCommitRecord(w) BY <1>13 DEF WfCommitRecord
<1>14. CASE WfClearBlock(w) BY <1>14 DEF WfClearBlock
<1>15. CASE WfComplete(w) BY <1>15 DEF WfComplete
<1>16. CASE WfBlock(w) BY <1>16 DEF WfBlock
<1>17. CASE WfBlockRun(w) BY <1>17 DEF WfBlockRun
<1> QED BY <1>1, <1>2, <1>3, <1>4, <1>5, <1>6, <1>7, <1>8, <1>9, <1>10, <1>11, <1>12,
           <1>13, <1>14, <1>15, <1>16, <1>17 DEF Workflow

LEMMA RequestType ==
  ASSUME TypeOK, NEW p \in Requests, Request(p)
  PROVE  TypeOK'
<1> USE DEF TypeOK, Procs, InvoiceStatus, RunStatus, RequestPC, Goto, SetStatusWhere,
            EndBlock, rows, provider
<1>1. CASE ReqLoad(p) BY <1>1 DEF ReqLoad, ClearBlockForInvoice
<1>2. CASE ReqReleaseReadStatus(p) BY <1>2 DEF ReqReleaseReadStatus
<1>3. CASE ReqReleaseReadAttempt(p) BY <1>3 DEF ReqReleaseReadAttempt
<1>4. CASE ReqReleaseLedger(p) BY <1>4 DEF ReqReleaseLedger
<1>5. CASE ReqReleaseInvoice(p) BY <1>5 DEF ReqReleaseInvoice
<1>6. CASE ReqReleaseBlock(p) BY <1>6 DEF ReqReleaseBlock, ReleaseBlockForInvoice
<1>7. CASE ReqClaim(p) BY <1>7 DEF ReqClaim
<1>8. CASE ReqClaimRefused(p) BY <1>8 DEF ReqClaimRefused, ClearBlockForInvoice
<1>9. CASE ReqReadAttempt(p) BY <1>9 DEF ReqReadAttempt
<1>10. CASE ReqSettleClear(p) BY <1>10 DEF ReqSettleClear, ClearBlockForInvoice
<1>11. CASE ReqSettleInvoice(p) BY <1>11 DEF ReqSettleInvoice
<1>12. CASE ReqCharge(p) BY <1>12 DEF ReqCharge, CardCharged, Fault
<1>13. CASE ReqRecordSuccess(p) BY <1>13 DEF ReqRecordSuccess
<1>14. CASE ReqMarkPaid(p) BY <1>14 DEF ReqMarkPaid
<1>15. CASE ReqClearBlock(p) BY <1>15 DEF ReqClearBlock, ClearBlockForInvoice
<1>16. CASE ReqRecordFailure(p) BY <1>16 DEF ReqRecordFailure
<1>17. CASE ReqReopen(p) BY <1>17 DEF ReqReopen
<1>18. CASE ReqCheckout(p) BY <1>18 DEF ReqCheckout
<1> QED BY <1>1, <1>2, <1>3, <1>4, <1>5, <1>6, <1>7, <1>8, <1>9, <1>10, <1>11, <1>12,
           <1>13, <1>14, <1>15, <1>16, <1>17, <1>18 DEF Request

LEMMA FaultType ==
  ASSUME TypeOK, NEW p \in Procs,
         \/ p \in Workflows /\ WorkflowFault(p)
         \/ p \in Requests /\ RequestFault(p)
  PROVE  TypeOK'
<1> USE DEF TypeOK, Procs, InvoiceStatus, RunStatus, WorkflowPC, RequestPC, Goto, Fault,
            SetStatusWhere, CardCharged, rows, provider
<1>1. CASE p \in Workflows /\ WfChargeTimesOut(p) BY <1>1 DEF WfChargeTimesOut, AfterFailedTry
<1>2. CASE p \in Workflows /\ WfRunStepAgain(p) BY <1>2 DEF WfRunStepAgain
<1>3. CASE p \in Workflows /\ WfChargeStepAgain(p) BY <1>3 DEF WfChargeStepAgain
<1>4. CASE p \in Workflows /\ WfGivesUp(p) BY <1>4 DEF WfGivesUp
<1>5. CASE p \in Requests /\ ReqThrows(p) BY <1>5 DEF ReqThrows
<1>6. CASE p \in Requests /\ ReqAborts(p) BY <1>6 DEF ReqAborts
<1> QED BY <1>1, <1>2, <1>3, <1>4, <1>5, <1>6 DEF WorkflowFault, RequestFault

LEMMA PaymentType ==
  ASSUME TypeOK, NEW i \in Invoices,
         CustomerPaysLink(i) \/ DeliverPayment(i) \/ DropPayment(i)
  PROVE  TypeOK'
<1> USE DEF TypeOK, Procs, InvoiceStatus, RunStatus, rows
<1>1. CASE CustomerPaysLink(i) BY <1>1 DEF CustomerPaysLink
<1>2. CASE DeliverPayment(i) BY <1>2 DEF DeliverPayment, ClearBlockForInvoice, EndBlock
<1>3. CASE DropPayment(i) BY <1>3 DEF DropPayment, Fault
<1> QED BY <1>1, <1>2, <1>3

(* The types of the rows, of the provider's state and of the program counters *)
(* are kept by every step.                                                    *)
THEOREM TypeCorrect == Spec => []TypeOK
<1>1. Init => TypeOK BY TypeInit
<1>2. TypeOK /\ [Next]_vars => TypeOK'
  <2> SUFFICES ASSUME TypeOK, [Next]_vars PROVE TypeOK' OBVIOUS
  <2>1. ASSUME NEW w \in Workflows, Workflow(w) PROVE TypeOK' BY <2>1, WorkflowType
  <2>2. ASSUME NEW w \in Workflows, WorkflowFault(w) PROVE TypeOK'
    BY <2>2, FaultType DEF Procs
  <2>3. ASSUME NEW p \in Requests, Request(p) PROVE TypeOK' BY <2>3, RequestType
  <2>4. ASSUME NEW p \in Requests, RequestFault(p) PROVE TypeOK'
    BY <2>4, FaultType DEF Procs
  <2>5. ASSUME NEW i \in Invoices,
               CustomerPaysLink(i) \/ DeliverPayment(i) \/ DropPayment(i)
        PROVE  TypeOK'
    BY <2>5, PaymentType
  <2>6. CASE UNCHANGED vars BY <2>6 DEF vars, TypeOK
  <2> QED BY <2>1, <2>2, <2>3, <2>4, <2>5, <2>6 DEF Next, Finished
<1> QED BY <1>1, <1>2, PTL DEF Spec

-----------------------------------------------------------------------------
(* Exclusive claims.  OneHolder alone is not inductive: that a claim finds no  *)
(* other holder needs that an open invoice has none, and that a charge finds   *)
(* no recorded payment needs that it was so since the claim was committed.     *)

Committed(p) == Charging(p) \/ (p \in Workflows /\ pc[p] = "claim_commit")

HolderNotOpen == \A p \in Procs : Holding(p) => status[inv[p]] # "open"

CommittedUnrecorded == \A p \in Procs : Committed(p) => succeeded[inv[p]] = 0

ClaimInv == OneHolder /\ HolderNotOpen /\ CommittedUnrecorded

\* What a step of process p may do to the claims: it takes one from an open
\* invoice, which it closes; it reopens an invoice only by giving its own claim
\* up; it records payments only of the invoice it holds, and then charges no more.
ClaimStep(p) ==
  /\ inv' = inv
  /\ \A q \in Procs : q # p => pc'[q] = pc[q]
  /\ Holding(p)' /\ ~Holding(p) => status[inv[p]] = "open" /\ status'[inv[p]] # "open"
  /\ \A i \in Invoices :
       status'[i] = "open" /\ status[i] # "open" => i = inv[p] /\ Holding(p) /\ ~Holding(p)'
  /\ \A i \in Invoices :
       succeeded'[i] # succeeded[i] => i = inv[p] /\ Holding(p) /\ ~Committed(p)'
  /\ Committed(p)' /\ ~Committed(p) => succeeded'[inv[p]] = 0

LEMMA ClaimStepKeepsClaimInv ==
  ASSUME TypeOK, ClaimInv, NEW p \in Procs, ClaimStep(p)
  PROVE  ClaimInv'
<1>1. inv \in [Procs -> Invoices] /\ inv' = inv BY DEF TypeOK, ClaimStep
<1>2. ASSUME NEW q \in Procs, q # p
      PROVE  (Holding(q)' <=> Holding(q)) /\ (Committed(q)' <=> Committed(q))
  BY <1>2 DEF ClaimStep, Holding, Committed, Charging
<1>3. ASSUME NEW q \in Procs, Committed(q) PROVE Holding(q)
  BY <1>3, ConstantsAssumption DEF Committed, Charging, Holding, Procs
<1>4. ASSUME NEW q \in Procs, NEW r \in Procs, Holding(q), Holding(r), inv[q] = inv[r]
      PROVE  q = r
  BY <1>4 DEF ClaimInv, OneHolder
<1>5. ASSUME NEW q \in Procs, Holding(q) PROVE status[inv[q]] # "open"
  BY <1>5 DEF ClaimInv, HolderNotOpen
<1>6. ASSUME NEW q \in Procs, Holding(q)', ~Holding(q)
      PROVE  /\ q = p
             /\ status[inv[q]] = "open" /\ status'[inv[q]] # "open"
  <2>1. q = p BY <1>2, <1>6
  <2> QED BY <1>6, <2>1 DEF ClaimStep
<1>7. OneHolder'
  <2> SUFFICES ASSUME NEW q \in Procs, NEW r \in Procs, Holding(q)', Holding(r)', inv[q] = inv[r]
               PROVE  q = r
    BY <1>1 DEF OneHolder
  <2>1. CASE Holding(q) /\ Holding(r) BY <2>1, <1>4
  <2>2. CASE ~Holding(q) /\ ~Holding(r)
    <3>1. q = p BY <2>2, <1>6
    <3>2. r = p BY <2>2, <1>6
    <3> QED BY <3>1, <3>2
  <2>3. CASE Holding(q) /\ ~Holding(r)
    <3>1. status[inv[r]] = "open" BY <2>3, <1>6
    <3>2. status[inv[q]] # "open" BY <2>3, <1>5
    <3> QED BY <3>1, <3>2
  <2>4. CASE ~Holding(q) /\ Holding(r)
    <3>1. status[inv[q]] = "open" BY <2>4, <1>6
    <3>2. status[inv[r]] # "open" BY <2>4, <1>5
    <3> QED BY <3>1, <3>2
  <2> QED BY <2>1, <2>2, <2>3, <2>4
<1>8. HolderNotOpen'
  <2> SUFFICES ASSUME NEW q \in Procs, Holding(q)' PROVE status'[inv[q]] # "open"
    BY <1>1 DEF HolderNotOpen
  <2>1. CASE ~Holding(q) BY <2>1, <1>6
  <2>2. CASE Holding(q)
    <3>1. status[inv[q]] # "open" BY <2>2, <1>5
    <3> SUFFICES ASSUME status'[inv[q]] = "open" PROVE FALSE OBVIOUS
    <3>2. inv[q] = inv[p] /\ Holding(p) /\ ~Holding(p)' BY <1>1, <3>1 DEF ClaimStep
    <3>3. q = p BY <3>2, <2>2, <1>4
    <3> QED BY <3>2, <3>3
  <2> QED BY <2>1, <2>2
<1>9. CommittedUnrecorded'
  <2> SUFFICES ASSUME NEW q \in Procs, Committed(q)' PROVE succeeded'[inv[q]] = 0
    BY <1>1 DEF CommittedUnrecorded
  <2>1. CASE ~Committed(q)
    <3>1. q = p BY <2>1, <1>2
    <3> QED BY <2>1, <3>1 DEF ClaimStep
  <2>2. CASE Committed(q)
    <3>1. succeeded[inv[q]] = 0 BY <2>2 DEF ClaimInv, CommittedUnrecorded
    <3>2. Holding(q) BY <2>2, <1>3
    <3> SUFFICES ASSUME succeeded'[inv[q]] # succeeded[inv[q]] PROVE FALSE BY <3>1
    <3>3. inv[q] = inv[p] /\ Holding(p) /\ ~Committed(p)' BY <1>1 DEF ClaimStep
    <3>4. q = p BY <3>2, <3>3, <1>4
    <3> QED BY <3>3, <3>4
  <2> QED BY <2>1, <2>2
<1> QED BY <1>7, <1>8, <1>9 DEF ClaimInv

LEMMA ClaimInit == Init => ClaimInv
<1> SUFFICES ASSUME Init PROVE ClaimInv OBVIOUS
<1>1. \A p \in Procs : ~Holding(p) /\ ~Committed(p)
  BY DEF Init, Holding, Committed, Charging
<1> QED BY <1>1 DEF ClaimInv, OneHolder, HolderNotOpen, CommittedUnrecorded

LEMMA WorkflowClaimStep ==
  ASSUME TypeOK, NEW w \in Workflows, Workflow(w)
  PROVE  ClaimStep(w)
<1> USE ConstantsAssumption DEF ClaimStep, Holding, Committed, Charging, TypeOK, Procs,
        Goto, SetStatusWhere, rows, provider
<1>1. CASE WfLoadPayment(w) BY <1>1 DEF WfLoadPayment
<1>2. CASE WfReadStatus(w) BY <1>2 DEF WfReadStatus
<1>3. CASE WfReadAttempt(w) BY <1>3 DEF WfReadAttempt
<1>4. CASE WfSettle(w) BY <1>4 DEF WfSettle
<1>5. CASE WfClaim(w) BY <1>5 DEF WfClaim
<1>6. CASE WfCommitClaim(w) BY <1>6 DEF WfCommitClaim
<1>7. CASE WfChargeAccepted(w) BY <1>7 DEF WfChargeAccepted
<1>8. CASE WfChargeDeclined(w) BY <1>8 DEF WfChargeDeclined, AfterFailedTry
<1>9. CASE WfRecordSuccess(w) BY <1>9 DEF WfRecordSuccess
<1>10. CASE WfMarkPaid(w) BY <1>10 DEF WfMarkPaid
<1>11. CASE WfRecordFailure(w) BY <1>11 DEF WfRecordFailure
<1>12. CASE WfReopen(w) BY <1>12 DEF WfReopen
<1>13. CASE WfCommitRecord(w) BY <1>13 DEF WfCommitRecord
<1>14. CASE WfClearBlock(w) BY <1>14 DEF WfClearBlock
<1>15. CASE WfComplete(w) BY <1>15 DEF WfComplete
<1>16. CASE WfBlock(w) BY <1>16 DEF WfBlock
<1>17. CASE WfBlockRun(w) BY <1>17 DEF WfBlockRun
<1> QED BY <1>1, <1>2, <1>3, <1>4, <1>5, <1>6, <1>7, <1>8, <1>9, <1>10, <1>11,
           <1>12, <1>13, <1>14, <1>15, <1>16, <1>17 DEF Workflow

LEMMA RequestClaimStep ==
  ASSUME TypeOK, NEW p \in Requests, Request(p)
  PROVE  ClaimStep(p)
<1> USE ConstantsAssumption DEF ClaimStep, Holding, Committed, Charging, TypeOK, Procs,
        Goto, SetStatusWhere, rows, provider
<1>1. CASE ReqLoad(p) BY <1>1 DEF ReqLoad
<1>2. CASE ReqReleaseReadStatus(p) BY <1>2 DEF ReqReleaseReadStatus
<1>3. CASE ReqReleaseReadAttempt(p) BY <1>3 DEF ReqReleaseReadAttempt
<1>4. CASE ReqReleaseLedger(p) BY <1>4 DEF ReqReleaseLedger
<1>5. CASE ReqReleaseInvoice(p) BY <1>5 DEF ReqReleaseInvoice
<1>6. CASE ReqReleaseBlock(p) BY <1>6 DEF ReqReleaseBlock
<1>7. CASE ReqClaim(p) BY <1>7 DEF ReqClaim
<1>8. CASE ReqClaimRefused(p) BY <1>8 DEF ReqClaimRefused
<1>9. CASE ReqReadAttempt(p) BY <1>9 DEF ReqReadAttempt
<1>10. CASE ReqSettleClear(p) BY <1>10 DEF ReqSettleClear
<1>11. CASE ReqSettleInvoice(p) BY <1>11 DEF ReqSettleInvoice
<1>12. CASE ReqCharge(p) BY <1>12 DEF ReqCharge
<1>13. CASE ReqRecordSuccess(p) BY <1>13 DEF ReqRecordSuccess
<1>14. CASE ReqMarkPaid(p) BY <1>14 DEF ReqMarkPaid
<1>15. CASE ReqClearBlock(p) BY <1>15 DEF ReqClearBlock
<1>16. CASE ReqRecordFailure(p) BY <1>16 DEF ReqRecordFailure
<1>17. CASE ReqReopen(p) BY <1>17 DEF ReqReopen
<1>18. CASE ReqCheckout(p) BY <1>18 DEF ReqCheckout
<1> QED BY <1>1, <1>2, <1>3, <1>4, <1>5, <1>6, <1>7, <1>8, <1>9, <1>10, <1>11,
           <1>12, <1>13, <1>14, <1>15, <1>16, <1>17, <1>18 DEF Request

\* A statement that took effect without its caller knowing ("lost") is the one
\* failure that breaks this: a claim committed behind the workflow's back.
LEMMA FaultClaimStep ==
  ASSUME TypeOK, "lost" \notin Faults, NEW p \in Procs,
         \/ p \in Workflows /\ WorkflowFault(p)
         \/ p \in Requests /\ RequestFault(p)
  PROVE  ClaimStep(p)
<1> USE ConstantsAssumption DEF ClaimStep, Holding, Committed, Charging, TypeOK, Procs,
        Goto, Fault, SetStatusWhere, rows, provider
<1>1. CASE p \in Workflows /\ WfChargeTimesOut(p) BY <1>1 DEF WfChargeTimesOut, AfterFailedTry
<1>2. CASE p \in Workflows /\ WfRunStepAgain(p) BY <1>2 DEF WfRunStepAgain
<1>3. CASE p \in Workflows /\ WfChargeStepAgain(p) BY <1>3 DEF WfChargeStepAgain
<1>4. CASE p \in Workflows /\ WfGivesUp(p) BY <1>4 DEF WfGivesUp, WorkflowPC
<1>5. CASE p \in Requests /\ ReqThrows(p) BY <1>5 DEF ReqThrows
<1>6. CASE p \in Requests /\ ReqAborts(p) BY <1>6 DEF ReqAborts, RequestPC
<1> QED BY <1>1, <1>2, <1>3, <1>4, <1>5, <1>6 DEF WorkflowFault, RequestFault

LEMMA PaymentKeepsClaimInv ==
  ASSUME TypeOK, ClaimInv, NEW i \in Invoices,
         CustomerPaysLink(i) \/ DeliverPayment(i) \/ DropPayment(i)
  PROVE  ClaimInv'
<1>1. pc' = pc /\ inv' = inv /\ succeeded' = succeeded
  BY DEF CustomerPaysLink, DeliverPayment, DropPayment, rows
<1>2. \A j \in Invoices : status[j] # "open" => status'[j] # "open"
  BY DEF CustomerPaysLink, DeliverPayment, DropPayment, rows, TypeOK
<1>3. inv \in [Procs -> Invoices] BY DEF TypeOK
<1>4. \A q \in Procs : (Holding(q)' <=> Holding(q)) /\ (Committed(q)' <=> Committed(q))
  BY <1>1 DEF Holding, Committed, Charging
<1> QED BY <1>1, <1>2, <1>3, <1>4 DEF ClaimInv, OneHolder, HolderNotOpen, CommittedUnrecorded

LEMMA ClaimNext ==
  ASSUME TypeOK, ClaimInv, "lost" \notin Faults, [Next]_vars
  PROVE  ClaimInv'
<1>1. ASSUME NEW w \in Workflows, Workflow(w) \/ WorkflowFault(w) PROVE ClaimInv'
  BY <1>1, WorkflowClaimStep, FaultClaimStep, ClaimStepKeepsClaimInv DEF Procs
<1>2. ASSUME NEW p \in Requests, Request(p) \/ RequestFault(p) PROVE ClaimInv'
  BY <1>2, RequestClaimStep, FaultClaimStep, ClaimStepKeepsClaimInv DEF Procs
<1>3. ASSUME NEW i \in Invoices,
             CustomerPaysLink(i) \/ DeliverPayment(i) \/ DropPayment(i)
      PROVE  ClaimInv'
  BY <1>3, PaymentKeepsClaimInv
<1>4. CASE UNCHANGED vars
  BY <1>4 DEF vars, ClaimInv, OneHolder, HolderNotOpen, CommittedUnrecorded,
              Holding, Committed, Charging
<1> QED BY <1>1, <1>2, <1>3, <1>4 DEF Next, Finished

LEMMA ClaimInvariant ==
  ASSUME "lost" \notin Faults
  PROVE  Spec => []ClaimInv
<1>1. Init => ClaimInv BY ClaimInit
<1>2. TypeOK /\ ClaimInv /\ [Next]_vars => ClaimInv' BY ClaimNext
<1> QED BY <1>1, <1>2, TypeCorrect, PTL DEF Spec

(* Unless a statement takes effect behind its caller's back, at most one       *)
(* workflow or request acts on a claim of an invoice, whatever the numbers of  *)
(* processes and invoices and of all other failures.                           *)
THEOREM ClaimExclusive ==
  ASSUME "lost" \notin Faults
  PROVE  Spec => []OneHolder
<1>1. ClaimInv => OneHolder BY DEF ClaimInv
<1> QED BY <1>1, ClaimInvariant, PTL

(* Under the same assumption, nobody charges an invoice whose payment is on    *)
(* record, although the success may be recorded while the claim is re-read.    *)
THEOREM SettledInvoiceSafe ==
  ASSUME "lost" \notin Faults
  PROVE  Spec => []SettledNeverRecharged
<1>1. ClaimInv => SettledNeverRecharged
  BY DEF ClaimInv, CommittedUnrecorded, Committed, SettledNeverRecharged
<1> QED BY <1>1, ClaimInvariant, PTL

-----------------------------------------------------------------------------
(* Charging once.  An invoice that is open, or claimed by somebody who has not *)
(* charged it yet, has not been charged.  Three kinds of failure break this by *)
(* reopening, or claiming twice, what was charged: a charge that times out, a  *)
(* statement that raises after one, a statement applied behind its caller's    *)
(* back.  Until one happens, the others included, no invoice is charged twice. *)

Unharmed == faults = 0 \/ Faults \cap {"timeout", "throw", "lost"} = {}

HasNotCharged(p) == Holding(p) /\ pc[p] \notin {"paid_attempt", "paid_invoice", "paid_clear"}

OpenUncharged == \A i \in Invoices : status[i] = "open" => charged[i] = 0

ClaimUncharged == \A p \in Procs : HasNotCharged(p) => charged[inv[p]] = 0

UnchargedInv == OpenUncharged /\ ClaimUncharged /\ ChargedAtMostOnce

\* What a step of process p may do to the charges: it charges the invoice it
\* holds, once, and is then past charging; it reopens only what it has claimed
\* and not charged; and it begins a claim with an open invoice.
ChargeStep(p) ==
  /\ inv' = inv
  /\ \A q \in Procs : q # p => pc'[q] = pc[q]
  /\ \A i \in Invoices :
       charged'[i] # charged[i] =>
         /\ i = inv[p] /\ Charging(p) /\ ~HasNotCharged(p)'
         /\ charged'[i] = charged[i] + 1 /\ status'[i] = status[i]
  /\ \A i \in Invoices :
       status'[i] = "open" /\ status[i] # "open" => i = inv[p] /\ HasNotCharged(p)
  /\ HasNotCharged(p)' /\ ~HasNotCharged(p) => status[inv[p]] = "open" /\ charged' = charged

LEMMA ChargeStepKeepsUncharged ==
  ASSUME TypeOK, ClaimInv, UnchargedInv, NEW p \in Procs, ChargeStep(p)
  PROVE  UnchargedInv'
<1>1. inv \in [Procs -> Invoices] /\ inv' = inv BY DEF TypeOK, ChargeStep
<1>2. ASSUME NEW q \in Procs, q # p PROVE HasNotCharged(q)' <=> HasNotCharged(q)
  BY <1>2 DEF ChargeStep, HasNotCharged, Holding
<1>3. ASSUME Charging(p) PROVE HasNotCharged(p)
  BY <1>3, ConstantsAssumption DEF Charging, HasNotCharged, Holding, Procs
<1>4. ASSUME NEW q \in Procs, HasNotCharged(q)
      PROVE  charged[inv[q]] = 0 /\ status[inv[q]] # "open"
  BY <1>4 DEF UnchargedInv, ClaimUncharged, ClaimInv, HolderNotOpen, HasNotCharged
<1>5. ASSUME NEW i \in Invoices, charged'[i] # charged[i]
      PROVE  /\ i = inv[p] /\ HasNotCharged(p) /\ ~HasNotCharged(p)'
             /\ charged'[i] = 1 /\ status'[i] # "open"
  <2>1. /\ i = inv[p] /\ Charging(p) /\ ~HasNotCharged(p)'
        /\ charged'[i] = charged[i] + 1 /\ status'[i] = status[i]
    BY <1>5 DEF ChargeStep
  <2>2. HasNotCharged(p) BY <2>1, <1>3
  <2>3. charged[i] = 0 /\ status[i] # "open" BY <2>1, <2>2, <1>4
  <2> QED BY <2>1, <2>2, <2>3
<1>6. OpenUncharged'
  <2> SUFFICES ASSUME NEW i \in Invoices, status'[i] = "open" PROVE charged'[i] = 0
    BY DEF OpenUncharged
  <2>1. charged'[i] = charged[i] BY <1>5
  <2>2. CASE status[i] = "open" BY <2>1, <2>2 DEF UnchargedInv, OpenUncharged
  <2>3. CASE status[i] # "open"
    <3>1. i = inv[p] /\ HasNotCharged(p) BY <2>3 DEF ChargeStep
    <3> QED BY <2>1, <3>1, <1>4
  <2> QED BY <2>2, <2>3
<1>7. ClaimUncharged'
  <2> SUFFICES ASSUME NEW q \in Procs, HasNotCharged(q)' PROVE charged'[inv[q]] = 0
    BY <1>1 DEF ClaimUncharged
  <2>0. inv[q] \in Invoices BY <1>1
  <2>1. CASE HasNotCharged(q)
    <3>1. charged[inv[q]] = 0 BY <2>1, <1>4
    <3> SUFFICES ASSUME charged'[inv[q]] # charged[inv[q]] PROVE FALSE BY <3>1
    <3>2. inv[q] = inv[p] /\ HasNotCharged(p) /\ ~HasNotCharged(p)' BY <2>0, <1>5
    <3>3. q = p BY <2>1, <3>2 DEF ClaimInv, OneHolder, HasNotCharged
    <3> QED BY <3>2, <3>3
  <2>2. CASE ~HasNotCharged(q)
    <3>1. q = p BY <2>2, <1>2
    <3>2. status[inv[q]] = "open" /\ charged' = charged BY <2>2, <3>1 DEF ChargeStep
    <3> QED BY <2>0, <3>2 DEF UnchargedInv, OpenUncharged
  <2> QED BY <2>1, <2>2
<1>8. ChargedAtMostOnce'
  <2> SUFFICES ASSUME NEW i \in Invoices PROVE charged'[i] <= 1 BY DEF ChargedAtMostOnce
  <2>1. CASE charged'[i] # charged[i] BY <2>1, <1>5
  <2>2. CASE charged'[i] = charged[i] BY <2>2 DEF UnchargedInv, ChargedAtMostOnce
  <2> QED BY <2>1, <2>2
<1> QED BY <1>6, <1>7, <1>8 DEF UnchargedInv

LEMMA UnchargedInit == Init => UnchargedInv
<1> SUFFICES ASSUME Init PROVE UnchargedInv OBVIOUS
<1>1. \A p \in Procs : ~HasNotCharged(p) BY DEF Init, HasNotCharged, Holding
<1>2. \A i \in Invoices : charged[i] = 0 BY DEF Init
<1> QED BY <1>1, <1>2 DEF UnchargedInv, OpenUncharged, ClaimUncharged, ChargedAtMostOnce

LEMMA WorkflowChargeStep ==
  ASSUME TypeOK, NEW w \in Workflows, Workflow(w)
  PROVE  ChargeStep(w)
<1> USE ConstantsAssumption DEF ChargeStep, HasNotCharged, Holding, Charging, TypeOK, Procs,
        Goto, SetStatusWhere, rows, provider
<1>1. CASE WfLoadPayment(w) BY <1>1 DEF WfLoadPayment
<1>2. CASE WfReadStatus(w) BY <1>2 DEF WfReadStatus
<1>3. CASE WfReadAttempt(w) BY <1>3 DEF WfReadAttempt
<1>4. CASE WfSettle(w) BY <1>4 DEF WfSettle
<1>5. CASE WfClaim(w) BY <1>5 DEF WfClaim
<1>6. CASE WfCommitClaim(w) BY <1>6 DEF WfCommitClaim
<1>7. CASE WfChargeAccepted(w) BY <1>7 DEF WfChargeAccepted, CardCharged
<1>8. CASE WfChargeDeclined(w) BY <1>8 DEF WfChargeDeclined, AfterFailedTry
<1>9. CASE WfRecordSuccess(w) BY <1>9 DEF WfRecordSuccess
<1>10. CASE WfMarkPaid(w) BY <1>10 DEF WfMarkPaid
<1>11. CASE WfRecordFailure(w) BY <1>11 DEF WfRecordFailure
<1>12. CASE WfReopen(w) BY <1>12 DEF WfReopen
<1>13. CASE WfCommitRecord(w) BY <1>13 DEF WfCommitRecord
<1>14. CASE WfClearBlock(w) BY <1>14 DEF WfClearBlock
<1>15. CASE WfComplete(w) BY <1>15 DEF WfComplete
<1>16. CASE WfBlock(w) BY <1>16 DEF WfBlock
<1>17. CASE WfBlockRun(w) BY <1>17 DEF WfBlockRun
<1> QED BY <1>1, <1>2, <1>3, <1>4, <1>5, <1>6, <1>7, <1>8, <1>9, <1>10, <1>11,
           <1>12, <1>13, <1>14, <1>15, <1>16, <1>17 DEF Workflow

LEMMA RequestChargeStep ==
  ASSUME TypeOK, NEW p \in Requests, Request(p), Unharmed'
  PROVE  ChargeStep(p)
<1> USE ConstantsAssumption DEF ChargeStep, HasNotCharged, Holding, Charging, TypeOK, Procs,
        Goto, SetStatusWhere, rows, provider
<1>1. CASE ReqLoad(p) BY <1>1 DEF ReqLoad
<1>2. CASE ReqReleaseReadStatus(p) BY <1>2 DEF ReqReleaseReadStatus
<1>3. CASE ReqReleaseReadAttempt(p) BY <1>3 DEF ReqReleaseReadAttempt
<1>4. CASE ReqReleaseLedger(p) BY <1>4 DEF ReqReleaseLedger
<1>5. CASE ReqReleaseInvoice(p) BY <1>5 DEF ReqReleaseInvoice
<1>6. CASE ReqReleaseBlock(p) BY <1>6 DEF ReqReleaseBlock
<1>7. CASE ReqClaim(p) BY <1>7 DEF ReqClaim
<1>8. CASE ReqClaimRefused(p) BY <1>8 DEF ReqClaimRefused
<1>9. CASE ReqReadAttempt(p) BY <1>9 DEF ReqReadAttempt
<1>10. CASE ReqSettleClear(p) BY <1>10 DEF ReqSettleClear
<1>11. CASE ReqSettleInvoice(p) BY <1>11 DEF ReqSettleInvoice
<1>12. CASE ReqCharge(p)
  <2>1. ~Fault("timeout") BY DEF Fault, Unharmed
  <2>2. CASE Goto(p, "charge", "paid_attempt") /\ CardCharged(inv[p])
    BY <1>12, <2>2 DEF ReqCharge, CardCharged
  <2>3. CASE Goto(p, "charge", "failed_attempt") /\ UNCHANGED charged
    BY <1>12, <2>3 DEF ReqCharge
  <2> QED BY <1>12, <2>1, <2>2, <2>3 DEF ReqCharge
<1>13. CASE ReqRecordSuccess(p) BY <1>13 DEF ReqRecordSuccess
<1>14. CASE ReqMarkPaid(p) BY <1>14 DEF ReqMarkPaid
<1>15. CASE ReqClearBlock(p) BY <1>15 DEF ReqClearBlock
<1>16. CASE ReqRecordFailure(p) BY <1>16 DEF ReqRecordFailure
<1>17. CASE ReqReopen(p) BY <1>17 DEF ReqReopen
<1>18. CASE ReqCheckout(p) BY <1>18 DEF ReqCheckout
<1> QED BY <1>1, <1>2, <1>3, <1>4, <1>5, <1>6, <1>7, <1>8, <1>9, <1>10, <1>11,
           <1>12, <1>13, <1>14, <1>15, <1>16, <1>17, <1>18 DEF Request

\* A failed step that is run again, retries that are exhausted and a request
\* that dies leave the invoice claimed: nobody reopens it.
LEMMA FaultChargeStep ==
  ASSUME TypeOK, Unharmed', NEW p \in Procs,
         \/ p \in Workflows /\ WorkflowFault(p)
         \/ p \in Requests /\ RequestFault(p)
  PROVE  ClaimStep(p) /\ ChargeStep(p)
<1> USE ConstantsAssumption DEF ChargeStep, HasNotCharged, Holding, Charging, TypeOK, Procs,
        Goto, rows, provider
<1>1. ~Fault("timeout") /\ ~Fault("throw") /\ ~Fault("lost") BY DEF Fault, Unharmed
<1>2. ChargeStep(p)
  <2>1. CASE p \in Workflows /\ WfRunStepAgain(p) BY <1>1, <2>1 DEF WfRunStepAgain
  <2>2. CASE p \in Workflows /\ WfGivesUp(p) BY <2>2 DEF WfGivesUp
  <2>3. CASE p \in Requests /\ ReqAborts(p) BY <2>3 DEF ReqAborts
  <2> QED BY <1>1, <2>1, <2>2, <2>3 DEF WorkflowFault, RequestFault, WfChargeTimesOut,
             WfChargeStepAgain, ReqThrows
<1>3. ClaimStep(p)
  <2> USE DEF ClaimStep, Committed
  <2>1. CASE p \in Workflows /\ WfRunStepAgain(p) BY <1>1, <2>1 DEF WfRunStepAgain
  <2>2. CASE p \in Workflows /\ WfGivesUp(p) BY <2>2 DEF WfGivesUp
  <2>3. CASE p \in Requests /\ ReqAborts(p) BY <2>3 DEF ReqAborts
  <2> QED BY <1>1, <2>1, <2>2, <2>3 DEF WorkflowFault, RequestFault, WfChargeTimesOut,
             WfChargeStepAgain, ReqThrows
<1> QED BY <1>2, <1>3

LEMMA PaymentKeepsUncharged ==
  ASSUME TypeOK, UnchargedInv, NEW i \in Invoices,
         CustomerPaysLink(i) \/ DeliverPayment(i) \/ DropPayment(i)
  PROVE  UnchargedInv'
<1>1. pc' = pc /\ inv' = inv /\ charged' = charged
  BY DEF CustomerPaysLink, DeliverPayment, DropPayment, rows
<1>2. \A j \in Invoices : status[j] # "open" => status'[j] # "open"
  BY DEF CustomerPaysLink, DeliverPayment, DropPayment, rows, TypeOK
<1>3. \A q \in Procs : HasNotCharged(q)' <=> HasNotCharged(q)
  BY <1>1 DEF HasNotCharged, Holding
<1> QED BY <1>1, <1>2, <1>3 DEF UnchargedInv, OpenUncharged, ClaimUncharged, ChargedAtMostOnce

LEMMA UnharmedBefore ==
  ASSUME TypeOK, [Next]_vars, Unharmed'
  PROVE  Unharmed
<1> SUFFICES ASSUME faults' = 0 PROVE faults' = faults BY DEF Unharmed
<1> USE DEF TypeOK, Fault, rows, provider
<1>1. ASSUME NEW w \in Workflows, Workflow(w) PROVE faults' = faults
  BY <1>1 DEF Workflow, WfLoadPayment, WfReadStatus, WfReadAttempt, WfSettle, WfClaim,
              WfCommitClaim, WfChargeAccepted, WfChargeDeclined, WfRecordSuccess,
              WfMarkPaid, WfRecordFailure, WfReopen, WfCommitRecord, WfClearBlock,
              WfComplete, WfBlock, WfBlockRun
<1>2. ASSUME NEW w \in Workflows PROVE ~WorkflowFault(w)
  BY DEF WorkflowFault, WfChargeTimesOut, WfRunStepAgain, WfChargeStepAgain, WfGivesUp
<1>3. ASSUME NEW p \in Requests, Request(p) PROVE faults' = faults
  BY <1>3 DEF Request, ReqLoad, ReqReleaseReadStatus, ReqReleaseReadAttempt,
              ReqReleaseLedger, ReqReleaseInvoice, ReqReleaseBlock, ReqClaim,
              ReqClaimRefused, ReqReadAttempt, ReqSettleClear, ReqSettleInvoice,
              ReqCharge, ReqRecordSuccess, ReqMarkPaid, ReqClearBlock,
              ReqRecordFailure, ReqReopen, ReqCheckout
<1>4. ASSUME NEW p \in Requests PROVE ~RequestFault(p)
  BY DEF RequestFault, ReqThrows, ReqAborts
<1>5. ASSUME NEW i \in Invoices, CustomerPaysLink(i) \/ DeliverPayment(i) \/ DropPayment(i)
      PROVE  faults' = faults
  BY <1>5 DEF CustomerPaysLink, DeliverPayment, DropPayment
<1>6. CASE UNCHANGED vars BY <1>6 DEF vars
<1> QED BY <1>1, <1>2, <1>3, <1>4, <1>5, <1>6 DEF Next, Finished

ChargeInv == Unharmed => ClaimInv /\ UnchargedInv

LEMMA ChargeNext ==
  ASSUME TypeOK, ChargeInv, [Next]_vars
  PROVE  ChargeInv'
<1> SUFFICES ASSUME Unharmed' PROVE ClaimInv' /\ UnchargedInv' BY DEF ChargeInv
<1>0. ClaimInv /\ UnchargedInv BY UnharmedBefore DEF ChargeInv
<1>1. ASSUME NEW w \in Workflows, Workflow(w) \/ WorkflowFault(w)
      PROVE  ClaimInv' /\ UnchargedInv'
  <2>1. ClaimStep(w) /\ ChargeStep(w)
    BY <1>1, WorkflowClaimStep, WorkflowChargeStep, FaultChargeStep DEF Procs
  <2> QED BY <1>0, <2>1, ClaimStepKeepsClaimInv, ChargeStepKeepsUncharged DEF Procs
<1>2. ASSUME NEW p \in Requests, Request(p) \/ RequestFault(p)
      PROVE  ClaimInv' /\ UnchargedInv'
  <2>1. ClaimStep(p) /\ ChargeStep(p)
    BY <1>2, RequestClaimStep, RequestChargeStep, FaultChargeStep DEF Procs
  <2> QED BY <1>0, <2>1, ClaimStepKeepsClaimInv, ChargeStepKeepsUncharged DEF Procs
<1>3. ASSUME NEW i \in Invoices,
             CustomerPaysLink(i) \/ DeliverPayment(i) \/ DropPayment(i)
      PROVE  ClaimInv' /\ UnchargedInv'
  BY <1>0, <1>3, PaymentKeepsClaimInv, PaymentKeepsUncharged
<1>4. CASE UNCHANGED vars
  BY <1>0, <1>4 DEF vars, ClaimInv, OneHolder, HolderNotOpen, CommittedUnrecorded,
              Holding, Committed, Charging, UnchargedInv, OpenUncharged, ClaimUncharged,
              HasNotCharged, ChargedAtMostOnce
<1> QED BY <1>1, <1>2, <1>3, <1>4 DEF Next, Finished

LEMMA ChargeInvariance == Spec => []ChargeInv
<1>1. Init => ChargeInv BY ClaimInit, UnchargedInit DEF ChargeInv
<1>2. TypeOK /\ ChargeInv /\ [Next]_vars => ChargeInv' BY ChargeNext
<1> QED BY <1>1, <1>2, TypeCorrect, PTL DEF Spec

(* As long as nothing fails, concurrent workflows and requests charge the      *)
(* saved card for an invoice at most once, whatever their numbers, and whether *)
(* or not the provider recognizes a reference it has charged.                  *)
THEOREM ChargedOnce == Spec => []ChargedOnceUnlessFaulted
<1>1. ChargeInv => ChargedOnceUnlessFaulted
  BY DEF ChargeInv, Unharmed, UnchargedInv, ChargedOnceUnlessFaulted
<1> QED BY <1>1, ChargeInvariance, PTL

(* It stays so through workflow steps run again, exhausted retries, requests   *)
(* that die and webhooks that are swallowed: an invoice whose charger dies is  *)
(* left collecting, which costs its collection and not a second charge.        *)
THEOREM ChargedOnceThroughCrashes ==
  ASSUME Faults \cap {"timeout", "throw", "lost"} = {}
  PROVE  Spec => []ChargedAtMostOnce
<1>1. ChargeInv => ChargedAtMostOnce BY DEF ChargeInv, Unharmed, UnchargedInv
<1> QED BY <1>1, ChargeInvariance, PTL

-----------------------------------------------------------------------------
(* A payment is not undone by anyone: every reopening and every claim tests    *)
(* the status it leaves, so no step takes an invoice from paid to open or      *)
(* collecting, whatever fails.                                                 *)
THEOREM PaymentStands == Spec => PaidStaysSettled
<1>1. ASSUME TypeOK, [Next]_vars, NEW i \in Invoices, status[i] = "paid"
      PROVE  status'[i] \notin {"open", "collecting"}
  <2> USE <1>1 DEF TypeOK, SetStatusWhere, rows, provider
  <2>1. ASSUME NEW w \in Workflows, Workflow(w) PROVE status'[i] \notin {"open", "collecting"}
    BY <2>1 DEF Workflow, WfLoadPayment, WfReadStatus, WfReadAttempt, WfSettle, WfClaim,
                WfCommitClaim, WfChargeAccepted, WfChargeDeclined, WfRecordSuccess,
                WfMarkPaid, WfRecordFailure, WfReopen, WfCommitRecord, WfClearBlock,
                WfComplete, WfBlock, WfBlockRun
  <2>2. ASSUME NEW w \in Workflows, WorkflowFault(w)
        PROVE  status'[i] \notin {"open", "collecting"}
    BY <2>2 DEF WorkflowFault, WfChargeTimesOut, WfRunStepAgain, WfChargeStepAgain, WfGivesUp
  <2>3. ASSUME NEW p \in Requests, Request(p) PROVE status'[i] \notin {"open", "collecting"}
    BY <2>3 DEF Request, ReqLoad, ReqReleaseReadStatus, ReqReleaseReadAttempt,
                ReqReleaseLedger, ReqReleaseInvoice, ReqReleaseBlock, ReqClaim,
                ReqClaimRefused, ReqReadAttempt, ReqSettleClear, ReqSettleInvoice,
                ReqCharge, ReqRecordSuccess, ReqMarkPaid, ReqClearBlock,
                ReqRecordFailure, ReqReopen, ReqCheckout
  <2>4. ASSUME NEW p \in Requests, RequestFault(p)
        PROVE  status'[i] \notin {"open", "collecting"}
    BY <2>4 DEF RequestFault, ReqThrows, ReqAborts
  <2>5. ASSUME NEW j \in Invoices,
               CustomerPaysLink(j) \/ DeliverPayment(j) \/ DropPayment(j)
        PROVE  status'[i] \notin {"open", "collecting"}
    BY <2>5 DEF CustomerPaysLink, DeliverPayment, DropPayment
  <2>6. CASE UNCHANGED vars BY <2>6 DEF vars
  <2> QED BY <2>1, <2>2, <2>3, <2>4, <2>5, <2>6 DEF Next, Finished
<1>2. TypeOK /\ [Next]_vars =>
        [\A i \in Invoices : status[i] = "paid" => status'[i] \notin {"open", "collecting"}]_vars
  BY <1>1
<1> QED BY <1>2, TypeCorrect, PTL DEF Spec, PaidStaysSettled

-----------------------------------------------------------------------------
(* Paid means money.  The invariant follows the evidence back: a paid invoice, *)
(* a recorded success, an undelivered event and a process on the way to paid   *)
(* each stand for an accepted charge or a paid checkout, which never go away.  *)

Backed(i) == charged[i] > 0 \/ link[i] = "paid"

Settling(p) == pc[p] \in {"claim_settle", "settle_clear", "settle_invoice",
                          "paid_attempt", "paid_invoice", "paid_commit"}

EvidenceBacked ==
  \A i \in Invoices :
    status[i] = "paid" \/ succeeded[i] > 0 \/ i \in events => Backed(i)

SettlingBacked == \A p \in Procs : Settling(p) => Backed(inv[p])

BackedInv == EvidenceBacked /\ SettlingBacked

\* What a step of process p may do to the evidence.
BackedStep(p) ==
  /\ inv' = inv
  /\ \A q \in Procs : q # p => pc'[q] = pc[q]
  /\ \A i \in Invoices : Backed(i) => Backed(i)'
  /\ \A i \in Invoices :
       /\ status'[i] = "paid" => status[i] = "paid" \/ (i = inv[p] /\ Settling(p))
       /\ succeeded'[i] > 0 => succeeded[i] > 0 \/ (i = inv[p] /\ Settling(p))
       /\ i \in events' => i \in events \/ Backed(i)'
  /\ Settling(p)' => Settling(p) \/ succeeded[inv[p]] > 0 \/ Backed(inv[p])'

LEMMA BackedStepKeepsBackedInv ==
  ASSUME TypeOK, BackedInv, NEW p \in Procs, BackedStep(p)
  PROVE  BackedInv'
<1>1. inv \in [Procs -> Invoices] /\ inv' = inv BY DEF TypeOK, BackedStep
<1>2. \A i \in Invoices : Backed(i) => Backed(i)' BY DEF BackedStep
<1>3. EvidenceBacked'
  <2> SUFFICES ASSUME NEW i \in Invoices,
                      status'[i] = "paid" \/ succeeded'[i] > 0 \/ i \in events'
               PROVE  Backed(i)'
    BY DEF EvidenceBacked
  <2>1. \/ status[i] = "paid" \/ succeeded[i] > 0 \/ i \in events
        \/ i = inv[p] /\ Settling(p)
        \/ Backed(i)'
    BY DEF BackedStep
  <2> QED BY <1>2, <2>1 DEF BackedInv, EvidenceBacked, SettlingBacked
<1>4. SettlingBacked'
  <2> SUFFICES ASSUME NEW q \in Procs, Settling(q)' PROVE Backed(inv[q])'
    BY <1>1 DEF SettlingBacked
  <2>1. CASE q = p
    BY <1>1, <1>2, <2>1 DEF BackedStep, BackedInv, EvidenceBacked, SettlingBacked
  <2>2. CASE q # p
    <3>1. Settling(q) BY <2>2 DEF BackedStep, Settling
    <3>2. Backed(inv[q]) BY <3>1 DEF BackedInv, SettlingBacked
    <3> QED BY <1>1, <1>2, <3>2 DEF Backed
  <2> QED BY <2>1, <2>2
<1> QED BY <1>3, <1>4 DEF BackedInv

LEMMA WorkflowBackedStep ==
  ASSUME TypeOK, NEW p \in Workflows, Workflow(p) \/ WorkflowFault(p)
  PROVE  BackedStep(p)
<1> USE ConstantsAssumption DEF BackedStep, Settling, Backed, TypeOK, Procs, Goto, Fault,
        SetStatusWhere, CardCharged, rows, provider
<1>1. CASE WfLoadPayment(p) \/ WfReadStatus(p) \/ WfReadAttempt(p) \/ WfSettle(p)
  BY <1>1 DEF WfLoadPayment, WfReadStatus, WfReadAttempt, WfSettle
<1>2. CASE WfClaim(p) \/ WfCommitClaim(p) BY <1>2 DEF WfClaim, WfCommitClaim
<1>3. CASE WfChargeAccepted(p) BY <1>3 DEF WfChargeAccepted
<1>4. CASE WfChargeDeclined(p) BY <1>4 DEF WfChargeDeclined, AfterFailedTry
<1>5. CASE WfRecordSuccess(p) \/ WfMarkPaid(p) BY <1>5 DEF WfRecordSuccess, WfMarkPaid
<1>6. CASE WfRecordFailure(p) \/ WfReopen(p) \/ WfCommitRecord(p)
  BY <1>6 DEF WfRecordFailure, WfReopen, WfCommitRecord
<1>7. CASE WfClearBlock(p) \/ WfComplete(p) \/ WfBlock(p) \/ WfBlockRun(p)
  BY <1>7 DEF WfClearBlock, WfComplete, WfBlock, WfBlockRun
<1>8. CASE WfChargeTimesOut(p) BY <1>8 DEF WfChargeTimesOut, AfterFailedTry
<1>9. CASE WfRunStepAgain(p) BY <1>9 DEF WfRunStepAgain
<1>10. CASE WfChargeStepAgain(p) \/ WfGivesUp(p) BY <1>10 DEF WfChargeStepAgain, WfGivesUp
<1> QED BY <1>1, <1>2, <1>3, <1>4, <1>5, <1>6, <1>7, <1>8, <1>9, <1>10
        DEF Workflow, WorkflowFault

LEMMA RequestBackedStep ==
  ASSUME TypeOK, NEW p \in Requests, Request(p) \/ RequestFault(p)
  PROVE  BackedStep(p)
<1> USE ConstantsAssumption DEF BackedStep, Settling, Backed, TypeOK, Procs, Goto, Fault,
        SetStatusWhere, CardCharged, rows, provider
<1>1. CASE ReqLoad(p) BY <1>1 DEF ReqLoad
<1>2. CASE ReqReleaseReadStatus(p) \/ ReqReleaseReadAttempt(p) \/ ReqReleaseLedger(p)
  BY <1>2 DEF ReqReleaseReadStatus, ReqReleaseReadAttempt, ReqReleaseLedger
<1>3. CASE ReqReleaseInvoice(p) \/ ReqReleaseBlock(p)
  BY <1>3 DEF ReqReleaseInvoice, ReqReleaseBlock
<1>4. CASE ReqClaim(p) \/ ReqClaimRefused(p) \/ ReqReadAttempt(p)
  BY <1>4 DEF ReqClaim, ReqClaimRefused, ReqReadAttempt
<1>5. CASE ReqSettleClear(p) \/ ReqSettleInvoice(p) BY <1>5 DEF ReqSettleClear, ReqSettleInvoice
<1>6. CASE ReqCharge(p) BY <1>6 DEF ReqCharge
<1>7. CASE ReqRecordSuccess(p) \/ ReqMarkPaid(p) \/ ReqClearBlock(p)
  BY <1>7 DEF ReqRecordSuccess, ReqMarkPaid, ReqClearBlock
<1>8. CASE ReqRecordFailure(p) \/ ReqReopen(p) BY <1>8 DEF ReqRecordFailure, ReqReopen
<1>9. CASE ReqCheckout(p) BY <1>9 DEF ReqCheckout
<1>10. CASE ReqThrows(p) BY <1>10 DEF ReqThrows
<1>11. CASE ReqAborts(p) BY <1>11 DEF ReqAborts
<1> QED BY <1>1, <1>2, <1>3, <1>4, <1>5, <1>6, <1>7, <1>8, <1>9, <1>10, <1>11
        DEF Request, RequestFault

LEMMA PaymentKeepsBackedInv ==
  ASSUME TypeOK, BackedInv, NEW i \in Invoices,
         CustomerPaysLink(i) \/ DeliverPayment(i) \/ DropPayment(i)
  PROVE  BackedInv'
<1> USE DEF BackedInv, EvidenceBacked, SettlingBacked, Settling, Backed, TypeOK, rows
<1>1. CASE CustomerPaysLink(i) BY <1>1 DEF CustomerPaysLink
<1>2. CASE DeliverPayment(i) BY <1>2 DEF DeliverPayment
<1>3. CASE DropPayment(i) BY <1>3 DEF DropPayment
<1> QED BY <1>1, <1>2, <1>3

LEMMA BackedInvariant == Spec => []BackedInv
<1>1. Init => BackedInv
  BY DEF Init, BackedInv, EvidenceBacked, SettlingBacked, Settling, Backed
<1>2. TypeOK /\ BackedInv /\ [Next]_vars => BackedInv'
  <2> SUFFICES ASSUME TypeOK, BackedInv, [Next]_vars PROVE BackedInv' OBVIOUS
  <2>1. ASSUME NEW w \in Workflows, Workflow(w) \/ WorkflowFault(w) PROVE BackedInv'
    BY <2>1, WorkflowBackedStep, BackedStepKeepsBackedInv DEF Procs
  <2>2. ASSUME NEW p \in Requests, Request(p) \/ RequestFault(p) PROVE BackedInv'
    BY <2>2, RequestBackedStep, BackedStepKeepsBackedInv DEF Procs
  <2>3. ASSUME NEW i \in Invoices,
               CustomerPaysLink(i) \/ DeliverPayment(i) \/ DropPayment(i)
        PROVE  BackedInv'
    BY <2>3, PaymentKeepsBackedInv
  <2>4. CASE UNCHANGED vars
    BY <2>4 DEF vars, BackedInv, EvidenceBacked, SettlingBacked, Settling, Backed
  <2> QED BY <2>1, <2>2, <2>3, <2>4 DEF Next, Finished
<1> QED BY <1>1, <1>2, TypeCorrect, PTL DEF Spec

(* Whatever fails, and however workflows, requests and webhooks interleave, an *)
(* invoice is paid only after its money moved.                                 *)
THEOREM PaidMeansMoney == Spec => []PaidIsBacked
<1>1. BackedInv => PaidIsBacked BY DEF BackedInv, EvidenceBacked, Backed, PaidIsBacked
<1> QED BY <1>1, BackedInvariant, PTL

-----------------------------------------------------------------------------
(* The statements implement the promise.  Each step of a process concerns the  *)
(* one invoice it works on and is, there, one of five kinds of step.           *)

Keeps(p) == Holding(p)' <=> Holding(p)
SameMoney(i) == Backed(i)' <=> Backed(i)

PromisedStep(p) ==
  LET i == inv[p]
  IN  /\ inv' = inv
      /\ \A q \in Procs : q # p => pc'[q] = pc[q]
      /\ \A j \in Invoices : j # i => status'[j] = status[j] /\ SameMoney(j)
      /\ \/ /\ Keeps(p) /\ status'[i] = status[i]
            /\ SameMoney(i) \/ (Holding(p) /\ Backed(i)')
         \/ /\ ~Holding(p) /\ Holding(p)' /\ SameMoney(i)
            /\ status[i] = "open" /\ status'[i] = "collecting"
         \/ /\ Holding(p) /\ ~Holding(p)' /\ SameMoney(i)
            /\ \/ status'[i] = status[i]
               \/ status[i] = "collecting" /\ status'[i] = "open"
               \/ status[i] = "collecting" /\ status'[i] = "paid" /\ Settling(p)
         \/ Keeps(p) /\ SameMoney(i) /\ status'[i] = "paid" /\ Settling(p)
         \/ Keeps(p) /\ SameMoney(i) /\ status'[i] = "void"

LEMMA PromisedStepRefines ==
  ASSUME TypeOK, TypeOK', ClaimInv, BackedInv, NEW p \in Procs, PromisedStep(p)
  PROVE  Collection!Next \/ UNCHANGED Collection!vars
<1> DEFINE i == inv[p]
           H == [j \in Invoices |-> HoldersOf(j)]
           M == [j \in Invoices |-> charged[j] > 0 \/ link[j] = "paid"]
<1>1. /\ i \in Invoices /\ i' = i
      /\ status \in [Invoices -> InvoiceStatus] /\ status' \in [Invoices -> InvoiceStatus]
  BY DEF TypeOK, PromisedStep
<1>2. \A j \in Invoices : j # i => HoldersOf(j)' = HoldersOf(j)
  BY DEF PromisedStep, HoldersOf, Holding
<1>3. Keeps(p) => HoldersOf(i)' = HoldersOf(i)
  BY <1>1 DEF PromisedStep, HoldersOf, Holding, Keeps
<1>4. ASSUME Keeps(p) PROVE H' = H
  <2>1. \A j \in Invoices : HoldersOf(j)' = HoldersOf(j) BY <1>1, <1>2, <1>3, <1>4
  <2> QED BY <2>1
<1>5. \A j \in Invoices : SameMoney(j) => M'[j] = M[j]
  BY DEF SameMoney, Backed
<1>6. (\A j \in Invoices : SameMoney(j)) => M' = M
  BY <1>5
<1>7. CASE Keeps(p) /\ status'[i] = status[i] /\ SameMoney(i)
  <2>1. status' = status BY <1>1, <1>7 DEF PromisedStep
  <2>2. M' = M BY <1>6, <1>7 DEF PromisedStep
  <2>3. H' = H BY <1>4, <1>7
  <2> QED BY <2>1, <2>2, <2>3 DEF Collection!vars
<1>8. CASE Keeps(p) /\ status'[i] = status[i] /\ Holding(p) /\ Backed(i)'
  <2>1. status' = status BY <1>1, <1>8 DEF PromisedStep
  <2>2. M' = [M EXCEPT ![i] = TRUE]
    BY <1>1, <1>5, <1>8 DEF PromisedStep, Backed
  <2>3. H' = H BY <1>4, <1>8
  <2>4. p \in H[i] BY <1>1, <1>8 DEF HoldersOf
  <2> QED BY <1>1, <2>1, <2>2, <2>3, <2>4 DEF Collection!Next, Collection!Charge
<1>9. CASE /\ ~Holding(p) /\ Holding(p)' /\ SameMoney(i)
           /\ status[i] = "open" /\ status'[i] = "collecting"
  <2>1. status' = [status EXCEPT ![i] = "collecting"] BY <1>1, <1>9 DEF PromisedStep
  <2>2. M' = M BY <1>6, <1>9 DEF PromisedStep
  <2>3. HoldersOf(i) = {} BY <1>9 DEF HoldersOf, ClaimInv, HolderNotOpen
  <2>4. \A q \in Procs : q # p => ~(Holding(q)' /\ inv'[q] = i)
    BY <2>3 DEF PromisedStep, HoldersOf, Holding
  <2>5. HoldersOf(i)' = {p} BY <1>1, <1>9, <2>4 DEF HoldersOf
  <2>6. H' = [H EXCEPT ![i] = {p}] BY <1>1, <1>2, <2>5
  <2> QED BY <1>1, <1>9, <2>1, <2>2, <2>3, <2>6 DEF Collection!Next, Collection!Take
<1>10. CASE /\ Holding(p) /\ ~Holding(p)' /\ SameMoney(i)
            /\ \/ status'[i] = status[i]
               \/ status[i] = "collecting" /\ status'[i] = "open"
               \/ status[i] = "collecting" /\ status'[i] = "paid" /\ Settling(p)
  <2>1. M' = M BY <1>6, <1>10 DEF PromisedStep
  <2>2. HoldersOf(i)' = HoldersOf(i) \ {p}
    BY <1>1, <1>10 DEF PromisedStep, HoldersOf, Holding
  <2>3. H' = [H EXCEPT ![i] = @ \ {p}] BY <1>1, <1>2, <2>2
  <2>4. p \in H[i] BY <1>1, <1>10 DEF HoldersOf
  <2>5. status' = [status EXCEPT ![i] = status'[i]] BY <1>1 DEF PromisedStep
  <2>6. Settling(p) => M[i] BY <1>1 DEF BackedInv, SettlingBacked, Backed
  <2>7. \/ UNCHANGED status
        \/ status[i] = "collecting" /\ status' = [status EXCEPT ![i] = "open"]
        \/ status[i] = "collecting" /\ M[i] /\ status' = [status EXCEPT ![i] = "paid"]
    BY <1>1, <1>10, <2>5, <2>6
  <2> QED BY <1>1, <2>1, <2>3, <2>4, <2>7 DEF Collection!Next, Collection!LetGo
<1>11. CASE Keeps(p) /\ SameMoney(i) /\ status'[i] = "paid" /\ Settling(p)
  <2>1. status' = [status EXCEPT ![i] = "paid"] BY <1>1, <1>11 DEF PromisedStep
  <2>2. M' = M BY <1>6, <1>11 DEF PromisedStep
  <2>3. H' = H BY <1>4, <1>11
  <2>4. M[i] BY <1>1, <1>11 DEF BackedInv, SettlingBacked, Backed
  <2> QED BY <1>1, <2>1, <2>2, <2>3, <2>4 DEF Collection!Next, Collection!Settle
<1>12. CASE Keeps(p) /\ SameMoney(i) /\ status'[i] = "void"
  <2>1. status' = [status EXCEPT ![i] = "void"] BY <1>1, <1>12 DEF PromisedStep
  <2>2. M' = M BY <1>6, <1>12 DEF PromisedStep
  <2>3. H' = H BY <1>4, <1>12
  <2> QED BY <1>1, <2>1, <2>2, <2>3 DEF Collection!Next, Collection!Void
<1> QED BY <1>7, <1>8, <1>9, <1>10, <1>11, <1>12 DEF PromisedStep

LEMMA WorkflowPromised ==
  ASSUME TypeOK, "lost" \notin Faults, NEW p \in Workflows, Workflow(p) \/ WorkflowFault(p)
  PROVE  PromisedStep(p)
<1> USE ConstantsAssumption DEF PromisedStep, Keeps, SameMoney, Holding, Settling, Backed,
        TypeOK, Procs, Goto, Fault, SetStatusWhere, CardCharged, rows, provider
<1>1. CASE WfLoadPayment(p) BY <1>1 DEF WfLoadPayment
<1>2. CASE WfReadStatus(p) BY <1>2 DEF WfReadStatus
<1>3. CASE WfReadAttempt(p) BY <1>3 DEF WfReadAttempt
<1>4. CASE WfSettle(p) BY <1>4 DEF WfSettle
<1>5. CASE WfClaim(p) BY <1>5 DEF WfClaim
<1>6. CASE WfCommitClaim(p) BY <1>6 DEF WfCommitClaim
<1>7. CASE WfChargeAccepted(p) BY <1>7 DEF WfChargeAccepted
<1>8. CASE WfChargeDeclined(p) BY <1>8 DEF WfChargeDeclined, AfterFailedTry
<1>9. CASE WfRecordSuccess(p) \/ WfRecordFailure(p) BY <1>9 DEF WfRecordSuccess, WfRecordFailure
<1>10. CASE WfMarkPaid(p) BY <1>10 DEF WfMarkPaid
<1>11. CASE WfReopen(p) BY <1>11 DEF WfReopen
<1>12. CASE WfCommitRecord(p) BY <1>12 DEF WfCommitRecord
<1>13. CASE WfClearBlock(p) \/ WfComplete(p) BY <1>13 DEF WfClearBlock, WfComplete
<1>14. CASE WfBlock(p) \/ WfBlockRun(p) BY <1>14 DEF WfBlock, WfBlockRun
<1>15. CASE WfChargeTimesOut(p) BY <1>15 DEF WfChargeTimesOut, AfterFailedTry
<1>16. CASE WfRunStepAgain(p) BY <1>16 DEF WfRunStepAgain
<1>17. CASE WfChargeStepAgain(p) BY <1>17 DEF WfChargeStepAgain
<1>18. CASE WfGivesUp(p) BY <1>18 DEF WfGivesUp, WorkflowPC
<1> QED BY <1>1, <1>2, <1>3, <1>4, <1>5, <1>6, <1>7, <1>8, <1>9, <1>10, <1>11, <1>12,
           <1>13, <1>14, <1>15, <1>16, <1>17, <1>18 DEF Workflow, WorkflowFault

LEMMA RequestPromised ==
  ASSUME TypeOK, "lost" \notin Faults, NEW p \in Requests, Request(p) \/ RequestFault(p)
  PROVE  PromisedStep(p)
<1> USE ConstantsAssumption DEF PromisedStep, Keeps, SameMoney, Holding, Settling, Backed,
        TypeOK, Procs, Goto, Fault, SetStatusWhere, CardCharged, rows, provider
<1>1. CASE ReqLoad(p) BY <1>1 DEF ReqLoad
<1>2. CASE ReqReleaseReadStatus(p) \/ ReqReleaseReadAttempt(p) \/ ReqReleaseLedger(p)
  BY <1>2 DEF ReqReleaseReadStatus, ReqReleaseReadAttempt, ReqReleaseLedger
<1>3. CASE ReqReleaseInvoice(p) BY <1>3 DEF ReqReleaseInvoice
<1>4. CASE ReqReleaseBlock(p) BY <1>4 DEF ReqReleaseBlock
<1>5. CASE ReqClaim(p) BY <1>5 DEF ReqClaim
<1>6. CASE ReqClaimRefused(p) BY <1>6 DEF ReqClaimRefused
<1>7. CASE ReqReadAttempt(p) \/ ReqSettleClear(p) BY <1>7 DEF ReqReadAttempt, ReqSettleClear
<1>8. CASE ReqSettleInvoice(p) BY <1>8 DEF ReqSettleInvoice
<1>9. CASE ReqCharge(p) BY <1>9 DEF ReqCharge
<1>10. CASE ReqRecordSuccess(p) \/ ReqRecordFailure(p)
  BY <1>10 DEF ReqRecordSuccess, ReqRecordFailure
<1>11. CASE ReqMarkPaid(p) BY <1>11 DEF ReqMarkPaid
<1>12. CASE ReqClearBlock(p) BY <1>12 DEF ReqClearBlock
<1>13. CASE ReqReopen(p) BY <1>13 DEF ReqReopen
<1>14. CASE ReqCheckout(p) BY <1>14 DEF ReqCheckout
<1>15. CASE ReqThrows(p) BY <1>15 DEF ReqThrows
<1>16. CASE ReqAborts(p) BY <1>16 DEF ReqAborts, RequestPC
<1> QED BY <1>1, <1>2, <1>3, <1>4, <1>5, <1>6, <1>7, <1>8, <1>9, <1>10, <1>11, <1>12,
           <1>13, <1>14, <1>15, <1>16 DEF Request, RequestFault

LEMMA PaymentPromised ==
  ASSUME TypeOK, BackedInv, NEW i \in Invoices,
         CustomerPaysLink(i) \/ DeliverPayment(i) \/ DropPayment(i)
  PROVE  Collection!Next \/ UNCHANGED Collection!vars
<1> DEFINE H == [j \in Invoices |-> HoldersOf(j)]
           M == [j \in Invoices |-> charged[j] > 0 \/ link[j] = "paid"]
<1>1. pc' = pc /\ inv' = inv BY DEF CustomerPaysLink, DeliverPayment, DropPayment
<1>2. H' = H BY <1>1 DEF HoldersOf, Holding
<1>3. CASE CustomerPaysLink(i)
  <2>1. M' = [M EXCEPT ![i] = TRUE] BY <1>3 DEF CustomerPaysLink, TypeOK
  <2>2. UNCHANGED status BY <1>3 DEF CustomerPaysLink, rows
  <2> QED BY <1>2, <2>1, <2>2 DEF Collection!Next, Collection!Checkout
<1>4. CASE DeliverPayment(i)
  <2>1. M' = M BY <1>4 DEF DeliverPayment
  <2>2. status' = [status EXCEPT ![i] = "paid"] BY <1>4 DEF DeliverPayment
  <2>3. M[i] BY <1>4 DEF DeliverPayment, BackedInv, EvidenceBacked, Backed
  <2> QED BY <1>2, <2>1, <2>2, <2>3 DEF Collection!Next, Collection!Settle
<1>5. CASE DropPayment(i)
  <2>1. M' = M BY <1>5 DEF DropPayment
  <2>2. UNCHANGED status BY <1>5 DEF DropPayment, rows
  <2> QED BY <1>2, <2>1, <2>2 DEF Collection!vars
<1> QED BY <1>3, <1>4, <1>5

(* Unless a statement takes effect behind its caller's back, the interleaved   *)
(* statements of any number of workflows, requests and webhooks implement the  *)
(* abstract collection of invoices.                                            *)
THEOREM CollectionImplemented ==
  ASSUME "lost" \notin Faults
  PROVE  Spec => CollectsAsPromised
<1>1. Init => Collection!Init
  <2> SUFFICES ASSUME Init PROVE Collection!Init OBVIOUS
  <2>1. \A i \in Invoices : HoldersOf(i) = {}
    BY DEF Init, HoldersOf, Holding
  <2>2. \A i \in Invoices : ~(charged[i] > 0 \/ link[i] = "paid")
    BY DEF Init
  <2> QED BY <2>1, <2>2 DEF Init, Collection!Init
<1>2. TypeOK /\ TypeOK' /\ ClaimInv /\ BackedInv /\ [Next]_vars
        => [Collection!Next]_(Collection!vars)
  <2> SUFFICES ASSUME TypeOK, TypeOK', ClaimInv, BackedInv, [Next]_vars
               PROVE  Collection!Next \/ UNCHANGED Collection!vars
    OBVIOUS
  <2>1. ASSUME NEW w \in Workflows, Workflow(w) \/ WorkflowFault(w)
        PROVE  Collection!Next \/ UNCHANGED Collection!vars
    BY <2>1, WorkflowPromised, PromisedStepRefines DEF Procs
  <2>2. ASSUME NEW p \in Requests, Request(p) \/ RequestFault(p)
        PROVE  Collection!Next \/ UNCHANGED Collection!vars
    BY <2>2, RequestPromised, PromisedStepRefines DEF Procs
  <2>3. ASSUME NEW i \in Invoices,
               CustomerPaysLink(i) \/ DeliverPayment(i) \/ DropPayment(i)
        PROVE  Collection!Next \/ UNCHANGED Collection!vars
    BY <2>3, PaymentPromised
  <2>4. CASE UNCHANGED vars
    BY <2>4 DEF vars, Collection!vars, HoldersOf, Holding
  <2> QED BY <2>1, <2>2, <2>3, <2>4 DEF Next, Finished
<1> QED BY <1>1, <1>2, TypeCorrect, ClaimInvariant, BackedInvariant, PTL
        DEF Spec, CollectsAsPromised, Collection!Spec

-----------------------------------------------------------------------------
(* CreditPurchase.  The ledger rows are the purchases' credits and never   *)
(* more than was paid for; a balance is within them, and what is left of   *)
(* it and was spent covers every purchase whose balance has been computed. *)
PurchaseRows ==
  \A p \in Payments : purchase[p].status # "none" =>
    Paid(p) /\ purchase[p].credits = CreditsOf(p)
LedgerRows ==
  \A p \in Payments : /\ p \in ledger => purchase[p].status # "none"
                      /\ purchase[p].status = "completed" => p \in ledger
DeliveryRows ==
  \A d \in Deliveries : stage[d] # "idle" =>
    /\ Paid(event[d])
    /\ stage[d] # "claim" => purchase[event[d]].status # "none"
    /\ stage[d] \in {"recompute", "complete"} => event[d] \in ledger
Counted ==
  {p \in Payments : \/ purchase[p].status = "completed"
                    \/ \E d \in Deliveries : stage[d] = "complete" /\ event[d] = p}
Covered == \A s \in Systems : balance[s] + spent[s] >= PaidFor(Counted, s)
Backing == \A s \in Systems : balance[s] <= PaidFor(ledger, s)

PurchaseInv ==
  PurchaseTypeOK /\ PurchaseRows /\ LedgerRows /\ DeliveryRows /\ Covered /\ Backing

(* The credits of the packs q bought by P in a system. *)
Bought(q, P, s) == PackCredits * Total(q, InSystem(P, s))

LEMMA PaidForIsBought == \A P, s : PaidFor(P, s) = Bought(quantity, P, s)
BY DEF PaidFor, Bought, Total

LEMMA PaidForNext ==
  \A s : /\ PaidFor(Counted, s)' = Bought(quantity', Counted', s)
         /\ PaidFor(ledger, s)' = Bought(quantity', ledger', s)
         /\ PaidFor(Payments, s)' = Bought(quantity', Payments, s)
BY DEF PaidFor, Bought, Total, MapThenSumSet, MapThenFoldSet, InSystem

LEMMA InSystemFinite ==
  ASSUME NEW P \in SUBSET Payments, NEW s
  PROVE  InSystem(P, s) \in SUBSET Payments /\ IsFiniteSet(InSystem(P, s))
BY CreditAssumption, FS_Subset DEF InSystem

LEMMA BoughtTyped ==
  ASSUME NEW q \in [Payments -> Nat], NEW P \in SUBSET Payments, NEW s
  PROVE  Bought(q, P, s) \in Nat
<1>1. IsFiniteSet(InSystem(P, s)) /\ \A p \in InSystem(P, s) : q[p] \in Nat BY InSystemFinite
<1>2. Total(q, InSystem(P, s)) \in Nat BY <1>1, TotalType
<1> QED BY <1>2, CreditAssumption DEF Bought

(* More payments and more packs are more credits. *)
LEMMA BoughtMonotone ==
  ASSUME NEW q \in [Payments -> Nat], NEW q2 \in [Payments -> Nat],
         NEW P \in SUBSET Payments, NEW P2 \in SUBSET Payments, NEW s,
         \A p \in InSystem(P, s) : p \in P2 /\ q[p] <= q2[p]
  PROVE  Bought(q, P, s) <= Bought(q2, P2, s)
<1> DEFINE S == InSystem(P, s)  S2 == InSystem(P2, s)
<1>1. /\ S \in SUBSET Payments /\ S2 \in SUBSET Payments /\ IsFiniteSet(S) /\ IsFiniteSet(S2)
      /\ S \in SUBSET S2
  BY InSystemFinite DEF InSystem
<1>2. \A p \in S : q[p] \in Int /\ q2[p] \in Int /\ q[p] <= q2[p] BY <1>1
<1>3. \A p \in S2 : q2[p] \in Nat BY <1>1
<1> HIDE DEF S, S2
<1>4. Total(q, S) <= Total(q2, S) BY <1>1, <1>2, TotalMonotone
<1>5. Total(q2, S) <= Total(q2, S2) BY <1>1, <1>3, TotalSubset
<1>6. Total(q, S) \in Nat /\ Total(q2, S) \in Nat /\ Total(q2, S2) \in Nat BY <1>1, <1>3, TotalType
<1>7. Total(q, S) <= Total(q2, S2) BY <1>4, <1>5, <1>6
<1>8. ASSUME NEW n \in Nat, NEW m \in Nat, NEW k \in Nat, m <= n PROVE k * m <= k * n BY <1>8
<1>9. PackCredits \in Nat BY CreditAssumption
<1> QED BY <1>6, <1>7, <1>8, <1>9 DEF Bought, S, S2

(* What the ledger's rows add up to is what was paid for them. *)
LEMMA LedgerIsBought ==
  ASSUME PurchaseTypeOK, PurchaseRows, LedgerRows, NEW s
  PROVE  Granted(ledger, s) = PaidFor(ledger, s)
<1> DEFINE S == InSystem(ledger, s)
           g == [p \in S |-> purchase[p].credits]
<1>1. S \in SUBSET Payments /\ IsFiniteSet(S) /\ S \subseteq ledger
  BY InSystemFinite DEF PurchaseTypeOK, InSystem
<1>2. Granted(ledger, s) = Total(g, S) BY DEF Granted, Total, MapThenSumSet, MapThenFoldSet
<1>3. \A p \in S : quantity[p] \in Int /\ g[p] = PackCredits * quantity[p]
  BY <1>1 DEF PurchaseTypeOK, PurchaseRows, LedgerRows, CreditsOf
<1>4. PackCredits \in Int BY CreditAssumption
<1> HIDE DEF S, g
<1>5. Total(g, S) = PackCredits * Total(quantity, S) BY <1>1, <1>3, <1>4, TotalScale
<1> QED BY <1>2, <1>5, PaidForIsBought DEF Bought, S

LEMMA PurchaseInitInv == PurchaseInit => PurchaseInv
<1> SUFFICES ASSUME PurchaseInit PROVE PurchaseInv OBVIOUS
<1>1. PurchaseTypeOK
  BY CreditAssumption DEF PurchaseInit, PurchaseTypeOK, NoRow, Status, Steps
<1>2. PurchaseRows /\ LedgerRows /\ DeliveryRows
  BY DEF PurchaseInit, PurchaseRows, LedgerRows, DeliveryRows, NoRow
<1>3. Counted = {} /\ ledger = {} BY DEF PurchaseInit, Counted, NoRow
<1>4. \A s : PaidFor({}, s) = 0
  <2> SUFFICES ASSUME NEW s PROVE PaidFor({}, s) = 0 OBVIOUS
  <2>1. InSystem({}, s) = {} BY DEF InSystem
  <2>2. PaidFor({}, s) = PackCredits * 0 BY <2>1, PaidForIsBought, TotalEmpty DEF Bought
  <2> QED BY <2>2, CreditAssumption
<1>5. Covered /\ Backing BY <1>3, <1>4 DEF PurchaseInit, Covered, Backing
<1> QED BY <1>1, <1>2, <1>5 DEF PurchaseInv

(* What every step about a delivery needs of it.                           *)
LEMMA DeliveredPayment ==
  ASSUME PurchaseInv, NEW d \in Deliveries, stage[d] # "idle"
  PROVE  event[d] \in Payments
BY DEF PurchaseInv, PurchaseTypeOK

LEMMA SystemsTyped ==
  ASSUME PurchaseTypeOK
  PROVE  /\ quantity \in [Payments -> Nat] /\ ledger \in SUBSET Payments
         /\ Counted \in SUBSET Payments
         /\ \A s \in Systems : balance[s] \in Nat /\ spent[s] \in Nat
BY DEF PurchaseTypeOK, Counted

(* The part of a step that counts: a set of payments that only shrinks and *)
(* a ledger that only grows keep the two bounds, if no balance changes.    *)
LEMMA BoundsKept ==
  ASSUME PurchaseInv, PurchaseTypeOK', UNCHANGED <<balance, spent>>, Counted' \subseteq Counted,
         ledger \subseteq ledger',
         \A p \in Counted \cup ledger : quantity'[p] = quantity[p]
  PROVE  Covered' /\ Backing'
<1>0. PurchaseTypeOK /\ Covered /\ Backing BY DEF PurchaseInv
<1>1. /\ quantity \in [Payments -> Nat] /\ ledger \in SUBSET Payments
      /\ Counted \in SUBSET Payments
      /\ quantity' \in [Payments -> Nat] /\ ledger' \in SUBSET Payments
      /\ Counted' \in SUBSET Payments
  BY <1>0 DEF PurchaseTypeOK, Counted
<1>2. ASSUME NEW s \in Systems PROVE PaidFor(Counted, s)' <= PaidFor(Counted, s)
  <2>1. PaidFor(Counted, s) = Bought(quantity, Counted, s) BY PaidForIsBought
  <2>2. PaidFor(Counted, s)' = Bought(quantity', Counted', s) BY PaidForNext
  <2>3. \A p \in InSystem(Counted', s) : p \in Counted /\ quantity'[p] <= quantity[p]
    BY <1>1 DEF InSystem
  <2>4. Bought(quantity', Counted', s) <= Bought(quantity, Counted, s)
    BY <1>1, <2>3, BoughtMonotone
  <2> QED BY <2>1, <2>2, <2>4
<1>3. ASSUME NEW s \in Systems PROVE PaidFor(ledger, s) <= PaidFor(ledger, s)'
  <2>1. PaidFor(ledger, s) = Bought(quantity, ledger, s) BY PaidForIsBought
  <2>2. PaidFor(ledger, s)' = Bought(quantity', ledger', s) BY PaidForNext
  <2>3. \A p \in InSystem(ledger, s) : p \in ledger' /\ quantity[p] <= quantity'[p]
    BY <1>1 DEF InSystem
  <2>4. Bought(quantity, ledger, s) <= Bought(quantity', ledger', s)
    BY <1>1, <2>3, BoughtMonotone
  <2> QED BY <2>1, <2>2, <2>4
<1>4. \A s \in Systems : /\ PaidFor(Counted, s) \in Nat /\ PaidFor(Counted, s)' \in Nat
                         /\ PaidFor(ledger, s) \in Nat /\ PaidFor(ledger, s)' \in Nat
  <2> SUFFICES ASSUME NEW s \in Systems
               PROVE /\ PaidFor(Counted, s) \in Nat /\ PaidFor(Counted, s)' \in Nat
                     /\ PaidFor(ledger, s) \in Nat /\ PaidFor(ledger, s)' \in Nat
    OBVIOUS
  <2>1. PaidFor(Counted, s)' = Bought(quantity', Counted', s) BY PaidForNext
  <2>2. PaidFor(ledger, s)' = Bought(quantity', ledger', s) BY PaidForNext
  <2> QED BY <1>1, <2>1, <2>2, PaidForIsBought, BoughtTyped
<1>5. \A s \in Systems : balance[s] \in Nat /\ spent[s] \in Nat BY <1>0 DEF PurchaseTypeOK
<1>6. ASSUME NEW s \in Systems
      PROVE  /\ balance'[s] + spent'[s] >= PaidFor(Counted, s)'
             /\ balance'[s] <= PaidFor(ledger, s)'
  <2>1. balance'[s] = balance[s] /\ spent'[s] = spent[s] OBVIOUS
  <2>2. balance[s] + spent[s] >= PaidFor(Counted, s) /\ balance[s] <= PaidFor(ledger, s)
    BY <1>0 DEF Covered, Backing
  <2> QED BY <1>2, <1>3, <1>4, <1>5, <2>1, <2>2
<1> QED BY <1>6 DEF Covered, Backing

LEMMA PayStep == ASSUME PurchaseInv, NEW p \in Payments, NEW n \in 1..MaxQuantity, Pay(p, n)
                 PROVE  PurchaseInv'
<1>1. /\ quantity[p] = 0 /\ quantity' = [quantity EXCEPT ![p] = n]
      /\ UNCHANGED <<answered, swallowed, purchase, ledger, balance, spent, stage, event, mishaps,
                     repeats>>
      /\ quantity \in [Payments -> 0..MaxQuantity]
  <2>1. quantity \in [Payments -> 0..MaxQuantity] BY DEF PurchaseInv, PurchaseTypeOK
  <2>2. MaxQuantity \in Nat BY CreditAssumption
  <2>3. quantity[p] \in 0..MaxQuantity BY <2>1
  <2> QED BY <2>1, <2>2, <2>3 DEF Pay, Paid
<1>2. PurchaseTypeOK' BY <1>1, CreditAssumption DEF PurchaseInv, PurchaseTypeOK
<1>3. purchase[p].status = "none" /\ p \notin ledger /\ p \notin Counted
  BY <1>1 DEF PurchaseInv, PurchaseRows, LedgerRows, DeliveryRows, Counted, Paid
<1>4. \A d \in Deliveries : stage[d] # "idle" => event[d] # p
  BY <1>1 DEF PurchaseInv, DeliveryRows, Paid
<1>5. \A q \in Payments : q # p => quantity'[q] = quantity[q] BY <1>1
<1>6. PurchaseRows' /\ LedgerRows'
  BY <1>1, <1>3, <1>5 DEF PurchaseInv, PurchaseRows, LedgerRows, Paid, CreditsOf
<1>7. DeliveryRows'
  <2>1. \A d \in Deliveries : stage[d] # "idle" => quantity'[event[d]] = quantity[event[d]]
    BY <1>4, <1>5, DeliveredPayment
  <2> QED BY <1>1, <2>1 DEF PurchaseInv, DeliveryRows, Paid
<1>8. Counted' = Counted BY <1>1 DEF Counted
<1>9. Counted \subseteq Payments /\ ledger \subseteq Payments
  BY DEF Counted, PurchaseInv, PurchaseTypeOK
<1>10. Covered' /\ Backing' BY <1>1, <1>2, <1>3, <1>5, <1>8, <1>9, BoundsKept
<1> QED BY <1>2, <1>6, <1>7, <1>10 DEF PurchaseInv

LEMMA DeliverStep == ASSUME PurchaseInv, NEW d \in Deliveries, NEW p \in Payments, Deliver(d, p)
                     PROVE  PurchaseInv'
<1>1. /\ quantity[p] > 0 /\ stage[d] = "idle"
      /\ event' = [event EXCEPT ![d] = p] /\ stage' = [stage EXCEPT ![d] = "claim"]
      /\ UNCHANGED <<quantity, answered, swallowed, purchase, ledger, balance, spent, mishaps>>
      /\ repeats' \in 0..MaxRepeats
  BY CreditAssumption DEF Deliver, Paid, At, Proceed, PurchaseInv, PurchaseTypeOK
<1>2. PurchaseTypeOK'
  BY <1>1, CreditAssumption DEF PurchaseInv, PurchaseTypeOK, Steps
<1>3. PurchaseRows' /\ LedgerRows'
  BY <1>1 DEF PurchaseInv, PurchaseRows, LedgerRows, Paid, CreditsOf
<1>4. DeliveryRows' BY <1>1 DEF PurchaseInv, PurchaseTypeOK, DeliveryRows, Paid
<1>5. Counted' \subseteq Counted BY <1>1 DEF Counted, PurchaseInv, PurchaseTypeOK
<1>6. Covered' /\ Backing' BY <1>1, <1>2, <1>5, BoundsKept
<1> QED BY <1>2, <1>3, <1>4, <1>6 DEF PurchaseInv

LEMMA PurchaseClaimStep == ASSUME PurchaseInv, NEW d \in Deliveries, Claim(d) PROVE PurchaseInv'
<1> DEFINE p == event[d]
<1>1. /\ stage[d] = "claim" /\ p \in Payments
      /\ UNCHANGED <<quantity, answered, swallowed, mishaps, repeats, spent, event, ledger, balance>>
      /\ \/ /\ purchase[p].status = "none" /\ stage' = [stage EXCEPT ![d] = "append"]
            /\ purchase' = [purchase EXCEPT ![p] = [status |-> "pending", credits |-> CreditsOf(p)]]
         \/ /\ purchase[p].status # "none" /\ stage' = [stage EXCEPT ![d] = "read"]
            /\ UNCHANGED purchase
  BY DeliveredPayment DEF Claim, At, Proceed, Same
<1>2. quantity[p] \in Nat /\ quantity[p] > 0 /\ CreditsOf(p) \in Nat
  <2>1. quantity[p] \in Nat BY <1>1, SystemsTyped DEF PurchaseInv
  <2>2. quantity[p] > 0 BY <1>1 DEF PurchaseInv, DeliveryRows, Paid
  <2>3. \A m, n \in Nat : m * n \in Nat OBVIOUS
  <2> QED BY <2>1, <2>2, <2>3, CreditAssumption DEF CreditsOf
<1> HIDE DEF p
<1>3. /\ \A q \in Payments : q # p => purchase'[q] = purchase[q]
      /\ purchase'[p].status # "none" /\ purchase' \in [Payments -> [status : Status, credits : Nat]]
      /\ purchase[p].status # "none" => purchase'[p] = purchase[p]
      /\ purchase[p].status = "none" =>
           purchase'[p].status = "pending" /\ purchase'[p].credits = CreditsOf(p)
  BY <1>1, <1>2 DEF PurchaseInv, PurchaseTypeOK, Status
<1>4. PurchaseTypeOK' BY <1>1, <1>3 DEF PurchaseInv, PurchaseTypeOK, Steps
<1>5. PurchaseRows'
  <2>1. \A q \in Payments : CreditsOf(q)' = CreditsOf(q) BY <1>1 DEF CreditsOf
  <2> QED BY <1>1, <1>2, <1>3, <2>1 DEF PurchaseInv, PurchaseRows, Paid
<1>6. LedgerRows' BY <1>1, <1>3 DEF PurchaseInv, LedgerRows
<1>7. DeliveryRows'
  <2> SUFFICES ASSUME NEW e \in Deliveries, stage'[e] # "idle"
               PROVE /\ Paid(event[e])'
                     /\ stage'[e] # "claim" => purchase'[event[e]].status # "none"
                     /\ stage'[e] \in {"recompute", "complete"} => event[e] \in ledger
    BY <1>1 DEF DeliveryRows
  <2>1. CASE e = d BY <1>1, <1>2, <1>3, <2>1 DEF p, Paid, PurchaseInv, PurchaseTypeOK
  <2>2. CASE e # d
    <3>1. stage'[e] = stage[e] BY <1>1, <2>2 DEF PurchaseInv, PurchaseTypeOK
    <3>2. event[e] \in Payments BY <3>1, DeliveredPayment
    <3> QED BY <1>1, <1>3, <3>1, <3>2 DEF Paid, PurchaseInv, DeliveryRows
  <2> QED BY <2>1, <2>2
<1>8. Counted' \subseteq Counted
  <2>1. \A q \in Payments : purchase'[q].status = "completed" => purchase[q].status = "completed"
    BY <1>1, <1>3
  <2>2. \A e \in Deliveries : stage'[e] = "complete" => stage[e] = "complete"
    BY <1>1 DEF PurchaseInv, PurchaseTypeOK
  <2> QED BY <1>1, <2>1, <2>2 DEF Counted
<1>9. Covered' /\ Backing' BY <1>1, <1>4, <1>8, BoundsKept
<1> QED BY <1>4, <1>5, <1>6, <1>7, <1>9 DEF PurchaseInv

(* The deliveries that answer, raise or die free their slot.               *)
LEMMA SlotFreed ==
  ASSUME PurchaseInv, NEW d \in Deliveries, stage[d] # "idle",
         stage' = [stage EXCEPT ![d] = "idle"], event' = [event EXCEPT ![d] = NoPayment],
         UNCHANGED <<quantity, purchase, ledger, balance, spent, repeats>>,
         answered' \in {answered, answered \cup {event[d]}},
         swallowed' \subseteq answered', mishaps' \in 0..MaxMishaps
  PROVE  PurchaseInv'
<1>1. event[d] \in Payments BY DeliveredPayment
<1>2. PurchaseTypeOK'
  BY <1>1, CreditAssumption DEF PurchaseInv, PurchaseTypeOK, Steps
<1>3. PurchaseRows' /\ LedgerRows' BY DEF PurchaseInv, PurchaseRows, LedgerRows, Paid, CreditsOf
<1>4. DeliveryRows' BY DEF PurchaseInv, PurchaseTypeOK, DeliveryRows, Paid
<1>5. Counted' \subseteq Counted BY DEF Counted, PurchaseInv, PurchaseTypeOK
<1>6. Covered' /\ Backing' BY <1>2, <1>5, BoundsKept
<1> QED BY <1>2, <1>3, <1>4, <1>6 DEF PurchaseInv

LEMMA ReadStep == ASSUME PurchaseInv, NEW d \in Deliveries, Read(d) PROVE PurchaseInv'
<1>1. stage[d] = "read" /\ UNCHANGED <<quantity, swallowed, purchase, ledger, balance, spent, mishaps,
                                       repeats>>
  BY DEF Read, At
<1>2. CASE Answer(d)
  BY <1>1, <1>2, SlotFreed DEF Answer, PurchaseInv, PurchaseTypeOK
<1>3. CASE /\ purchase[event[d]].status = "pending" /\ stage' = [stage EXCEPT ![d] = "append"]
           /\ UNCHANGED <<answered, event>>
  <2>1. PurchaseTypeOK' BY <1>1, <1>3 DEF PurchaseInv, PurchaseTypeOK, Steps
  <2>2. PurchaseRows' /\ LedgerRows'
    BY <1>1, <1>3 DEF PurchaseInv, PurchaseRows, LedgerRows, Paid, CreditsOf
  <2>3. DeliveryRows' BY <1>1, <1>3 DEF PurchaseInv, PurchaseTypeOK, DeliveryRows, Paid
  <2>4. Counted' \subseteq Counted BY <1>1, <1>3 DEF Counted, PurchaseInv, PurchaseTypeOK
  <2>5. Covered' /\ Backing' BY <1>1, <2>1, <2>4, BoundsKept
  <2> QED BY <2>1, <2>2, <2>3, <2>5 DEF PurchaseInv
<1> QED BY <1>2, <1>3 DEF Read, Proceed

LEMMA AppendStep == ASSUME PurchaseInv, NEW d \in Deliveries, Append(d) PROVE PurchaseInv'
<1>1. /\ stage[d] = "append" /\ event[d] \in Payments
      /\ ledger' = ledger \cup {event[d]} /\ stage' = [stage EXCEPT ![d] = "recompute"]
      /\ UNCHANGED <<quantity, answered, swallowed, mishaps, repeats, spent, event, purchase, balance>>
  BY DeliveredPayment DEF Append, At, Proceed, Same
<1>2. purchase[event[d]].status # "none" /\ Paid(event[d]) BY <1>1 DEF PurchaseInv, DeliveryRows
<1>3. PurchaseTypeOK' BY <1>1 DEF PurchaseInv, PurchaseTypeOK, Steps
<1>4. PurchaseRows' BY <1>1 DEF PurchaseInv, PurchaseRows, Paid, CreditsOf
<1>5. LedgerRows' BY <1>1, <1>2 DEF PurchaseInv, LedgerRows
<1>6. DeliveryRows' BY <1>1, <1>2 DEF PurchaseInv, PurchaseTypeOK, DeliveryRows, Paid
<1>7. Counted' \subseteq Counted BY <1>1 DEF Counted, PurchaseInv, PurchaseTypeOK
<1>8. Covered' /\ Backing' BY <1>1, <1>3, <1>7, BoundsKept
<1> QED BY <1>3, <1>4, <1>5, <1>6, <1>8 DEF PurchaseInv

(* The balance becomes the sum of the ledger, in which this purchase is.   *)
LEMMA RecomputeStep == ASSUME PurchaseInv, NEW d \in Deliveries, Recompute(d) PROVE PurchaseInv'
<1> DEFINE p == event[d]  s0 == SystemOf[p]
<1>1. /\ stage[d] = "recompute" /\ p \in Payments /\ s0 \in Systems
      /\ balance' = [balance EXCEPT ![s0] = Granted(ledger, s0)]
      /\ stage' = [stage EXCEPT ![d] = "complete"]
      /\ UNCHANGED <<quantity, answered, swallowed, mishaps, repeats, spent, event, purchase, ledger>>
  BY DeliveredPayment, CreditAssumption DEF Recompute, At, Proceed, Same
<1>2. p \in ledger BY <1>1 DEF PurchaseInv, DeliveryRows
<1>3. /\ quantity \in [Payments -> Nat] /\ ledger \in SUBSET Payments /\ Counted \in SUBSET Payments
      /\ \A s \in Systems : balance[s] \in Nat /\ spent[s] \in Nat
  BY SystemsTyped DEF PurchaseInv
<1>4. Granted(ledger, s0) = Bought(quantity, ledger, s0)
  BY LedgerIsBought, PaidForIsBought DEF PurchaseInv
<1>5. Bought(quantity, ledger, s0) \in Nat BY <1>3, BoughtTyped
<1>6. PurchaseTypeOK' BY <1>1, <1>4, <1>5 DEF PurchaseInv, PurchaseTypeOK, Steps
<1>7. PurchaseRows' /\ LedgerRows'
  BY <1>1 DEF PurchaseInv, PurchaseRows, LedgerRows, Paid, CreditsOf
<1>8. DeliveryRows' BY <1>1, <1>2 DEF PurchaseInv, PurchaseTypeOK, DeliveryRows, Paid
<1>9. Counted' \subseteq Counted \cup {p} BY <1>1 DEF Counted, PurchaseInv, PurchaseTypeOK
<1>10. Counted' \in SUBSET Payments /\ Counted' \subseteq ledger
  BY <1>1, <1>2, <1>9 DEF Counted, PurchaseInv, DeliveryRows, LedgerRows
<1>11. ASSUME NEW s \in Systems
       PROVE  /\ balance'[s] + spent'[s] >= PaidFor(Counted, s)'
              /\ balance'[s] <= PaidFor(ledger, s)'
  <2>1. /\ PaidFor(Counted, s)' = Bought(quantity, Counted', s)
        /\ PaidFor(ledger, s)' = Bought(quantity, ledger, s)
    BY <1>1, PaidForNext
  <2>2. /\ PaidFor(Counted, s) = Bought(quantity, Counted, s)
        /\ PaidFor(ledger, s) = Bought(quantity, ledger, s)
    BY PaidForIsBought
  <2>3. /\ Bought(quantity, Counted', s) \in Nat /\ Bought(quantity, ledger, s) \in Nat
        /\ Bought(quantity, Counted, s) \in Nat
    BY <1>3, <1>10, BoughtTyped
  <2>4. spent'[s] = spent[s] /\ spent[s] \in Nat BY <1>1, <1>3
  <2>5. CASE s = s0
    <3>1. balance'[s] = Bought(quantity, ledger, s)
      BY <1>1, <1>4, <2>5 DEF PurchaseInv, PurchaseTypeOK
    <3>2. \A q \in InSystem(Counted', s) : q \in ledger /\ quantity[q] <= quantity[q]
      BY <1>3, <1>10 DEF InSystem
    <3>3. Bought(quantity, Counted', s) <= Bought(quantity, ledger, s)
      BY <1>3, <1>10, <3>2, BoughtMonotone
    <3> QED BY <2>1, <2>3, <2>4, <3>1, <3>3
  <2>6. CASE s # s0
    <3>1. balance'[s] = balance[s] BY <1>1, <2>6 DEF PurchaseInv, PurchaseTypeOK
    <3>2. \A q \in InSystem(Counted', s) : q \in Counted /\ quantity[q] <= quantity[q]
      BY <1>3, <1>9, <1>10, <2>6 DEF InSystem
    <3>3. Bought(quantity, Counted', s) <= Bought(quantity, Counted, s)
      BY <1>3, <1>10, <3>2, BoughtMonotone
    <3>4. balance[s] + spent[s] >= PaidFor(Counted, s) /\ balance[s] <= PaidFor(ledger, s)
      BY DEF PurchaseInv, Covered, Backing
    <3> QED BY <1>3, <2>1, <2>2, <2>3, <2>4, <3>1, <3>3, <3>4
  <2> QED BY <2>5, <2>6
<1>12. Covered' /\ Backing' BY <1>11 DEF Covered, Backing
<1> QED BY <1>6, <1>7, <1>8, <1>12 DEF PurchaseInv

LEMMA CompleteStep == ASSUME PurchaseInv, NEW d \in Deliveries, Complete(d) PROVE PurchaseInv'
<1> DEFINE p == event[d]
<1>1. /\ stage[d] = "complete" /\ p \in Payments
      /\ purchase' = [purchase EXCEPT ![p].status = "completed"]
      /\ answered' = answered \cup {p} /\ stage' = [stage EXCEPT ![d] = "idle"]
      /\ event' = [event EXCEPT ![d] = NoPayment]
      /\ UNCHANGED <<quantity, swallowed, ledger, balance, spent, mishaps, repeats>>
  BY DeliveredPayment DEF Complete, At, Answer
<1>2. p \in ledger /\ purchase[p].status # "none" /\ p \in Counted
  BY <1>1 DEF PurchaseInv, DeliveryRows, Counted
<1>3. /\ \A q \in Payments : q # p => purchase'[q] = purchase[q]
      /\ purchase'[p].status = "completed" /\ purchase'[p].credits = purchase[p].credits
      /\ purchase' \in [Payments -> [status : Status, credits : Nat]]
  BY <1>1 DEF PurchaseInv, PurchaseTypeOK, Status
<1> HIDE DEF p
<1>4. PurchaseTypeOK' BY <1>1, <1>3, CreditAssumption DEF PurchaseInv, PurchaseTypeOK, Steps
<1>5. PurchaseRows' BY <1>1, <1>2, <1>3 DEF PurchaseInv, PurchaseRows, Paid, CreditsOf
<1>6. LedgerRows' BY <1>1, <1>2, <1>3 DEF PurchaseInv, LedgerRows
<1>7. DeliveryRows'
  <2> SUFFICES ASSUME NEW e \in Deliveries, stage'[e] # "idle"
               PROVE /\ Paid(event[e])'
                     /\ stage'[e] # "claim" => purchase'[event'[e]].status # "none"
                     /\ stage'[e] \in {"recompute", "complete"} => event'[e] \in ledger
    BY <1>1 DEF DeliveryRows
  <2>1. e # d /\ stage'[e] = stage[e] /\ event'[e] = event[e]
    BY <1>1 DEF PurchaseInv, PurchaseTypeOK
  <2>2. event[e] \in Payments BY <2>1, DeliveredPayment
  <2> QED BY <1>1, <1>2, <1>3, <2>1, <2>2 DEF Paid, PurchaseInv, DeliveryRows
<1>8. Counted' \subseteq Counted
  <2>1. \A q \in Payments : purchase'[q].status = "completed" => purchase[q].status = "completed" \/ q = p
    BY <1>3
  <2>2. \A e \in Deliveries : stage'[e] = "complete" => stage[e] = "complete" /\ event'[e] = event[e]
    BY <1>1 DEF PurchaseInv, PurchaseTypeOK
  <2> QED BY <1>1, <1>2, <2>1, <2>2 DEF Counted
<1>9. Covered' /\ Backing' BY <1>1, <1>4, <1>8, BoundsKept
<1> QED BY <1>4, <1>5, <1>6, <1>7, <1>9 DEF PurchaseInv

LEMMA SpendStep == ASSUME PurchaseInv, NEW s0 \in Systems, NEW n \in 1..MaxSpend, Spend(s0, n)
                   PROVE  PurchaseInv'
<1>1. /\ balance[s0] >= n
      /\ balance' = [balance EXCEPT ![s0] = balance[s0] - n]
      /\ spent' = [spent EXCEPT ![s0] = spent[s0] + n]
      /\ UNCHANGED <<quantity, answered, swallowed, purchase, ledger, stage, event, mishaps, repeats>>
  BY DEF Spend
<1>2. n \in Nat /\ balance \in [Systems -> Nat] /\ spent \in [Systems -> Nat]
  BY CreditAssumption DEF PurchaseInv, PurchaseTypeOK
<1>3. PurchaseTypeOK' BY <1>1, <1>2 DEF PurchaseInv, PurchaseTypeOK
<1>4. PurchaseRows' /\ LedgerRows' /\ DeliveryRows'
  BY <1>1 DEF PurchaseInv, PurchaseRows, LedgerRows, DeliveryRows, Paid, CreditsOf
<1>5. Counted' = Counted BY <1>1 DEF Counted
<1>6. ASSUME NEW s \in Systems
      PROVE  /\ balance'[s] + spent'[s] >= PaidFor(Counted, s)'
             /\ balance'[s] <= PaidFor(ledger, s)'
  <2>1. PaidFor(Counted, s)' = PaidFor(Counted, s) /\ PaidFor(ledger, s)' = PaidFor(ledger, s)
    BY <1>1, <1>5, PaidForNext, PaidForIsBought
  <2>2. PaidFor(Counted, s) \in Nat /\ PaidFor(ledger, s) \in Nat
    BY SystemsTyped, PaidForIsBought, BoughtTyped DEF PurchaseInv
  <2>3. balance[s] + spent[s] >= PaidFor(Counted, s) /\ balance[s] <= PaidFor(ledger, s)
    BY DEF PurchaseInv, Covered, Backing
  <2>4. balance'[s] + spent'[s] = balance[s] + spent[s] /\ balance'[s] <= balance[s]
        /\ balance'[s] \in Nat /\ balance[s] \in Nat /\ spent[s] \in Nat /\ spent'[s] \in Nat
    BY <1>1, <1>2
  <2> QED BY <2>1, <2>2, <2>3, <2>4
<1>7. Covered' /\ Backing' BY <1>6 DEF Covered, Backing
<1> QED BY <1>3, <1>4, <1>7 DEF PurchaseInv

LEMMA PurchaseStep == PurchaseInv /\ [PurchaseNext]_purchaseVars => PurchaseInv'
<1> SUFFICES ASSUME PurchaseInv, [PurchaseNext]_purchaseVars PROVE PurchaseInv' OBVIOUS
<1>1. ASSUME NEW p \in Payments, NEW n \in 1..MaxQuantity, Pay(p, n) PROVE PurchaseInv'
  BY <1>1, PayStep
<1>2. ASSUME NEW d \in Deliveries, NEW p \in Payments, Deliver(d, p) PROVE PurchaseInv'
  BY <1>2, DeliverStep
<1>3. ASSUME NEW d \in Deliveries, Handle(d) PROVE PurchaseInv'
  BY <1>3, PurchaseClaimStep, ReadStep, AppendStep, RecomputeStep, CompleteStep DEF Handle
<1>4. ASSUME NEW d \in Deliveries, Raise(d) PROVE PurchaseInv'
  <2>1. mishaps' \in 0..MaxMishaps /\ swallowed' \subseteq answered'
    BY <1>4, CreditAssumption DEF Raise, Answer, PurchaseInv, PurchaseTypeOK
  <2> QED BY <1>4, <2>1, SlotFreed DEF Raise, Answer, At
<1>5. ASSUME NEW d \in Deliveries, Die(d) PROVE PurchaseInv'
  <2>1. mishaps' \in 0..MaxMishaps /\ swallowed' \subseteq answered'
    BY <1>5, CreditAssumption DEF Die, PurchaseInv, PurchaseTypeOK
  <2> QED BY <1>5, <2>1, SlotFreed DEF Die, At
<1>6. ASSUME NEW s \in Systems, NEW n \in 1..MaxSpend, Spend(s, n) PROVE PurchaseInv'
  BY <1>6, SpendStep
<1>7. CASE UNCHANGED purchaseVars
  <2>1. PurchaseTypeOK' BY <1>7 DEF purchaseVars, PurchaseInv, PurchaseTypeOK
  <2>2. PurchaseRows' /\ LedgerRows' /\ DeliveryRows'
    BY <1>7 DEF purchaseVars, PurchaseInv, PurchaseRows, LedgerRows, DeliveryRows, Paid, CreditsOf
  <2>3. Counted' = Counted BY <1>7 DEF purchaseVars, Counted
  <2>4. Covered' /\ Backing' BY <1>7, <2>1, <2>3, BoundsKept DEF purchaseVars
  <2> QED BY <2>1, <2>2, <2>4 DEF PurchaseInv
<1> QED BY <1>1, <1>2, <1>3, <1>4, <1>5, <1>6, <1>7 DEF PurchaseNext

LEMMA PurchaseInvariant == PurchaseSpec => []PurchaseInv
BY PurchaseInitInv, PurchaseStep, PTL DEF PurchaseSpec

(* The purchases, the ledger's rows, the balances and the deliveries under *)
(* way stay well typed, and a delivery has a payment while it runs.        *)
THEOREM PurchaseTyped == PurchaseSpec => []PurchaseTypeOK
<1>1. PurchaseInv => PurchaseTypeOK BY DEF PurchaseInv
<1> QED BY <1>1, PurchaseInvariant, PTL

(* Whatever deliveries do to each other, die or raise, and whatever is     *)
(* spent meanwhile: the packs of a completed purchase are in the balance   *)
(* or were spent (charge-success.ts handleCreditPurchase).                 *)
THEOREM CreditsArrive == PurchaseSpec => []NoCreditLost
<1>1. PurchaseInv => NoCreditLost
  <2> SUFFICES ASSUME PurchaseInv, NEW s \in Systems
               PROVE balance[s] + spent[s] >= PaidFor(Completed, s)
    BY DEF NoCreditLost
  <2>1. /\ quantity \in [Payments -> Nat] /\ Counted \in SUBSET Payments
        /\ balance[s] \in Nat /\ spent[s] \in Nat
    BY SystemsTyped DEF PurchaseInv
  <2>2. Completed \in SUBSET Payments /\ Completed \subseteq Counted BY DEF Completed, Counted
  <2>3. \A p \in InSystem(Completed, s) : p \in Counted /\ quantity[p] <= quantity[p]
    BY <2>1, <2>2 DEF InSystem
  <2>4. Bought(quantity, Completed, s) <= Bought(quantity, Counted, s)
    BY <2>1, <2>2, <2>3, BoughtMonotone
  <2>5. Bought(quantity, Completed, s) \in Nat /\ Bought(quantity, Counted, s) \in Nat
    BY <2>1, <2>2, BoughtTyped
  <2>6. balance[s] + spent[s] >= Bought(quantity, Counted, s)
    BY PaidForIsBought DEF PurchaseInv, Covered
  <2> QED BY <2>1, <2>4, <2>5, <2>6, PaidForIsBought
<1> QED BY <1>1, PurchaseInvariant, PTL

(* However often an event is delivered, no balance holds more credits than *)
(* the packs paid for in its system.                                       *)
THEOREM CreditsArePaidFor == PurchaseSpec => []WithinPaid
<1>1. PurchaseInv => WithinPaid
  <2> SUFFICES ASSUME PurchaseInv, NEW s \in Systems PROVE balance[s] <= PaidFor(Payments, s)
    BY DEF WithinPaid
  <2>1. quantity \in [Payments -> Nat] /\ ledger \in SUBSET Payments /\ balance[s] \in Nat
    BY SystemsTyped DEF PurchaseInv
  <2>2. \A p \in InSystem(ledger, s) : p \in Payments /\ quantity[p] <= quantity[p]
    BY <2>1 DEF InSystem
  <2>3. Bought(quantity, ledger, s) <= Bought(quantity, Payments, s) BY <2>1, <2>2, BoughtMonotone
  <2>4. Bought(quantity, ledger, s) \in Nat /\ Bought(quantity, Payments, s) \in Nat
    BY <2>1, BoughtTyped
  <2>5. balance[s] <= Bought(quantity, ledger, s) BY PaidForIsBought DEF PurchaseInv, Backing
  <2> QED BY <2>1, <2>3, <2>4, <2>5, PaidForIsBought
<1> QED BY <1>1, PurchaseInvariant, PTL
=============================================================================
