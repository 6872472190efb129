--------------------------- MODULE InvoiceCharge ---------------------------
(***************************************************************************)
(* Collecting an overage invoice.                                          *)
(*                                                                         *)
(* Once an invoice is open, three kinds of actors may settle it: instances *)
(* of the overage-billing workflow, requests to POST /billing/invoice/:id/ *)
(* pay, and payment webhooks of hosted checkouts.  They share the D1 rows  *)
(* of the invoice, its payment attempts, the customer's overage block and  *)
(* the threshold billing run; nothing but the open -> collecting update    *)
(* keeps two of them from charging the saved card.                         *)
(*                                                                         *)
(* One action is one D1 statement (or one provider call): the statements   *)
(* of a workflow step or of a request interleave with everything else.     *)
(* All invoices belong to one customer, so there is one overage block.     *)
(***************************************************************************)
EXTENDS Naturals, FiniteSets

CONSTANTS
  Invoices,            \* the invoices of the customer
  Workflows,           \* overage-billing workflow instances
  ThresholdWorkflows,  \* those started by the threshold trigger (own a billing run)
  Requests,            \* pay requests
  NoBlock,             \* no row in customer_overage_blocks
  DedupesReference,    \* the provider charges a reference once (Stripe, Paystack)
  HostedCheckout,      \* the provider sells a checkout for a bare amount
  MinimumMayRise,      \* a request may resolve a provider with a higher minimum
  Faults,              \* the kinds of failure that may happen
  MaxFaults            \* bound on the number of failures

FaultKinds ==
  { "timeout",   \* the provider charges, the caller sees an exception
    "throw",     \* a D1 statement of a claimed request raises and is not applied
    "retry",     \* a workflow step fails between two statements and is run again
    "lost",      \* a statement is applied, but its caller sees it fail or is run again
    "giveup",    \* a workflow step exhausts its retries
    "abort",     \* a request dies (isolate evicted, or an exception outside the try)
    "swallow" }  \* the webhook's update raises; the handler logs it and acknowledges

ASSUME ConstantsAssumption ==
  /\ ThresholdWorkflows \subseteq Workflows
  /\ Workflows \cap Requests = {}
  /\ NoBlock \notin Invoices \X ThresholdWorkflows
  /\ DedupesReference \in BOOLEAN
  /\ HostedCheckout \in BOOLEAN
  /\ MinimumMayRise \in BOOLEAN
  /\ Faults \subseteq FaultKinds
  /\ MaxFaults \in Nat

MaxChargeAttempts == 3

Procs == Workflows \cup Requests

VARIABLES
  status,     \* invoices.status
  succeeded,  \* payment_attempts rows of the invoice with status 'succeeded'
  usage,      \* the ledger records of the invoice: stamped with it, or unbilled again
  block,      \* the customer_overage_blocks row: <<invoice, billing run>>
  run,        \* billing_runs.status of the run a threshold workflow owns
  charged,    \* card charges of the invoice the provider accepted
  link,       \* hosted checkout of the invoice: none, created, or paid
  events,     \* invoices with an undelivered invoice_payment webhook
  pc,         \* the next statement of each process
  inv,        \* the invoice a process works on
  tries,      \* charge attempts a workflow has made
  faults      \* failures so far

rows == <<status, succeeded, usage, block, run>>
provider == <<charged, link, events>>
vars == <<status, succeeded, usage, block, run, charged, link, events,
          pc, inv, tries, faults>>

InvoiceStatus == {"open", "collecting", "paid", "void"}
RunStatus == {"none", "processing", "completed", "blocked", "deferred"}

WorkflowPC ==
  {"start", "claim_status", "claim_attempt", "claim_settle", "claim", "claim_commit",
   "charge", "paid_attempt", "paid_invoice", "paid_commit",
   "failed_attempt", "failed_invoice", "failed_commit",
   "clear", "clear_run", "complete", "block", "block_run", "error", "done"}

RequestPC ==
  {"load", "release_status", "release_attempt", "release_ledger", "release_invoice",
   "release_block", "claim", "claim_again", "claimed", "settle_clear", "settle_invoice",
   "charge", "paid_attempt", "paid_invoice", "paid_clear",
   "failed_attempt", "failed_invoice", "catch", "checkout", "done"}

\* From its claim of the invoice to its last write on the strength of that claim.
Holding(p) ==
  \/ p \in Workflows /\ pc[p] \in {"claim_commit", "charge", "paid_attempt",
                                   "paid_invoice", "failed_attempt", "failed_invoice"}
  \/ p \in Requests  /\ pc[p] \in {"claimed", "settle_clear", "settle_invoice", "charge",
                                   "paid_attempt", "paid_invoice", "paid_clear",
                                   "failed_attempt", "failed_invoice", "catch"}

Charging(p) == pc[p] = "charge"

TypeOK ==
  /\ status \in [Invoices -> InvoiceStatus]
  /\ succeeded \in [Invoices -> Nat]
  /\ usage \in [Invoices -> {"stamped", "unbilled"}]
  /\ block \in (Invoices \X ThresholdWorkflows) \cup {NoBlock}
  /\ run \in [Workflows -> RunStatus]
  /\ charged \in [Invoices -> Nat]
  /\ link \in [Invoices -> {"none", "created", "paid"}]
  /\ events \in SUBSET Invoices
  /\ pc \in [Procs -> WorkflowPC \cup RequestPC]
  /\ inv \in [Procs -> Invoices]
  /\ tries \in [Workflows -> Nat]
  /\ faults \in Nat

Init ==
  /\ status = [i \in Invoices |-> "open"]
  /\ succeeded = [i \in Invoices |-> 0]
  /\ usage = [i \in Invoices |-> "stamped"]
  /\ block = NoBlock
  /\ run = [w \in Workflows |-> IF w \in ThresholdWorkflows THEN "processing" ELSE "none"]
  /\ charged = [i \in Invoices |-> 0]
  /\ link = [i \in Invoices |-> "none"]
  /\ events = {}
  /\ pc = [p \in Procs |-> IF p \in Workflows THEN "start" ELSE "load"]
  /\ inv \in [Procs -> Invoices]
  /\ tries = [w \in Workflows |-> 0]
  /\ faults = 0

-----------------------------------------------------------------------------
(* Helpers *)

Goto(p, from, to) == pc[p] = from /\ pc' = [pc EXCEPT ![p] = to]

Fault(kind) == kind \in Faults /\ faults < MaxFaults /\ faults' = faults + 1

\* UPDATE invoices SET status = to WHERE id = i AND status = from
SetStatusWhere(i, from, to) ==
  status' = IF status[i] = from THEN [status EXCEPT ![i] = to] ELSE status

\* clearCustomerOverageBlockForInvoice: the block goes, its run is completed.
EndBlock(i, runStatus) ==
  IF block # NoBlock /\ block[1] = i
  THEN /\ block' = NoBlock
       /\ run' = [run EXCEPT ![block[2]] = runStatus]
  ELSE UNCHANGED <<block, run>>

ClearBlockForInvoice(i) == EndBlock(i, "completed")
ReleaseBlockForInvoice(i) == EndBlock(i, "deferred")

\* The saved card is charged under the invoice's id as reference.
CardCharged(i) ==
  charged' = IF DedupesReference /\ charged[i] > 0
             THEN charged ELSE [charged EXCEPT ![i] = @ + 1]

-----------------------------------------------------------------------------
(* The workflow, from its open invoice on *)

\* Auto-collect needs a default card and a provider account.
WfLoadPayment(w) ==
  /\ \/ Goto(w, "start", "claim_status")
     \/ Goto(w, "start", "block")
  /\ UNCHANGED <<rows, provider, inv, tries, faults>>

\* Step "claim-invoice-for-charge", statement by statement.
WfReadStatus(w) ==
  /\ \/ status[inv[w]] = "paid" /\ Goto(w, "claim_status", "clear")
     \/ status[inv[w]] \in {"collecting", "void"} /\ Goto(w, "claim_status", "complete")
     \/ status[inv[w]] = "open" /\ Goto(w, "claim_status", "claim_attempt")
  /\ UNCHANGED <<rows, provider, inv, tries, faults>>

WfReadAttempt(w) ==
  /\ \/ succeeded[inv[w]] > 0 /\ Goto(w, "claim_attempt", "claim_settle")
     \/ succeeded[inv[w]] = 0 /\ Goto(w, "claim_attempt", "claim")
  /\ UNCHANGED <<rows, provider, inv, tries, faults>>

WfSettle(w) ==
  /\ Goto(w, "claim_settle", "clear")
  /\ SetStatusWhere(inv[w], "open", "paid")
  /\ UNCHANGED <<succeeded, usage, block, run, provider, inv, tries, faults>>

\* Wrong: the claim trusts the attempts read before it.
WfClaimIgnoresAttempt(w) ==
  /\ IF status[inv[w]] = "open"
     THEN /\ Goto(w, "claim", "claim_commit")
          /\ status' = [status EXCEPT ![inv[w]] = "collecting"]
     ELSE Goto(w, "claim", "complete") /\ UNCHANGED status
  /\ UNCHANGED <<succeeded, usage, block, run, provider, inv, tries, faults>>

WfClaim(w) ==
  /\ IF status[inv[w]] = "open" /\ succeeded[inv[w]] = 0
     THEN /\ Goto(w, "claim", "claim_commit")
          /\ status' = [status EXCEPT ![inv[w]] = "collecting"]
     ELSE Goto(w, "claim", "complete") /\ UNCHANGED status
  /\ UNCHANGED <<succeeded, usage, block, run, provider, inv, tries, faults>>

WfCommitClaim(w) ==
  /\ Goto(w, "claim_commit", "charge")
  /\ UNCHANGED <<rows, provider, inv, tries, faults>>

\* Steps "charge-card-attempt-n": no exception leaves the step, a failure the
\* provider does not call permanent is tried again, at most three times.
WfChargeAccepted(w) ==
  /\ Goto(w, "charge", "paid_attempt")
  /\ CardCharged(inv[w])
  /\ tries' = [tries EXCEPT ![w] = @ + 1]
  /\ UNCHANGED <<rows, link, events, inv, faults>>

AfterFailedTry(w) ==
  /\ tries' = [tries EXCEPT ![w] = @ + 1]
  /\ Goto(w, "charge", IF tries'[w] < MaxChargeAttempts THEN "charge" ELSE "failed_attempt")

\* Wrong: a declined charge is recorded like an accepted one.
WfDeclineIgnored(w) ==
  /\ Goto(w, "charge", "paid_attempt")
  /\ tries' = [tries EXCEPT ![w] = @ + 1]
  /\ UNCHANGED <<rows, provider, inv, faults>>

WfChargeDeclined(w) ==
  /\ \/ AfterFailedTry(w)
     \/ /\ Goto(w, "charge", "failed_attempt")
        /\ tries' = [tries EXCEPT ![w] = @ + 1]
  /\ UNCHANGED <<rows, provider, inv, faults>>

WfChargeTimesOut(w) ==
  /\ Fault("timeout")
  /\ AfterFailedTry(w)
  /\ CardCharged(inv[w])
  /\ UNCHANGED <<rows, link, events, inv>>

\* Step "record-payment".  Failed attempts are never read again by the code
\* modelled here, so only succeeded ones are counted.
WfRecordSuccess(w) ==
  /\ Goto(w, "paid_attempt", "paid_invoice")
  /\ succeeded' = [succeeded EXCEPT ![inv[w]] = @ + 1]
  /\ UNCHANGED <<status, usage, block, run, provider, inv, tries, faults>>

WfMarkPaid(w) ==
  /\ Goto(w, "paid_invoice", "paid_commit")
  /\ SetStatusWhere(inv[w], "collecting", "paid")
  /\ UNCHANGED <<succeeded, usage, block, run, provider, inv, tries, faults>>

WfRecordFailure(w) ==
  /\ Goto(w, "failed_attempt", "failed_invoice")
  /\ UNCHANGED <<rows, provider, inv, tries, faults>>

\* Wrong: after a failed charge the claim is kept.
WfKeepsClaim(w) ==
  /\ Goto(w, "failed_invoice", "failed_commit")
  /\ UNCHANGED <<rows, provider, inv, tries, faults>>

WfReopen(w) ==
  /\ Goto(w, "failed_invoice", "failed_commit")
  /\ SetStatusWhere(inv[w], "collecting", "open")
  /\ UNCHANGED <<succeeded, usage, block, run, provider, inv, tries, faults>>

WfCommitRecord(w) ==
  /\ \/ Goto(w, "paid_commit", "clear")
     \/ Goto(w, "failed_commit", "block")
  /\ UNCHANGED <<rows, provider, inv, tries, faults>>

\* clearThresholdBlockAndComplete and blockThresholdRun: the block row, then the
\* run.  A workflow without a billing run does neither.
WfClearBlock(w) ==
  /\ Goto(w, "clear", "clear_run")
  /\ block' = IF w \in ThresholdWorkflows THEN NoBlock ELSE block
  /\ UNCHANGED <<status, succeeded, usage, run, provider, inv, tries, faults>>

WfComplete(w) ==
  /\ Goto(w, "clear_run", "done") \/ Goto(w, "complete", "done")
  /\ run' = IF w \in ThresholdWorkflows THEN [run EXCEPT ![w] = "completed"] ELSE run
  /\ UNCHANGED <<status, succeeded, usage, block, provider, inv, tries, faults>>

WfBlock(w) ==
  /\ Goto(w, "block", "block_run") \/ Goto(w, "error", "block_run")
  /\ block' = IF w \in ThresholdWorkflows THEN <<inv[w], w>> ELSE block
  /\ UNCHANGED <<status, succeeded, usage, run, provider, inv, tries, faults>>

WfBlockRun(w) ==
  /\ Goto(w, "block_run", "done")
  /\ run' = IF w \in ThresholdWorkflows THEN [run EXCEPT ![w] = "blocked"] ELSE run
  /\ UNCHANGED <<status, succeeded, usage, block, provider, inv, tries, faults>>

\* The engine runs a step again from its first statement: because a statement
\* raised, or ("lost") because the step's last statement took effect and its
\* result was not persisted.
WfRunStepAgain(w) ==
  /\ \/ /\ Fault("retry")
        /\ \/ \E at \in {"claim_attempt", "claim_settle", "claim"} : Goto(w, at, "claim_status")
           \/ Goto(w, "paid_invoice", "paid_attempt")
           \/ Goto(w, "failed_invoice", "failed_attempt")
           \/ Goto(w, "clear_run", "clear")
           \/ Goto(w, "block_run", "block")
     \/ /\ Fault("lost")
        /\ \/ Goto(w, "claim_commit", "claim_status")
           \/ Goto(w, "paid_commit", "paid_attempt")
           \/ Goto(w, "failed_commit", "failed_attempt")
  /\ UNCHANGED <<rows, provider, inv, tries>>

WfChargeStepAgain(w) ==
  /\ Fault("lost")
  /\ pc[w] = "charge"
  /\ CardCharged(inv[w])
  /\ UNCHANGED <<rows, link, events, pc, inv, tries>>

\* Retries exhausted: the exception reaches run's catch, which blocks the
\* customer; from there it ends the instance.
WfGivesUp(w) ==
  /\ Fault("giveup")
  /\ \/ \E at \in WorkflowPC \ {"charge", "error", "done"} : Goto(w, at, "error")
     \/ Goto(w, "error", "done")
  /\ UNCHANGED <<rows, provider, inv, tries>>

Workflow(w) ==
  \/ WfLoadPayment(w) \/ WfReadStatus(w) \/ WfReadAttempt(w) \/ WfSettle(w)
  \/ WfClaim(w) \/ WfCommitClaim(w)
  \/ WfChargeAccepted(w) \/ WfChargeDeclined(w)
  \/ WfRecordSuccess(w) \/ WfMarkPaid(w) \/ WfRecordFailure(w) \/ WfReopen(w)
  \/ WfCommitRecord(w)
  \/ WfClearBlock(w) \/ WfComplete(w) \/ WfBlock(w) \/ WfBlockRun(w)

WorkflowFault(w) ==
  WfChargeTimesOut(w) \/ WfRunStepAgain(w) \/ WfChargeStepAgain(w) \/ WfGivesUp(w)

-----------------------------------------------------------------------------
(* POST /billing/invoice/:id/pay *)

\* The invoice as loaded decides the path.  The provider resolved for the
\* request may have a higher minimum than the one the invoice was made for.
ReqLoad(p) ==
  /\ \/ /\ status[inv[p]] = "paid"
        /\ Goto(p, "load", "done")
        /\ ClearBlockForInvoice(inv[p])
     \/ /\ status[inv[p]] \in {"collecting", "void"}
        /\ Goto(p, "load", "done")
        /\ UNCHANGED <<block, run>>
     \/ /\ status[inv[p]] = "open"
        /\ \/ MinimumMayRise /\ Goto(p, "load", "release_status")
           \/ Goto(p, "load", "claim")       \* the customer has a saved card
           \/ Goto(p, "load", "checkout")    \* no saved card
           \/ Goto(p, "load", "done")        \* no customer, account or adapter
        /\ UNCHANGED <<block, run>>
  /\ UNCHANGED <<status, succeeded, usage, provider, inv, tries, faults>>

\* releaseInvoiceToUnbilledUsage: two reads, then the ledger, then the rows.
ReqReleaseReadStatus(p) ==
  /\ Goto(p, "release_status", IF status[inv[p]] = "open" THEN "release_attempt" ELSE "done")
  /\ UNCHANGED <<rows, provider, inv, tries, faults>>

ReqReleaseReadAttempt(p) ==
  /\ Goto(p, "release_attempt", IF succeeded[inv[p]] = 0 THEN "release_ledger" ELSE "done")
  /\ UNCHANGED <<rows, provider, inv, tries, faults>>

ReqReleaseLedger(p) ==
  /\ Goto(p, "release_ledger", "release_invoice")
  /\ usage' = [usage EXCEPT ![inv[p]] = "unbilled"]
  /\ UNCHANGED <<status, succeeded, block, run, provider, inv, tries, faults>>

ReqReleaseInvoice(p) ==
  /\ Goto(p, "release_invoice", "release_block")
  /\ status' = [status EXCEPT ![inv[p]] = "void"]
  /\ UNCHANGED <<succeeded, usage, block, run, provider, inv, tries, faults>>

ReqReleaseBlock(p) ==
  /\ Goto(p, "release_block", "done")
  /\ ReleaseBlockForInvoice(inv[p])
  /\ UNCHANGED <<status, succeeded, usage, provider, inv, tries, faults>>

\* Wrong: the claim trusts the status the invoice was loaded with.
ReqClaimUnguarded(p) ==
  /\ Goto(p, "claim", "claimed")
  /\ status' = [status EXCEPT ![inv[p]] = "collecting"]
  /\ UNCHANGED <<succeeded, usage, block, run, provider, inv, tries, faults>>

\* The claim; a request that loses it looks at the invoice once more.
ReqClaim(p) ==
  /\ \/ /\ status[inv[p]] = "open"
        /\ Goto(p, "claim", "claimed")
        /\ status' = [status EXCEPT ![inv[p]] = "collecting"]
     \/ /\ status[inv[p]] # "open"
        /\ Goto(p, "claim", "claim_again")
        /\ UNCHANGED status
  /\ UNCHANGED <<succeeded, usage, block, run, provider, inv, tries, faults>>

ReqClaimRefused(p) ==
  /\ Goto(p, "claim_again", "done")
  /\ IF status[inv[p]] = "paid" THEN ClearBlockForInvoice(inv[p]) ELSE UNCHANGED <<block, run>>
  /\ UNCHANGED <<status, succeeded, usage, provider, inv, tries, faults>>

ReqReadAttempt(p) ==
  /\ Goto(p, "claimed", IF succeeded[inv[p]] > 0 THEN "settle_clear" ELSE "charge")
  /\ UNCHANGED <<rows, provider, inv, tries, faults>>

ReqSettleClear(p) ==
  /\ Goto(p, "settle_clear", "settle_invoice")
  /\ ClearBlockForInvoice(inv[p])
  /\ UNCHANGED <<status, succeeded, usage, provider, inv, tries, faults>>

ReqSettleInvoice(p) ==
  /\ Goto(p, "settle_invoice", "done")
  /\ SetStatusWhere(inv[p], "collecting", "paid")
  /\ UNCHANGED <<succeeded, usage, block, run, provider, inv, tries, faults>>

\* The provider also announces the charge of a request by an invoice_payment
\* webhook (a workflow's charge carries another type).
ReqCharge(p) ==
  /\ \/ /\ Goto(p, "charge", "paid_attempt")
        /\ CardCharged(inv[p])
        /\ events' = events \cup {inv[p]}
        /\ UNCHANGED faults
     \/ /\ Goto(p, "charge", "failed_attempt")
        /\ UNCHANGED <<charged, events, faults>>
     \/ /\ Fault("timeout")
        /\ Goto(p, "charge", "catch")
        /\ CardCharged(inv[p])
        /\ events' = events \cup {inv[p]}
  /\ UNCHANGED <<rows, link, inv, tries>>

ReqRecordSuccess(p) ==
  /\ Goto(p, "paid_attempt", "paid_invoice")
  /\ succeeded' = [succeeded EXCEPT ![inv[p]] = @ + 1]
  /\ UNCHANGED <<status, usage, block, run, provider, inv, tries, faults>>

ReqMarkPaid(p) ==
  /\ Goto(p, "paid_invoice", "paid_clear")
  /\ SetStatusWhere(inv[p], "collecting", "paid")
  /\ UNCHANGED <<succeeded, usage, block, run, provider, inv, tries, faults>>

ReqClearBlock(p) ==
  /\ Goto(p, "paid_clear", "done")
  /\ ClearBlockForInvoice(inv[p])
  /\ UNCHANGED <<status, succeeded, usage, provider, inv, tries, faults>>

ReqRecordFailure(p) ==
  /\ Goto(p, "failed_attempt", "failed_invoice")
  /\ UNCHANGED <<rows, provider, inv, tries, faults>>

\* Wrong: the claim is given up whatever has happened to the invoice.
ReqReopenAnyway(p) ==
  /\ Goto(p, "failed_invoice", "checkout") \/ Goto(p, "catch", "checkout")
  /\ status' = [status EXCEPT ![inv[p]] = "open"]
  /\ UNCHANGED <<succeeded, usage, block, run, provider, inv, tries, faults>>

\* After the failed charge, and in the catch: give the claim up.
ReqReopen(p) ==
  /\ Goto(p, "failed_invoice", "checkout") \/ Goto(p, "catch", "checkout")
  /\ SetStatusWhere(inv[p], "collecting", "open")
  /\ UNCHANGED <<succeeded, usage, block, run, provider, inv, tries, faults>>

\* Fallback: a checkout session, when the provider can make one.
ReqCheckout(p) ==
  /\ Goto(p, "checkout", "done")
  /\ \/ /\ HostedCheckout
        /\ link' = [link EXCEPT ![inv[p]] = IF @ = "paid" THEN @ ELSE "created"]
     \/ UNCHANGED link
  /\ UNCHANGED <<rows, charged, events, inv, tries, faults>>

\* A statement of the try block raises.  claimedForAutoCharge decides whether the
\* catch reopens the invoice: set after the claim, cleared after the reopening.
ReqThrows(p) ==
  /\ \/ /\ Fault("throw")
        /\ \/ \E at \in {"claim", "claim_again"} : Goto(p, at, "checkout")
           \/ \E at \in {"claimed", "settle_clear", "settle_invoice", "paid_attempt",
                         "paid_invoice", "paid_clear", "failed_attempt", "failed_invoice"} :
                Goto(p, at, "catch")
        /\ UNCHANGED status
     \/ /\ Fault("lost")
        /\ \/ /\ Goto(p, "claim", "checkout")
              /\ SetStatusWhere(inv[p], "open", "collecting")
           \/ /\ Goto(p, "failed_invoice", "catch")
              /\ SetStatusWhere(inv[p], "collecting", "open")
  /\ UNCHANGED <<succeeded, usage, block, run, provider, inv, tries>>

\* The request ends wherever it is; nothing of it runs again.
ReqAborts(p) ==
  /\ Fault("abort")
  /\ \E at \in RequestPC \ {"done"} : Goto(p, at, "done")
  /\ UNCHANGED <<rows, provider, inv, tries>>

Request(p) ==
  \/ ReqLoad(p)
  \/ ReqReleaseReadStatus(p) \/ ReqReleaseReadAttempt(p) \/ ReqReleaseLedger(p)
  \/ ReqReleaseInvoice(p) \/ ReqReleaseBlock(p)
  \/ ReqClaim(p) \/ ReqClaimRefused(p)
  \/ ReqReadAttempt(p) \/ ReqSettleClear(p) \/ ReqSettleInvoice(p)
  \/ ReqCharge(p) \/ ReqRecordSuccess(p) \/ ReqMarkPaid(p) \/ ReqClearBlock(p)
  \/ ReqRecordFailure(p) \/ ReqReopen(p) \/ ReqCheckout(p)

RequestFault(p) == ReqThrows(p) \/ ReqAborts(p)

-----------------------------------------------------------------------------
(* Hosted checkouts and their webhooks *)

CustomerPaysLink(i) ==
  /\ link[i] = "created"
  /\ link' = [link EXCEPT ![i] = "paid"]
  /\ events' = events \cup {i}
  /\ UNCHANGED <<rows, charged, pc, inv, tries, faults>>

\* charge.success with metadata type invoice_payment: the invoice is paid,
\* whatever its status.  Providers deliver at least once.
DeliverPayment(i) ==
  /\ i \in events
  /\ events' \in {events, events \ {i}}
  /\ status' = [status EXCEPT ![i] = "paid"]
  /\ ClearBlockForInvoice(i)
  /\ UNCHANGED <<succeeded, usage, charged, link, pc, inv, tries, faults>>

DropPayment(i) ==
  /\ Fault("swallow")
  /\ i \in events
  /\ events' = events \ {i}
  /\ UNCHANGED <<rows, charged, link, pc, inv, tries>>

-----------------------------------------------------------------------------
Finished == (\A p \in Procs : pc[p] = "done") /\ events = {} /\ UNCHANGED vars

Next ==
  \/ \E w \in Workflows : Workflow(w) \/ WorkflowFault(w)
  \/ \E p \in Requests : Request(p) \/ RequestFault(p)
  \/ \E i \in Invoices : CustomerPaysLink(i) \/ DeliverPayment(i) \/ DropPayment(i)
  \/ Finished

Spec == Init /\ [][Next]_vars

\* The Workflows engine resumes instances until they end, a request handler runs
\* on unless it aborts, and the provider delivers its events.  No fault is fair,
\* and nothing obliges a customer to pay a link.
Fairness ==
  /\ \A w \in Workflows : WF_vars(Workflow(w))
  /\ \A p \in Requests : WF_vars(Request(p))
  /\ \A i \in Invoices : WF_vars(DeliverPayment(i) /\ events' = events \ {i})

FairSpec == Spec /\ Fairness
-----------------------------------------------------------------------------
(* Properties *)

(* At most one process at a time acts on a claim of an invoice: the open ->    *)
(* collecting update is the only way in, and only the holder leads back to     *)
(* open (overage-billing.ts, claim-invoice-for-charge; billing.ts, pay route). *)
OneHolder ==
  \A p, q \in Procs : Holding(p) /\ Holding(q) /\ inv[p] = inv[q] => p = q

(* No process is about to charge an invoice whose payment is on record: a     *)
(* success recorded by an earlier charger, whose own update to paid failed,   *)
(* settles the invoice instead (the existingSuccess / NOT EXISTS checks).     *)
SettledNeverRecharged ==
  \A p \in Procs : Charging(p) => succeeded[inv[p]] = 0

(* A paid invoice is backed by money: an accepted charge or a paid checkout,  *)
(* however claims, retries, crashes and webhooks interleave.                  *)
PaidIsBacked ==
  \A i \in Invoices : status[i] = "paid" => charged[i] > 0 \/ link[i] = "paid"

(* Concurrent workflows and requests charge the saved card for an invoice at  *)
(* most once.                                                                 *)
ChargedAtMostOnce == \A i \in Invoices : charged[i] <= 1

(* As long as nothing fails, that is so whatever the interleaving.            *)
ChargedOnceUnlessFaulted == faults = 0 => ChargedAtMostOnce

(* A payment is not undone: an invoice a webhook marks paid while a charge is *)
(* in progress is neither reopened nor claimed afterwards.                    *)
PaidStaysSettled ==
  [][\A i \in Invoices : status[i] = "paid" => status'[i] \notin {"open", "collecting"}]_vars

(* An invoice does not stay collecting: whoever claimed it leaves it paid,    *)
(* open or void (a collecting invoice can be neither paid nor released).      *)
CollectingResolves ==
  \A i \in Invoices : status[i] = "collecting" ~> status[i] # "collecting"

(* The statements of workflows, requests and webhooks, interleaved, do what   *)
(* collecting promises (module InvoiceCollection): the invoice is taken by    *)
(* one of them at a time, charged by who took it, and paid only with money.   *)
HoldersOf(i) == {p \in Procs : Holding(p) /\ inv[p] = i}
Collection == INSTANCE InvoiceCollection WITH
  Collectors <- Procs,
  state <- status,
  holders <- [i \in Invoices |-> HoldersOf(i)],
  money <- [i \in Invoices |-> charged[i] > 0 \/ link[i] = "paid"]
CollectsAsPromised == Collection!Spec
=============================================================================
