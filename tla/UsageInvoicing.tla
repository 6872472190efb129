--------------------------- MODULE UsageInvoicing ---------------------------
(***************************************************************************)
(* From recorded usage to an open invoice.                                 *)
(*                                                                         *)
(* Usage records live in the organization's ledger (UsageLedgerDO), where  *)
(* a record is unbilled until it is stamped with an invoice.  Invoices,    *)
(* their lines, threshold billing runs and the overage block are D1 rows.  *)
(* Three kinds of generators bill one customer: manual requests (POST      *)
(* /billing/invoice), period-end workflows and threshold workflows.  Each  *)
(* reads the unbilled usage, rates it, writes an invoice under an          *)
(* idempotency key and then stamps the usage, one call at a time.          *)
(*                                                                         *)
(* One action is one D1 statement or one call of the ledger.  A record is  *)
(* one unit of its feature, rated by the feature's pricing (UsageRating).  *)
(* What becomes of an open invoice (InvoiceCharge) is one action here.     *)
(***************************************************************************)
EXTENDS UsageRating, FiniteSets

CONSTANTS
  Records,     \* usage records of the customer, one unit each
  Features,
  FeatureOf,   \* the feature of each record
  PricingOf,   \* the pricing of each feature
  Manual, PeriodEnd, Threshold,   \* the generators, by trigger
  NoInvoice, NoBlock,
  Punctual,    \* a record is in the ledger before anyone reads past its createdAt
  Releases,    \* open invoices may be released to unbilled usage
  Faults,      \* the kinds of failure that may happen
  MaxFaults,   \* bound on the number of failures
  MaxTries     \* bound on the runs of a generate-invoice step

FaultKinds ==
  { "create",  \* workflow.create raises, whether the instance was created or not
    "item",    \* the insert of an invoice item raises
    "ledger",  \* a call of the ledger answers null, applied or not
    "retry",   \* a workflow step fails or loses its result, and is run again
    "run",     \* a step or statement on a billing run raises for good, or the evaluator dies
    "abort" }  \* a manual request dies

Workflows == PeriodEnd \cup Threshold
Generators == Manual \cup Workflows
Invoices == Generators \X (1 .. MaxTries)
Instants == 0 .. Cardinality(Records)

ASSUME InvoicingAssumption ==
  /\ IsFiniteSet(Records) /\ IsFiniteSet(Features) /\ IsFiniteSet(Generators)
  /\ FeatureOf \in [Records -> Features]
  /\ PricingOf \in [Features -> Pricing]
  /\ \A f \in Features : Ascending(PricingOf[f].tiers)
  /\ Manual \cap Workflows = {} /\ PeriodEnd \cap Threshold = {}
  /\ NoInvoice \notin Invoices
  /\ NoBlock \notin (Invoices \cup {NoInvoice}) \X Threshold
  /\ Punctual \in BOOLEAN /\ Releases \in BOOLEAN
  /\ Faults \subseteq FaultKinds
  /\ MaxFaults \in Nat /\ MaxTries \in Nat

VARIABLES
  clock,      \* creation instants given so far
  created,    \* usage_records.created_at, 0 for usage not tracked yet
  stored,     \* the records that reached the ledger
  stamp,      \* usage_records.invoice_id
  key,        \* invoices.idempotency_key, <<>> for no such row
  status,     \* invoices.status
  total,      \* invoices.total, fixed when the row is inserted
  lines,      \* invoice_items: how many items a feature has, and their amount
  run,        \* billing_runs.status of the run of a threshold generator
  window,     \* billing_runs.usage_window_end
  lock,       \* the runs that hold the customer's active_lock_key
  block,      \* the customer_overage_blocks row: <<invoice, run>>
  orphan,     \* runs whose evaluator saw workflow.create fail
  releasing,  \* invoices whose usage is released, the row not yet void
  pc,         \* the next statement of each generator
  calc,       \* what a generator read: the result of calculate-unbilled-usage
  target,     \* the invoice it writes
  todo,       \* the features its present loop has left
  tries,      \* runs of its generate-invoice step
  faults      \* failures so far

ledger == <<clock, created, stored, stamp>>
invoice == <<key, status, total, lines>>
billingRun == <<run, window, lock, orphan>>
generator == <<calc, target, todo, tries>>
vars == <<ledger, invoice, billingRun, block, releasing, generator, pc, faults>>

Triggers == {"manual", "period_end", "threshold"}
Keys == Triggers \X Instants
NoKey == <<>>
InvoiceStatus == {"none", "open", "paid", "void"}
RunStatus == {"none", "pending", "processing", "completed", "blocked", "failed", "deferred"}
GeneratorPC ==
  {"idle", "preview", "preview_sum", "create_run", "create_workflow", "load", "mark_run",
   "read", "sum", "find", "insert", "items", "mark", "unstamp", "void", "thrown", "caught",
   "collect", "collect_caught",
   "done", "lost"}   \* lost: it ended, and may have left its billing run as it was
AtRest == {"idle", "done", "lost"}

Calculation ==
  [cutoff : Instants, unbilled : [Features -> Nat], last : [Features -> Instants],
   usage : [Features -> Nat]]

TypeOK ==
  /\ clock \in Instants
  /\ created \in [Records -> Instants]
  /\ stored \in SUBSET Records
  /\ stamp \in [Records -> Invoices \cup {NoInvoice}]
  /\ key \in [Invoices -> Keys \cup {NoKey}]
  /\ status \in [Invoices -> InvoiceStatus]
  /\ total \in [Invoices -> Int]
  /\ lines \in [Invoices -> [Features -> [items : Nat, amount : Int]]]
  /\ run \in [Threshold -> RunStatus]
  /\ window \in [Threshold -> Instants]
  /\ lock \in SUBSET Threshold
  /\ block \in ((Invoices \cup {NoInvoice}) \X Threshold) \cup {NoBlock}
  /\ orphan \in SUBSET Threshold
  /\ releasing \in SUBSET Invoices
  /\ pc \in [Generators -> GeneratorPC]
  /\ calc \in [Generators -> Calculation]
  /\ target \in [Generators -> Invoices \cup {NoInvoice}]
  /\ todo \in [Generators -> SUBSET Features]
  /\ tries \in [Generators -> 0 .. MaxTries]
  /\ faults \in Nat

Nothing == [f \in Features |-> 0]
NoLines == [f \in Features |-> [items |-> 0, amount |-> 0]]
NoCalculation == [cutoff |-> 0, unbilled |-> Nothing, last |-> Nothing, usage |-> Nothing]

Init ==
  /\ clock = 0
  /\ created = [r \in Records |-> 0]
  /\ stored = {}
  /\ stamp = [r \in Records |-> NoInvoice]
  /\ key = [i \in Invoices |-> NoKey]
  /\ status = [i \in Invoices |-> "none"]
  /\ total = [i \in Invoices |-> 0]
  /\ lines = [i \in Invoices |-> NoLines]
  /\ run = [t \in Threshold |-> "none"]
  /\ window = [t \in Threshold |-> 0]
  /\ lock = {}
  /\ block = NoBlock
  /\ orphan = {}
  /\ releasing = {}
  /\ pc = [g \in Generators |-> "idle"]
  /\ calc = [g \in Generators |-> NoCalculation]
  /\ target = [g \in Generators |-> NoInvoice]
  /\ todo = [g \in Generators |-> {}]
  /\ tries = [g \in Generators |-> 0]
  /\ faults = 0

-----------------------------------------------------------------------------
(* Helpers *)

Goto(g, from, to) == pc[g] = from /\ pc' = [pc EXCEPT ![g] = to]

Fault(kind) == kind \in Faults /\ faults < MaxFaults /\ faults' = faults + 1

InFeature(f, until) == {r \in stored : FeatureOf[r] = f /\ created[r] <= until}
\* Wrong: billed records count too.
StoredIn(f, until) == InFeature(f, until)

UnbilledIn(f, until) == {r \in InFeature(f, until) : stamp[r] = NoInvoice}

\* What g's calculation bills: features with a quantity, up to the window's end.  The
\* unbilled units are taken for the last ones used.
Rated(g, f) ==
  LET unbilled == calc[g].unbilled[f]
      usage == calc[g].usage[f]
  IN IF unbilled = 0 THEN [quantity |-> 0, amount |-> 0]
     ELSE RateUsageDelta(PricingOf[f], Max({0, usage - unbilled}), usage)
Billable(g) == {f \in Features : Rated(g, f).quantity # 0}
TotalEstimated(g) == MapThenSumSet(LAMBDA f : Rated(g, f).amount, Billable(g))
WindowEnd(g) ==
  IF calc[g].cutoff > 0 THEN calc[g].cutoff ELSE Max({calc[g].last[f] : f \in Billable(g)})

Trigger(g) ==
  IF g \in Manual THEN "manual" ELSE IF g \in Threshold THEN "threshold" ELSE "period_end"
KeyOf(g) == <<Trigger(g), WindowEnd(g)>>

EndRun(g, st) ==
  IF g \in Threshold
  THEN run' = [run EXCEPT ![g] = st] /\ lock' = lock \ {g}
  ELSE UNCHANGED <<run, lock>>

\* clear- and releaseCustomerOverageBlockForInvoice
EndBlock(i, st) ==
  IF block # NoBlock /\ block[1] = i
  THEN /\ block' = NoBlock
       /\ run' = [run EXCEPT ![block[2]] = st]
       /\ lock' = lock \ {block[2]}
  ELSE UNCHANGED <<block, run, lock>>

ReleaseUsage(i) == stamp' = [r \in Records |-> IF stamp[r] = i THEN NoInvoice ELSE stamp[r]]

-----------------------------------------------------------------------------
(* Recording usage.  createdAt is taken in the worker, before the call that    *)
(* appends the record; instants are fine enough to be distinct.                *)

Track(r) ==
  /\ created[r] = 0
  /\ clock' = clock + 1
  /\ created' = [created EXCEPT ![r] = clock']
  /\ stored' = IF Punctual THEN stored \cup {r} ELSE stored
  /\ UNCHANGED <<stamp, invoice, billingRun, block, releasing, generator, pc, faults>>

Arrive(r) ==
  /\ created[r] > 0 /\ r \notin stored
  /\ stored' = stored \cup {r}
  /\ UNCHANGED <<clock, created, stamp, invoice, billingRun, block, releasing, generator,
                 pc, faults>>

-----------------------------------------------------------------------------
(* getUnbilledUsage: the unbilled units per feature, then each feature's       *)
(* cumulative usage, in calls of their own.                                    *)

ReadUnbilled(g) ==
  /\ Goto(g, "preview", "preview_sum") \/ Goto(g, "read", "sum")
  /\ LET cutoff == IF pc[g] = "read" /\ g \in Threshold THEN window[g] ELSE 0
         rows == [f \in Features |->
                    UnbilledIn(f, IF cutoff > 0 THEN cutoff ELSE Cardinality(Records))]
     IN /\ calc' = [calc EXCEPT ![g] =
              [cutoff |-> cutoff,
               unbilled |-> [f \in Features |-> Cardinality(rows[f])],
               last |-> [f \in Features |-> Max({created[r] : r \in rows[f]} \cup {0})],
               usage |-> Nothing]]
        /\ todo' = [todo EXCEPT ![g] = {f \in Features : rows[f] # {}}]
  /\ UNCHANGED <<ledger, invoice, billingRun, block, releasing, target, tries, faults>>

SumUsage(g, f) ==
  /\ pc[g] \in {"preview_sum", "sum"} /\ f \in todo[g]
  /\ LET until == IF calc[g].cutoff > 0 THEN calc[g].cutoff ELSE Cardinality(Records)
     IN calc' = [calc EXCEPT ![g].usage[f] = Cardinality(InFeature(f, until))]
  /\ todo' = [todo EXCEPT ![g] = @ \ {f}]
  /\ UNCHANGED <<ledger, invoice, billingRun, block, releasing, target, tries, pc, faults>>

\* The ledger is out of reach: a request ends in an error, a workflow after the
\* retries of its step.
CalculationFails(g) ==
  /\ Fault("ledger")
  /\ pc[g] \in {"preview", "preview_sum", "read", "sum"}
  /\ Goto(g, pc[g], IF g \in Workflows /\ pc[g] \in {"read", "sum"} THEN "caught" ELSE "done")
  /\ UNCHANGED <<ledger, invoice, billingRun, block, releasing, generator>>

-----------------------------------------------------------------------------
(* evaluateThresholdBillingCandidate, and the start of its workflow            *)

\* After a tracked overage: nobody is blocked and no run is active.
Evaluate(t) ==
  /\ block = NoBlock
  /\ \A s \in Threshold : run[s] \notin {"pending", "processing"}
  /\ Goto(t, "idle", "preview")
  /\ UNCHANGED <<ledger, invoice, billingRun, block, releasing, generator, faults>>

DecidePreview(t) ==
  /\ todo[t] = {}
  /\ \/ Billable(t) # {} /\ TotalEstimated(t) # 0 /\ Goto(t, "preview_sum", "create_run")
     \/ Goto(t, "preview_sum", "done")    \* nothing billable, or below the threshold
  /\ UNCHANGED <<ledger, invoice, billingRun, block, releasing, generator, faults>>

\* Wrong: only the run's own key is unique.
CreateRunUnlocked(t) ==
  /\ pc[t] = "create_run"
  /\ IF \A s \in Threshold : run[s] # "none" => window[s] # WindowEnd(t)
     THEN /\ Goto(t, "create_run", "create_workflow")
          /\ run' = [run EXCEPT ![t] = "pending"]
          /\ window' = [window EXCEPT ![t] = WindowEnd(t)]
          /\ lock' = lock \cup {t}
     ELSE Goto(t, "create_run", "done") /\ UNCHANGED <<run, window, lock>>
  /\ UNCHANGED <<ledger, invoice, orphan, block, releasing, generator, faults>>

\* The key of a run and the active lock are unique columns.
CreateRun(t) ==
  /\ pc[t] = "create_run"
  /\ IF lock = {} /\ \A s \in Threshold : run[s] # "none" => window[s] # WindowEnd(t)
     THEN /\ Goto(t, "create_run", "create_workflow")
          /\ run' = [run EXCEPT ![t] = "pending"]
          /\ window' = [window EXCEPT ![t] = WindowEnd(t)]
          /\ lock' = lock \cup {t}
     ELSE Goto(t, "create_run", "done") /\ UNCHANGED <<run, window, lock>>
  /\ UNCHANGED <<ledger, invoice, orphan, block, releasing, generator, faults>>

CreateWorkflow(t) ==
  /\ \/ Goto(t, "create_workflow", "load") /\ UNCHANGED <<orphan, faults>>
     \/ /\ Fault("create")
        /\ Goto(t, "create_workflow", "load") \/ Goto(t, "create_workflow", "done")
        /\ orphan' = orphan \cup {t}
  /\ UNCHANGED <<ledger, invoice, run, window, lock, block, releasing, generator>>

\* The evaluator's catch, whatever the instance has done by then.
FailRun(t) ==
  /\ t \in orphan
  /\ orphan' = orphan \ {t}
  /\ EndRun(t, "failed")
  /\ UNCHANGED <<ledger, invoice, window, block, releasing, generator, pc, faults>>

LoadRun(t) ==
  /\ Goto(t, "load", IF run[t] \in {"completed", "blocked", "failed", "deferred"}
                     THEN "done" ELSE "mark_run")
  /\ UNCHANGED <<ledger, invoice, billingRun, block, releasing, generator, faults>>

MarkRun(t) ==
  /\ \/ /\ Goto(t, "mark_run", "read")
        /\ run' = [run EXCEPT ![t] = "processing"]
        /\ UNCHANGED lock
     \/ /\ Goto(t, "mark_run", "done")    \* auto-collect is off by now
        /\ EndRun(t, "failed")
  /\ UNCHANGED <<ledger, invoice, window, orphan, block, releasing, generator, faults>>

\* The row is inserted and no workflow will run: the insert loses its answer, the row
\* cannot be read back, or the evaluator dies.
EvaluatorFails(t) ==
  /\ Fault("run")
  /\ Goto(t, "create_workflow", "lost")
  /\ UNCHANGED <<ledger, invoice, billingRun, block, releasing, generator>>

\* The evaluator's catch cannot end the run; the instance, if there is one, still may.
FailRunFails(t) ==
  /\ Fault("run")
  /\ t \in orphan
  /\ orphan' = orphan \ {t}
  /\ pc' = [pc EXCEPT ![t] = IF @ = "done" THEN "lost" ELSE @]
  /\ UNCHANGED <<ledger, invoice, run, window, lock, block, releasing, generator>>

\* Before the run is loaded, the workflow's catch has no run to end.
LoadFails(t) ==
  /\ Fault("run")
  /\ Goto(t, "load", "lost")
  /\ UNCHANGED <<ledger, invoice, billingRun, block, releasing, generator>>

MarkRunFails(t) ==
  /\ Fault("run")
  /\ Goto(t, "mark_run", "caught")
  /\ \/ run' = [run EXCEPT ![t] = "processing"] /\ UNCHANGED lock
     \/ EndRun(t, "failed")
     \/ UNCHANGED <<run, lock>>
  /\ UNCHANGED <<ledger, invoice, window, orphan, block, releasing, generator>>

\* The other triggers begin with the calculation.
Begin(g) ==
  /\ g \notin Threshold
  /\ Goto(g, "idle", "read")
  /\ UNCHANGED <<ledger, invoice, billingRun, block, releasing, generator, faults>>

-----------------------------------------------------------------------------
(* createInvoiceFromUsage                                                      *)

\* A workflow takes features that cost nothing for nothing to bill; a request does not.
NothingToBill(g) == Billable(g) = {} \/ (g \in Workflows /\ TotalEstimated(g) = 0)

\* Wrong: a run with too little to bill just ends its workflow.
DecideForgetsRun(g) ==
  /\ pc[g] = "sum" /\ todo[g] = {}
  /\ \/ ~NothingToBill(g) /\ Goto(g, "sum", "find")
     \/ Goto(g, "sum", "done")
  /\ UNCHANGED <<ledger, invoice, billingRun, block, releasing, generator, faults>>

\* Nothing to bill, or less than the provider's minimum: the usage stays unbilled.
Decide(g) ==
  /\ pc[g] = "sum" /\ todo[g] = {}
  /\ \/ /\ ~NothingToBill(g)
        /\ Goto(g, "sum", "find")
        /\ UNCHANGED <<run, lock>>
     \/ /\ Goto(g, "sum", "done")
        /\ EndRun(g, IF NothingToBill(g) THEN "completed" ELSE "deferred")
  /\ UNCHANGED <<ledger, invoice, window, orphan, block, releasing, generator, faults>>

\* The step that ends the run raises, its update made or not.
DecideFails(t) ==
  /\ Fault("run")
  /\ todo[t] = {}
  /\ Goto(t, "sum", "caught")
  /\ \/ EndRun(t, IF NothingToBill(t) THEN "completed" ELSE "deferred")
     \/ UNCHANGED <<run, lock>>
  /\ UNCHANGED <<ledger, invoice, window, orphan, block, releasing, generator>>

\* Wrong: every line is written again.
FindForgetsLines(g) ==
  /\ pc[g] = "find" /\ tries[g] < MaxTries
  /\ tries' = [tries EXCEPT ![g] = @ + 1]
  /\ todo' = [todo EXCEPT ![g] = Billable(g)]
  /\ \/ \E i \in Invoices :
          /\ key[i] = KeyOf(g)
          /\ Goto(g, "find", "items")
          /\ target' = [target EXCEPT ![g] = i]
     \/ /\ \A i \in Invoices : key[i] # KeyOf(g)
        /\ Goto(g, "find", "insert")
        /\ target' = [target EXCEPT ![g] = <<g, tries'[g]>>]
  /\ UNCHANGED <<ledger, invoice, billingRun, block, releasing, calc, faults>>

\* Wrong: the new invoice takes the id of the step's run before.
FindWithStaleId(g) ==
  /\ pc[g] = "find" /\ tries[g] < MaxTries
  /\ tries' = [tries EXCEPT ![g] = @ + 1]
  /\ Goto(g, "find", "insert")
  /\ target' = [target EXCEPT ![g] = <<g, tries[g]>>]
  /\ todo' = [todo EXCEPT ![g] = Billable(g)]
  /\ UNCHANGED <<ledger, invoice, billingRun, block, releasing, calc, faults>>

\* The invoice of the same key and its lines, or the id of a new one.
FindInvoice(g) ==
  /\ pc[g] = "find" /\ tries[g] < MaxTries
  /\ tries' = [tries EXCEPT ![g] = @ + 1]
  /\ \/ \E i \in Invoices :
          /\ key[i] = KeyOf(g)
          /\ Goto(g, "find", "items")
          /\ target' = [target EXCEPT ![g] = i]
          /\ todo' = [todo EXCEPT ![g] = {f \in Billable(g) : lines[i][f].items = 0}]
     \/ /\ \A i \in Invoices : key[i] # KeyOf(g)
        /\ Goto(g, "find", "insert")
        /\ target' = [target EXCEPT ![g] = <<g, tries'[g]>>]
        /\ todo' = [todo EXCEPT ![g] = Billable(g)]
  /\ UNCHANGED <<ledger, invoice, billingRun, block, releasing, calc, faults>>

\* The key is unique: an insert that comes second raises.
InsertInvoice(g) ==
  /\ pc[g] = "insert"
  /\ \/ /\ \A i \in Invoices : key[i] # KeyOf(g)
        /\ Goto(g, "insert", "items")
        /\ key' = [key EXCEPT ![target[g]] = KeyOf(g)]
        /\ status' = [status EXCEPT ![target[g]] = "open"]
        /\ total' = [total EXCEPT ![target[g]] = TotalEstimated(g)]
     \/ /\ \E i \in Invoices : key[i] = KeyOf(g)
        /\ Goto(g, "insert", "thrown")
        /\ UNCHANGED <<key, status, total>>
  /\ UNCHANGED <<ledger, lines, billingRun, block, releasing, generator, faults>>

\* An item refers to its invoice: the insert raises if somebody deleted that.
InsertItem(g, f) ==
  /\ pc[g] = "items" /\ f \in todo[g]
  /\ \/ /\ key[target[g]] # NoKey
        /\ Goto(g, "items", "items")
        /\ lines' = [lines EXCEPT ![target[g]][f] =
                       [items |-> @.items + 1, amount |-> @.amount + Rated(g, f).amount]]
        /\ todo' = [todo EXCEPT ![g] = @ \ {f}]
     \/ /\ key[target[g]] = NoKey
        /\ Goto(g, "items", "thrown")
        /\ UNCHANGED <<lines, todo>>
  /\ UNCHANGED <<ledger, key, status, total, billingRun, block, releasing, calc, target, tries,
                 faults>>

\* Without a transaction (D1) a failed insert deletes the invoice, if it is new.
ItemFails(g) ==
  /\ Fault("item")
  /\ todo[g] # {}
  /\ Goto(g, "items", "thrown")
  /\ IF target[g] = <<g, tries[g]>>
     THEN /\ key' = [key EXCEPT ![target[g]] = NoKey]
          /\ status' = [status EXCEPT ![target[g]] = "none"]
          /\ total' = [total EXCEPT ![target[g]] = 0]
          /\ lines' = [lines EXCEPT ![target[g]] = NoLines]
     ELSE UNCHANGED invoice
  /\ UNCHANGED <<ledger, billingRun, block, releasing, generator>>

ReadBack(g) ==
  /\ pc[g] = "items" /\ todo[g] = {}
  /\ Goto(g, "items", IF key[target[g]] = NoKey THEN "thrown" ELSE "mark")
  /\ todo' = [todo EXCEPT ![g] = Billable(g)]
  /\ UNCHANGED <<ledger, invoice, billingRun, block, releasing, calc, target, tries, faults>>

\* Wrong: what arrived after the window is marked too.
StampedToNow(g, f) ==
  [r \in Records |-> IF r \in UnbilledIn(f, clock) THEN target[g] ELSE stamp[r]]

\* markInvoiced: every unbilled record of the feature up to the window's end;
\* how many it stamped is not looked at.
Stamped(g, f) ==
  [r \in Records |-> IF r \in UnbilledIn(f, WindowEnd(g)) THEN target[g] ELSE stamp[r]]

MarkFeature(g, f) ==
  /\ f \in todo[g]
  /\ Goto(g, "mark", "mark")
  /\ stamp' = Stamped(g, f)
  /\ todo' = [todo EXCEPT ![g] = @ \ {f}]
  /\ UNCHANGED <<clock, created, stored, invoice, billingRun, block, releasing, calc, target,
                 tries, faults>>

MarkFails(g, f) ==
  /\ Fault("ledger")
  /\ f \in todo[g]
  /\ Goto(g, "mark", "unstamp")
  /\ stamp' \in {stamp, Stamped(g, f)}
  /\ UNCHANGED <<clock, created, stored, invoice, billingRun, block, releasing, generator>>

\* A request answers; a workflow goes on to collect.
Generated(g) ==
  /\ todo[g] = {}
  /\ Goto(g, "mark", IF g \in Workflows THEN "collect" ELSE "done")
  /\ UNCHANGED <<ledger, invoice, billingRun, block, releasing, generator, faults>>

\* voidInvoiceAfterLedgerFailure
ReleaseAfterFailure(g) ==
  /\ \/ /\ Goto(g, "unstamp", "void")
        /\ ReleaseUsage(target[g])
        /\ UNCHANGED faults
     \/ /\ Fault("ledger")
        /\ Goto(g, "unstamp", "thrown")
        /\ ReleaseUsage(target[g]) \/ UNCHANGED stamp
  /\ UNCHANGED <<clock, created, stored, invoice, billingRun, block, releasing, generator>>

VoidAfterFailure(g) ==
  /\ Goto(g, "void", "thrown")
  /\ status' = [status EXCEPT ![target[g]] = IF @ = "none" THEN @ ELSE "void"]
  /\ UNCHANGED <<ledger, key, total, lines, billingRun, block, releasing, generator, faults>>

-----------------------------------------------------------------------------
(* Failures of a step, and the end of a generator                              *)

\* The exception ends a request; the engine runs the step again, a few times.
Thrown(g) ==
  /\ \/ g \in Manual /\ Goto(g, "thrown", "done")
     \/ g \in Workflows /\ tries[g] < MaxTries /\ Goto(g, "thrown", "find")
     \/ g \in Workflows /\ tries[g] = MaxTries /\ Goto(g, "thrown", "caught")
  /\ UNCHANGED <<ledger, invoice, billingRun, block, releasing, generator, faults>>

RunStepAgain(w) ==
  /\ Fault("retry")
  /\ \/ /\ tries[w] < MaxTries
        /\ \E at \in {"insert", "items", "mark", "unstamp", "void", "collect"} :
             Goto(w, at, "find")
     \/ Goto(w, "sum", "read")
  /\ UNCHANGED <<ledger, invoice, billingRun, block, releasing, generator>>

RequestDies(m) ==
  /\ Fault("abort")
  /\ \E at \in GeneratorPC \ AtRest : Goto(m, at, "done")
  /\ UNCHANGED <<ledger, invoice, billingRun, block, releasing, generator>>

\* run's catch knows the invoice once its step has returned it.
CaughtInvoice(w) == IF pc[w] = "collect_caught" THEN target[w] ELSE NoInvoice

Caught(w) ==
  /\ Goto(w, "caught", "done") \/ Goto(w, "collect_caught", "done")
  /\ block' = IF w \in Threshold THEN <<CaughtInvoice(w), w>> ELSE block
  /\ EndRun(w, "blocked")
  /\ UNCHANGED <<ledger, invoice, window, orphan, releasing, generator, faults>>

\* The catch blocks the customer first and ends the run after.
CaughtFails(t) ==
  /\ Fault("run")
  /\ Goto(t, "caught", "lost") \/ Goto(t, "collect_caught", "lost")
  /\ \/ UNCHANGED <<block, run, lock>>
     \/ block' = <<CaughtInvoice(t), t>> /\ (EndRun(t, "blocked") \/ UNCHANGED <<run, lock>>)
  /\ UNCHANGED <<ledger, invoice, window, orphan, releasing, generator>>

\* The invoice is attached to the run and, with auto-collect, settled or not.
Collected(w) ==
  \/ /\ status[target[w]] \in {"open", "paid"}
     /\ status' = [status EXCEPT ![target[w]] = "paid"]
     /\ block' = IF w \in Threshold THEN NoBlock ELSE block
     /\ EndRun(w, "completed")
  \/ /\ status[target[w]] = "open"
     /\ block' = IF w \in Threshold THEN <<target[w], w>> ELSE block
     /\ EndRun(w, "blocked")
     /\ UNCHANGED status
  \/ /\ status[target[w]] \in {"void", "none"}
     /\ EndRun(w, "completed")
     /\ UNCHANGED <<status, block>>

Collect(w) ==
  /\ Goto(w, "collect", "done")
  /\ Collected(w)
  /\ UNCHANGED <<ledger, key, total, lines, window, orphan, releasing, generator, faults>>

\* A step raises: before or after all of it is done, or between the block and the run.
CollectFails(t) ==
  /\ Fault("run")
  /\ Goto(t, "collect", "collect_caught")
  /\ \/ Collected(t)
     \/ /\ UNCHANGED <<run, lock>>
        /\ \/ UNCHANGED status /\ block' \in {block, <<target[t], t>>}
           \/ /\ status[target[t]] = "open"
              /\ status' = [status EXCEPT ![target[t]] = "paid"]
              /\ block' \in {block, NoBlock}
  /\ UNCHANGED <<ledger, key, total, lines, window, orphan, releasing, generator>>

-----------------------------------------------------------------------------
(* What happens to an open invoice from outside                                *)

PayInvoice(i) ==
  /\ status[i] = "open"
  /\ status' = [status EXCEPT ![i] = "paid"]
  /\ EndBlock(i, "completed")
  /\ UNCHANGED <<ledger, key, total, lines, window, orphan, releasing, generator, pc, faults>>

\* releaseInvoiceToUnbilledUsage: the ledger first, the rows after.
StartRelease(i) ==
  /\ Releases
  /\ status[i] = "open"
  /\ ReleaseUsage(i)
  /\ releasing' = releasing \cup {i}
  /\ UNCHANGED <<clock, created, stored, invoice, billingRun, block, generator, pc, faults>>

FinishRelease(i) ==
  /\ i \in releasing
  /\ releasing' = releasing \ {i}
  /\ status' = [status EXCEPT ![i] = IF @ = "none" THEN @ ELSE "void"]
  /\ EndBlock(i, "deferred")
  /\ UNCHANGED <<ledger, key, total, lines, window, orphan, generator, pc, faults>>

-----------------------------------------------------------------------------
ThresholdStart(t) ==
  \/ Evaluate(t) \/ DecidePreview(t) \/ CreateRun(t) \/ CreateWorkflow(t)
  \/ LoadRun(t) \/ MarkRun(t)

Generate(g) ==
  \/ ReadUnbilled(g) \/ Decide(g)
  \/ FindInvoice(g) \/ InsertInvoice(g) \/ ReadBack(g) \/ Generated(g)
  \/ \E f \in Features : SumUsage(g, f) \/ InsertItem(g, f) \/ MarkFeature(g, f)
  \/ ReleaseAfterFailure(g) \/ VoidAfterFailure(g) \/ Thrown(g)

RunFault(t) ==
  \/ EvaluatorFails(t) \/ FailRunFails(t) \/ LoadFails(t) \/ MarkRunFails(t)
  \/ DecideFails(t) \/ CollectFails(t) \/ CaughtFails(t)

GenerateFault(g) ==
  CalculationFails(g) \/ ItemFails(g) \/ \E f \in Features : MarkFails(g, f)

Finished ==
  /\ \A g \in Generators : pc[g] \in AtRest
  /\ UNCHANGED vars

Next ==
  \/ \E r \in Records : Track(r) \/ Arrive(r)
  \/ \E t \in Threshold : ThresholdStart(t) \/ FailRun(t) \/ RunFault(t)
  \/ \E g \in Generators : Begin(g) \/ Generate(g) \/ GenerateFault(g)
  \/ \E w \in Workflows : Collect(w) \/ Caught(w) \/ RunStepAgain(w)
  \/ \E m \in Manual : RequestDies(m)
  \/ \E i \in Invoices : PayInvoice(i) \/ StartRelease(i) \/ FinishRelease(i)
  \/ Finished

Spec == Init /\ [][Next]_vars

\* The engine carries a created instance through its steps; an evaluation, once
\* begun, runs on in waitUntil.  Nothing obliges usage or a generator to begin.
Fairness ==
  /\ \A t \in Threshold : WF_vars(pc[t] # "idle" /\ ThresholdStart(t)) /\ WF_vars(FailRun(t))
  /\ \A w \in Workflows : WF_vars(Generate(w) \/ Collect(w) \/ Caught(w))

FairSpec == Spec /\ Fairness
-----------------------------------------------------------------------------
(* Properties *)

Live(i) == status[i] \in {"open", "paid"}

BilledAmount ==
  MapThenSumSet(LAMBDA i : IF Live(i) /\ i \notin releasing THEN total[i] ELSE 0, Invoices)

(* The invoices of a customer never ask for more than the usage costs, rated  *)
(* once: no unit is billed twice and no included unit is billed, however      *)
(* generation is retried, interrupted or repeated while usage arrives.        *)
NeverOverBilled ==
  BilledAmount <=
    MapThenSumSet(LAMBDA f : Amount(PricingOf[f], Cardinality(InFeature(f, clock))), Features)

(* When nobody is generating, the usage stamped with live invoices is what    *)
(* they bill for: nothing is stamped, and so lost to later invoices, that no  *)
(* invoice was issued for ("Usage before this timestamp is included").        *)
StampedIsBilled ==
  (\A g \in Generators : pc[g] \in AtRest) =>
    BilledAmount = MapThenSumSet(
      LAMBDA f : Amount(PricingOf[f], Cardinality({r \in Records : /\ FeatureOf[r] = f
                                                                   /\ stamp[r] # NoInvoice
                                                                   /\ Live(stamp[r])})), Features)

(* What the customer is asked to pay is the sum of the lines on the invoice,  *)
(* once they are written: a step run again adds the missing lines only.       *)
TotalIsLines ==
  \A g \in Generators : pc[g] \in {"mark", "collect"} =>
    total[target[g]] = MapThenSumSet(LAMBDA f : lines[target[g]][f].amount, Features)

\* From the moment its run is active to its last statement.
Instance(t) ==
  pc[t] \in GeneratorPC \ {"idle", "preview", "preview_sum", "create_run", "load", "done", "lost"}

(* The active lock admits one threshold workflow of a customer at a time.     *)
OneThresholdInstance ==
  \A s, t \in Threshold : Instance(s) /\ Instance(t) => s = t

(* Only an active run holds the lock: a finished one would keep every later   *)
(* overage of the customer from being collected.                              *)
LockMeansActive == \A t \in lock : run[t] \in {"pending", "processing"}

(* Usage billed by one invoice is never moved to another: it is released      *)
(* first (markInvoiced takes unbilled records only).                          *)
StampStays ==
  [][\A r \in Records : stamp[r] # NoInvoice => stamp'[r] \in {stamp[r], NoInvoice}]_vars

(* Every run gives the lock up, so later usage can be collected.  Lost are:   *)
(* a run whose evaluator fails after the insert or in its catch, one the      *)
(* workflow cannot load, and one whose catch cannot write.                    *)
LockGivenUp == \A t \in Threshold : t \in lock ~> t \notin lock \/ pc[t] = "lost"
=============================================================================
