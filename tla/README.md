# TLA+ models of owostack's billing engine

owostack meters usage, grants entitlements and bills for what goes beyond a plan.
The interesting code is `apps/api/src`: Cloudflare Workers over a D1 database
without transactions, Durable Objects that serialize their own calls, Workflows
that run a failed step again, payment providers that time out after charging, and
webhooks delivered at least once, late and in any order. Nothing but conditional
updates, unique columns and idempotency keys keeps these actors apart. The models
here are about that.

Paths below are relative to `apps/api/src` in the repository.

## 1. Inventory

| Component | State | Operations | Meets whom, and what is hard | What makes it correct |
|---|---|---|---|---|
| **Invoice collection** (`lib/workflows/overage-billing.ts` from line 885, the pay route of `routes/api/billing.ts`, `invoice_payment` in `lib/webhooks/handlers/charge-success.ts`) | `invoices.status`, `payment_attempts`, the provider's charges and checkouts | claim, settle, charge, record, reopen, release, checkout, mark paid | workflows, requests and webhooks on one invoice; a charge whose answer is lost; steps run again | one charger at a time, one charge; paid means money and is final; no claim is left behind |
| **Usage invoicing** (`lib/billing.ts`, first half of the workflow) | invoices and items, stamps in the ledger | calculate, create under a key, insert items, stamp, void, release | three triggers over one pool of usage, six calls without a transaction, usage that keeps arriving | usage is billed once, included units never, what is stamped is on a live invoice |
| **Usage rating** (`lib/usage-rating.ts`) | none | packages, graduated and volume tiers, the difference of two ratings | flat fees and cheaper bands inside a difference | an invoice asks for what the units cost |
| **Threshold runs and overage blocks** (`lib/threshold-billing.ts`, `lib/billing-runs.ts`, `lib/overage-blocks.ts`) | `billing_runs` with unique `active_lock_key`, `customer_overage_blocks` | evaluate, create, mark, attach, complete, fail, block, defer, clear | concurrent evaluations after tracked overage; `workflow.create` that raises | one active run; the lock always given up; a block lifted with its invoice |
| **Usage ledger** (`lib/usage-ledger-do.ts`, `lib/usage-ledger.ts`) | one row per record, `invoice_id` | append, sum, mark invoiced, release | serialized, but each call answers null on failure, applied or not | a stamp is moved by release only |
| **Usage meter** (`lib/usage-meter.ts`) | balance, usage, limit, last reset, rollover per feature | check, track, configure, reset, alarm | lazy configuration by every caller; resets by alarm and by call; death between two writes | no more is served than limit and rollover; a reset happens once a period |
| **Check and track** (`routes/api/entitlements.ts`, `lib/overage-guards.ts`, `lib/customer-access.ts`) | none of its own: D1, meter, ledger, cache | track, check, check with sendEvent | reserve, guard, consume, persist: four stores in a row, the last asynchronous | a denied request costs nothing; what is served is recorded; caps hold |
| **Credits** (`charge-success.ts`, `lib/addon-credits.ts`, `routes/api/addon.ts`) | `credit_purchases`, its ledger, balances | buy, apply, deduct | duplicate webhooks, retries of half-applied purchases | a purchase is applied once and completed |
| **Plan switch and cancellation** (`lib/plan-switch.ts`, `lib/cancel-downgrade-claim.ts`, `lib/workflows/downgrade.ts`, `plan-upgrade.ts`, `cancel-downgrade.ts`) | subscription rows, their metadata, entitlements, the provider's subscriptions | upgrade, downgrade, cancel, claim | route, webhooks and workflows on copies of one row; a crash after a claim | one free subscription per cancellation; the plan is never lost on the way |
| **Trial end and renewal setup** (`lib/workflows/trial-end.ts`, `renewal-setup-retry.ts`, `lib/renewal-setup.ts`) | the row, its metadata, the provider's charges and subscriptions | charge, activate, set up renewal, retry, expire | the customer decides while the workflow sleeps; whole-column writes of metadata | what is canceled is not charged, what is charged is kept, nothing is free |
| **Subscriptions following the provider** (`lib/webhooks/handlers/subscription-*.ts`, `charge-*.ts`, `lib/dunning.ts`, `lib/subscription-health.ts`, reconciliation in `overage-billing.ts`) | subscription rows, grace windows | one handler per event, reconcile, sweep | events late, lost, again and two at once; sweeps that decide on cached rows | access follows what was paid and ends |
| **Customers** (`lib/customers.ts`, `lib/customer-resolution.ts`, `lib/customer-auto-plans.ts`, `routes/dashboard/customers.ts`) | customers with two unique indexes, cache entries under many names | resolve or create, assign plans, delete | concurrent first requests; background writes of the cache that outlive a deletion | one customer per identity, plans once, a name leads to its customer |
| **Catalog and provider objects** (`lib/plan-sync.ts`, `lib/plan-provider-sync.ts`, `lib/credit-pack-*.ts`, `routes/api/sync.ts`, dashboard) | price and provider ids of a row, plans and products at the provider | sync, edit, connect, sell | read, call, write back in concurrent requests | the provider charges the listed price; nothing sold that lost the race |
| **Caches** (`lib/cache.ts`) | KV entries with a lifetime | get, set, invalidate | entries filled after the write that invalidates them | part of the two rows above |
| **Schedule** (`index.ts`, `lib/overage-billing-interval.ts`) | next billing period per customer | cron, queue, instance ids | overlapping cron runs | not modelled |
| **Webhook ingress** (`routes/webhooks.ts`) | none | verify, dispatch, answer 200 even when a handler raised | the provider never repeats what was answered | in the models of the handlers: a raised handler loses its event |
| **Adapters, authentication, dashboard queries, packages, web applications** | none | HTTP calls, queries, pages | | not modelled: input and output rather than protocol |

The hazards of this code, each at its line, are the `hazards` of `PROJECT.json`.
The properties were chosen from that list.

## 2. Plan

Each module is parameterised by constants with named assumptions, has one action per
D1 statement, Durable Object call or provider call, and declares no RECURSIVE operator.

Done: `InvoiceCharge` and the abstract `InvoiceCollection` it implements,
`UsageInvoicing` over `UsageRating`, `UsageMeter`, the abstract `Quota` it implements,
and `TrackFlow` over it, `CreditPurchase`, `PlanSwitch`, `TrialConversion`,
`SubscriptionSync`, `CustomerIdentity`, `CatalogSync`; proofs about each, and of
`UsageRating` what every price model asks for, and that it grows with the usage, volume
tiers apart.

To come, in this order:
1. Schedule: the cron, the queue and the instance ids of period-end workflows, over
   `UsageInvoicing`. To show: no period is skipped, none is started twice.
2. What can be proved of `StampedIsBilled` and `NeverOverBilled`, which the runs check for threshold evaluations only.
3. Plan changes that the provider makes itself, refunds of purchases, manual grants, and the renewal
   without metadata (`handleAutoRenewal`) beside plan switches.

## 3. The modules

### InvoiceCharge and InvoiceCollection

The rows of one customer's invoices, their succeeded payment attempts and the overage
block, shared by workflow instances (`Workflows`, of which `ThresholdWorkflows` own a
billing run), pay requests (`Requests`), and webhooks. `pc[p]` is the next statement of a
process, `inv[p]` the invoice it was started for. An action `Wf...` is one statement of
the workflow's steps `claim-invoice-for-charge`, `charge-card-attempt-n`,
`record-payment` and of `completeThresholdRun`/`blockThresholdRun`; an action `Req...`
one statement of the pay route or of `releaseInvoiceToUnbilledUsage`. `WfCommitClaim` and `WfCommitRecord`
are the moments the engine persists a step's result: between the last statement and this
moment a step can still be run again. The provider is three variables: accepted
charges, the hosted checkout, and events not yet delivered.

`Faults` selects failures and `MaxFaults` bounds them: a charge that goes through and
times out, a statement that raises, a step run again, a result lost after its statement,
retries exhausted, a request that dies, a webhook that swallows its error. `DedupesReference` tells providers that charge a reference
once from those that do not, `MinimumMayRise` lets a request find the invoice below the
minimum of its provider, `HostedCheckout` lets it fall back to a link.

`InvoiceCollection` is what all this promises: someone takes an open invoice, one at a
time; money arrives; the invoice is paid or given back; paid is final. `InvoiceCharge`
maps its program counters to the holders (`HoldersOf`) and its provider to the money, and
`CollectsAsPromised` says that it implements the abstract specification.

Not in the model: amounts and currencies, failed attempts (never read again), dunning
notices, choice of provider.

### UsageInvoicing and UsageRating

Usage records (`created`, `stored`, `stamp`) are tracked with a creation instant
taken in the worker and reach the ledger at once (`Punctual`) or later (`Arrive`). Generators
are manual requests, period-end and threshold workflows. They read the unbilled
units (`ReadUnbilled`), then each feature's cumulative usage (`SumUsage`), find or
insert the invoice of their key, insert items, read back and stamp, one call at a
time; a failing call releases and voids as the code does. Threshold generators first
evaluate, create a run under the active lock and start their instance. The run has failures of
its own, the fault "run": its evaluator ends after the insert (`EvaluatorFails`) or cannot write in its
catch (`FailRunFails`), the workflow cannot load the run, so that its catch has none to end (`LoadFails`), marking it, deciding
on it or completing it raises for good, written or not (`MarkRunFails`, `DecideFails`, `CollectFails`), or the
workflow's catch cannot write (`CaughtFails`). A generator that ends so that its run may stay as it was is `lost`. An invoice's
identity is its generator and the run of the step, so that a step run again makes a new
id as the code does. `PricingOf` gives a feature its price, and a line asks for the
difference of two ratings (`UsageRating`): all usage, less what was invoiced before.

`UsageRating` is the pure part: packages rounded up, graduated and volume tiers with flat
fees, included units, and the difference. `MCUsageInvoicing` compares it with a reference
for all small usages: graduated tiers price every unit by its own band
(`GraduatedUnitByUnit`), volume tiers price all units by the band of the last (`VolumeByLastUnit`);
section 6 proves it for every table and usage.

Collection is the one action `Collect` (and `PayInvoice`, the two steps of a
release): `InvoiceCharge` has its statements. The step that marks a run processing
and the look at auto-collect after it are one action, `MarkRun`: nothing else reads the
run between them. Billing periods are one.

### UsageMeter and Quota

The Durable Object of one customer: `usage` and `config` are its two maps, `alarm` its
only alarm. Input gates let no other call in while one awaits storage, so a call is one
action, built from operators named for the methods: `SyncConfig` is `configureFeature`
with lazy, `ConfigureFeature` without, `MaybeReset`, `ResetFeature` and `Scheduled` are
the methods of these names. `Check` and `Track` sync the configuration they carry, reset
an elapsed period and then look or consume. Times are kept relative to now (`age` since
the last reset, `alarm` until it is due), in ticks of the second by which an overdue alarm is
put off; ages beyond the longest interval are not told apart (`MaxAge`). The `Crash...`
actions are the object dying between `persist` and the `setAlarm` after it; the two
writes of `persist` become durable together, as storage coalesces writes without an
await on I/O between them. `ceiling`, `carried` and `consumed` of a state are history for
`ConsumedWithinGrant`. A scope key is legacy or versioned, with the subscription and
plan it names. Not in the model: the usage model's name, and calls without a
configuration, which begin like `Check` and `Track` from the stored one.

`Quota` is what all this promises of each feature: an allowance of a limit and what was carried
into the period, served at most once over (`Within`); a limit that only rises until the
period ends or the allowance is begun anew; the next period only when one of the feature's periods has
passed since the last began (`Refill`), with no more carried than was left and
than a configuration lets carry; an allowance begun anew only for features with a
configuration that says so (`Grant`). `UsageMeter` maps `ceiling`, `carried`, `consumed` and
`age` to it, and `QuotaKept` says that it implements the abstract specification.
`Quota` knows no calls, no alarm and no stored configuration.

### TrackFlow

Requests of one customer for one feature, in one reset period (no tick, no alarm), over
the operators of `UsageMeter`. `req[r].pc` is the next await of a request. A /track
reserves prepaid credits by a guarded update, asks the guard of usage_based features, the
meter, the ledger and the configuration for a meter that does not know the feature, the
meter again, the track of what is left of the plan, the overage guard, the add-on's
guarded update, and answers. A /check with sendEvent (kind "send") looks first and
configures on a first look; what fits is reserved and then tracked whole (`Commit`), and
when the meter has changed its mind the reservation is given back or add-on credits pay
for all of it (`Fallback`); what only plan and credits together cover is consumed part by
part; what would be overage is answered `overage_allowed` and nothing is recorded.
A request of kind "access" is the read of `customer-access.ts`. `parts` is the coverage
of `splitUsageCoverage`, `unsent` the segments still to be appended, `ledger` what was.
`Raise` is an awaited call that fails without effect, the second disjunct of `Reply` one
that took effect and whose reply is lost; a track ends in its catch, which releases the
reservation, a check does not give it back. `AppendRaises` is a failed attempt that may
have reached the ledger. The overage guard reads block, card and spending cap besides the
unit cap; they are its free choice to deny. The reads at the start of a request are one action.

### CreditPurchase

The credit packs of one customer. The provider makes events of paid checkouts and delivers them
until answered and now and then again; deliveries of one payment run concurrently, one
action per statement of `handleCreditPurchase`: look for the purchase, insert it under
its unique reference, insert the ledger row, recompute the balance as the sum of the
ledger, mark it completed. Faults are a statement that raises (the handler is logged and
answered 200) and a delivery that dies (it is not answered). `Spend` is the guarded deduction by requests.

### PlanSwitch

Subscription rows with plan, status, provider code and the parts of the metadata that
matter, the provider's subscriptions, and what each customer is entitled to. Actors are
requests of /attach, cancellations by the dashboard, webhook deliveries and the three
workflows, started by what they answer to; each reads its row once and works on
that copy. An action is one statement or one provider call. `Claim` is
`claimCancelDowngrade`'s conditional update. Codes may be the sentinels `upgrade` and `downgrade` that the workflows insert
under. The event of a paid checkout is delivered up to `MaxDeliveries` times, each delivery on its own. That of an
upgrade starts the workflow or, when `workflow.create` raises, does its work inline
(`upgradeInline`, `LinkInline`); both decide on the link by the row as it was loaded (`Load`, `NeedsLink`).
That of a new plan either inserts the row (and takes over the one that has its code, `Reopen`)
or renews the row it finds: `Renew` writes status and metadata as they were read, so that it may
erase a claim or bring a canceled row back, and `ReviveRefused` is the unique index that stops this when another
live row has the code. History: `lost` are rows whose claim such a write erased, `crossed` customers whose
switches overtook one another, `gaveUp` those whose workflow or handler ended at a unique index.
Faults are a call the provider refuses and an actor that dies. Only for
providers without a native plan change; lateral switches, one-time plans, past_due and
refunds are left out, as are steps run again after inserting and renewals without metadata, whose
`handleAutoRenewal` writes the status of a row but no metadata.

### TrialConversion

One card trial from its start to an active, canceled or expired subscription.
`TrialEndWorkflow` wakes, checks that the trial still stands, charges under a reference,
makes the provider subscription, activates; where the provider subscription cannot be made
it schedules `RenewalSetupRetryWorkflow`, whose runs (`Retries`) try again, give up or find the job
done. `Requests` cancel, downgrade and start retries by hand. Metadata is one JSON
column: every process holds the copy it read and writes all of it back. Faults are a lost
answer, a restarted step, a refusal by the provider, and a workflow step run again. Left
out: the provider's own trials.

### SubscriptionSync

The rows of one customer and paid plan next to the provider's subscription, in abstract
time. The provider renews, fails to renew, retries, recovers, schedules and withdraws a
cancellation, and ends; each move puts events under way that arrive late (`MaxDelay`),
and, as faults, later than others, again, or never. Up to
`Handlers` events are handled at once, first read, then write (`Handle`). /check reads the
rows through the cache, decides whether they grant (`Grants`: status, period, stale-period grace, dunning
grace) and writes the sweeps; the reconciliation at a period's end reads, asks the provider
and writes. Providers are of three kinds (`Keys`), by what they announce a subscription with: an event "active" with
its code and date (Dodo), the event of a checkout session with its code and no date (Stripe), or the
event "created" after a payment that knows only a reference (Paystack). A row made from an event without a date gets 30 days whatever
the plan's interval (`Fallback`). Polar and Bachs announce by "created" with code and date; what their events do is done by those of the
first and the third kind, and they are no kind of their own.
`covered` and `hist` are history: what was paid for, and whether events were late, lost or made two rows, or rows changed under a sweep.

### CustomerIdentity

Customers with id, own id and mail; a cache with entries under every name (`AliasesOf`);
writes of the cache under way in the background. Requests name a customer by id, own id
or mail, and create on a miss (`Lookup`, `Insert`, `Conflict`, `LookupAgain`), with the
automatic plans as their last step; payment events and the dashboard's form insert by
themselves; a deletion reads, deletes the row and drops the entries. Left out: references and
metadata of the provider, the contents of backfilled names and metadata, own ids that contain "@", KV's own
delay beyond the background writes.

### CatalogSync

One plan or credit pack: its price, provider and the id of its object there. Actors run the
CLI's sync, the dashboard's edit, the connection of a provider or a checkout; each reads
the row, calls the provider (create, update; `Rotating` ones make a new object for a new price,
`Bare` ones have no products for packs) and writes back, conditionally where the code does.
`sold` is the object that checkouts used. Left out: creating and deleting rows, which no unique index guards, plans
turned one-time, a pack's provider set back to none, archived prices.

### MC modules and mutants

A module `MC...` holds what a configuration cannot write: records, functions and
symmetry sets. A definition whose comment begins with "Wrong:" is a plausible bug in the
definition after it; no specification uses it. It is there to be exchanged for the right
one, and `PROJECT.json` names the property that then fails.

## 4. Runs

| Run | Shows | Bounds |
|---|---|---|
| `charge_faults` | card charged at most once while nothing fails; with any failure, paid means money and stays so | one invoice, two workflows (one threshold), two requests, one failure of any kind |
| `charge_live` | recorded payments are not charged again; collecting ends; all of it implements `InvoiceCollection` | two workflows, one request, two failures out of timeout, raised statement, step retry |
| `invoicing_threshold` | billed once, stamped is billed, total is lines, one instance | two threshold evaluations, four records of two features (graduated tiers with one included; packages), two failures of an item or a retry, three runs of a step |
| `invoicing_faults` | the lock is given up, but by a run that is lost; stamps stay | one manual and one threshold generator, a late record, volume prices, releases, three failures of every kind, those of the run's own statements included |
| `meter_resets` | no more is served than granted, the alarm comes before every reset, a due feature is reset unless calls put the alarm off for ever; all of it implements `Quota` | two features with two configurations each (limit, period, cost, scope, legacy and versioned key, unlimited; one feature is never granted anew), periods of one and two ticks, one crash, usage up to 3 |
| `track_requests` | credits conserved, the plan's limit, what is served is recorded | two requests (track, check with sendEvent or access) of 1 or 3 units, two of the plan's three already used, one bonus, one add-on and three prepaid credits, three kinds of plan, meter known or not, three failed calls |
| `credits_purchases` | no completed purchase loses a credit, none is applied twice, what is paid is completed | three payments of one pack each in two systems, two deliveries at a time, one repeat of an answered event, two faults, one credit spent |
| `switch_races` | one free subscription per cancellation, switching never takes the plan away, entitlements never come before their subscription | one customer, four rows, three codes, two actors at a time, three plans, two requests, two deliveries of every event, one fault; rows and codes are taken in order (`InOrder`) |
| `trial_converts` | what is paid is kept, what was canceled is not charged, nothing is free, every trial and scheduled renewal ends | two retries, one request, three codes, one fault of four kinds |
| `sync_follows` | access follows the provider, no period is free but the 30 days of a checkout session before its first payment, access ends | three kinds of provider, two rows, two handlers, period 2, fallback 3, stale 1, grace 2, window 1, delay 1, fourteen ticks, three moves of the provider, one fault |
| `customers_first` | nobody is made twice, plans are given once, a name leads to its customer | three requests and one deletion, two at a time, two mails that differ by case, one own id, one assignment that raises |
| `catalog_syncs` | the provider charges the listed price, nothing is sold that lost the race | prices 1 to 3 of which one is below the minimum, one rotating and one bare provider, two actors at a time, four requests, three objects, one fault |

One invoice is enough for collection, because processes share state only through the
invoice and the customer's block. Two chargers of each kind are the least that can
compete; a third finds a state one of the two can leave. Usage invoicing needs two evaluations to
have a second window and a record to fall between them; with one included
unit and three of a feature the allowance is crossed inside a window. A meter needs two features to compete for the alarm and two
configurations for a change; limit 1, rollover 1 and usage up to 3 are the least that
exceeds a grant. Two requests are the least that race, and with one unit of the plan
left both want the one add-on credit. Three payments let two share a system while the third
must not disturb them. Four rows are the original, an upgrade, a downgrade and a free
subscription of one customer. Unused rows and unused codes are alike, so that every behaviour has a permutation that takes
them in a fixed order: `InOrder` leaves only that one, as a symmetry set would, which TLC would be slower with. A fallback of 3 is longer than the
period of 2, as 30 days are than a week. Fourteen ticks hold a failed renewal, its window of grace, the
stale-period backstop and the end. Two requests that make the same customer and a third that
is served from the cache after a deletion are the least for `ServesOwner`. Three prices let
a sync, an edit and a checkout disagree pairwise. The limits on requests, moves and
failures keep the runs finite; where a theorem of section 6 covers the property, it holds without them.

What holds only under conditions is said by the constants and in the properties' comments. Stamped usage equals billed
usage for `Punctual` records and without ledger failures; a collecting invoice has
someone working on it unless a result is lost, a request dies or retries are exhausted; a paid link
settles unless the webhook swallows its error. `AlarmCovers` and `DueIsReset` hold until
the object dies before setting its alarm, and `DueIsReset` unless calls put a due alarm off again and again (`PutOff`). `LockGivenUp` exempts a run
whose evaluator or workflow ended without being able to write (`lost`), by name: nothing in the code ends it. `OneFreePerCancellation` exempts rows whose claim
one of three writers of old metadata erased (`lost` of `PlanSwitch`). `NoFreePeriod` exempts the 30 days of a checkout session, until its first payment is handled.
What is exempt is what the code then gets wrong, so that no property here would catch it: see section 7. `PlanWithinLimit` excludes two configurations of one meter
and a meter that a read of the customer's access configured without the ledger.
`NeverOverBilled` and `StampedIsBilled` are checked with threshold evaluations alone: they say that step retries and failing inserts
bill nothing twice, and nothing of late records, releases or a second kind of generator.
A payment whose handler raised, a row changed
under a sweep, events that overtake one another, and a price change whose sync failed or
died are exempt where section 7 says what then happens.

Type invariants that are proved are not checked again by the runs, but for `TypeOK` of `UsageInvoicing`, which says that every
run and invoice has something to bill.

## 5. Fairness

The Workflows engine resumes an instance until it ends; a request handler and a
background evaluation run on unless they die, which is a fault, never fair; the
provider delivers an event until it is acknowledged. Hence weak fairness on a process's
next statement and on deliveries that acknowledge. Nothing obliges a customer to pay a link, usage to
arrive or a generator to begin. The clock of the meter ticks. The platform delivers a due alarm that is left in place, which is weak
fairness and no more: a call that changes the configuration puts an overdue alarm off by a second
(`usage-meter.ts:513`), and such calls may do so for ever. `DueIsReset` therefore speaks of behaviours in
which they stop. A request to /track or /check runs on, and `waitUntil`
keeps the worker alive for the appends.

`CreditPurchase`: a delivery goes on (weak), and an event that is not answered is delivered
again although every slot is busy now and then (strong). `TrialConversion`: a workflow
wakes at its time, workflows and retries go on, the queue is written and dispatched, the
provider ends what has an end (all weak). `SubscriptionSync`: time passes in spite of
everything that happens in an instant (strong); events are delivered and handled, and a sweep or a reconciliation
that has begun ends (weak). Nothing obliges anybody to call /check or a reconciliation to begin.

A failure is never fair and their number is bounded:
the liveness properties say what happens once failures stop.

## 6. Proofs

For every set of invoices, processes, records, features, rows, names or prices, and every bound:

| Module | Theorem | Says | Under |
|---|---|---|---|
| `InvoiceChargeProofs` | `TypeCorrect` | well typed | |
| | `ClaimExclusive` | one claimer of an invoice | no lost results |
| | `SettledInvoiceSafe` | nobody is about to charge an invoice with a recorded payment | no lost results |
| | `ChargedOnce` | an invoice is charged at most once | no failure |
| | `ChargedOnceThroughCrashes` | the same, with crashes, declines, retries and late webhooks | no timeout, no statement that raises after its effect, no lost results |
| | `PaymentStands` | paid never becomes open or collecting | |
| | `PaidMeansMoney` | paid invoices have a charge or a paid checkout | |
| | `CollectionImplemented` | `InvoiceCharge` implements `InvoiceCollection` | no lost results |
| (`CreditPurchase`) | `PurchaseTyped` | well typed; a delivery has a payment while it runs | |
| | `CreditsArrive` | the packs of a completed purchase are in the balance or spent | |
| | `CreditsArePaidFor` | no balance exceeds the packs paid for | |
| `UsageInvoicingProofs` | `InvoicingTyped` | well typed, and amounts are numbers, for any pricing | |
| | `LinesMakeTheTotal` | a written invoice's total is the sum of its lines | no two manual and no two period-end generators with one key |
| | `InvoicesWithinUsage` | no single invoice asks for more than all usage there is costs, with any generators, failures, late records and releases | no volume prices |
| (`UsageRating`) | `GraduatedPriced` | graduated tiers price each unit by the tier that holds it, and add the flat fee of each tier reached | `Ascending` tiers |
| | `VolumePriced` | volume tiers price all units by the tier that holds the last, and add its flat fee | `Ascending` tiers, some billable usage |
| | `PackagePriced` | packages ask for the least number that holds the units | |
| (`UsageInvoicing`) | `LockHeldByActive` | the active lock belongs to pending or processing runs | |
| | `OneInstance` | one threshold workflow at a time | `workflow.create` does not raise, and no step of a run raises for good |
| | `StampsStay` | stamped records move by release only | |
| `UsageMeterProofs` | `TypeCorrect` | well typed, no state without configuration | |
| | `ServedWithinGrant` | between two grants no more is served than limit and rollover | |
| | `AlarmBeforeReset` | the alarm comes no later than any reset | the object did not die before setting it |
| | `QuotaIsKept` | `UsageMeter` implements `Quota` | |
| (`TrackFlow`) | `CreditsAreConserved` | credits are taken only by requests that run or were allowed, none is made, none lost | none lost: no call failed |
| | `PlanIsWithinLimit` | requests together consume no more of the plan than was left | one configuration of the meter, and from the ledger |
| `PlanSwitchProofs` | `TypeCorrect` | well typed, actors work on rows that exist | |
| | `ClaimedOnce` | a cancellation makes at most one free subscription | its claim is not erased by `handleDowngrade`, a renewal or the end of an upgrade |
| | `EntitledToOwnPlans` | entitlements are of a plan the customer has had | |
| | `PlanIsKept` | no overlap of switches and cancellations leaves a customer without a subscription | the exceptions of `PlanNeverLost` |
| `TrialConversionProofs` | `TypeCorrect` | well typed | |
| | `CompletionIsReal` | a renewal called complete has a provider subscription | |
| | `NothingForFree` | an active subscription renews at the provider or has an end | |
| | `PaidIsKept` | a charged trial does not expire | no failure |
| | `CanceledIsFree` | a trial canceled before its workflow looked is not charged | no stale copy written back, see `CanceledNotCharged` |
| `SubscriptionSyncProofs` | `TypeCorrect` | well typed | |
| | `NothingUnpaid` | no event, sweep or reconciliation gives a period that was not paid for, but the 30 days of a checkout session; with events in order these end with the first payment | |
| | `AccessFollows` | access is what the provider says, through renewals, failures, recoveries and cancellations | `Retries`; events handled in order, as the property says |
| (`CatalogSync`) | `CatalogTyped` | well typed | |
| | `SoldWasLinkedEver` | a checkout sells only what the row has carried | |
| | `PricedAsShown` | once nobody is at work, the provider charges the listed price | no edit failed or crossed another |
| `CustomerIdentityProofs` | `TypeCorrect` | well typed | |
| | `OneCustomerEver` | no two customers for one identity | |
| | `PlansOnceEver` | the maker gives the plans, once | the assignment does not raise |
| | `ServesOwnerEver` | a request is answered with the customer its name belongs to | |

The conditions are those of the properties themselves, or a hypothesis of the theorem about the failures
(`Faults`) and generators that take part; the assumptions on the constants are the named ones of the modules.

`Sums` holds what the proofs need of `MapThenSumSet`, `Max` and `Min` over finite sets: a sum over a set is that over
the set less one element plus its value; sums of numbers are numbers, grow with their terms and with the set; a sum whose one
term changes, changes by as much. They are proved by induction over finite sets, stated with the set of the subsets for
which a fact holds in place of a predicate: a predicate as a parameter cannot be instantiated here.

**Collection.** `OneHolder` is not inductive: a second process may claim an invoice that is open while it
is held. `ClaimInv` adds that a held invoice is not open, and that a process past
its look at the attempts (`Committed`) has no recorded payment before it; a step's effect on the claims is
summed up in `ClaimStep` (who may take, give up, record), each action is shown to be a
`ClaimStep`, and one lemma shows that such steps keep `ClaimInv`. `PaidStaysSettled` follows from the
guards of the updates. For `PaidIsBacked`, `BackedInv` carries the evidence along the
program counters: an undelivered event, a recorded attempt and a process past an accepted charge each
imply a charge or a paid checkout. With both, every step maps to a step of `InvoiceCollection`
or leaves state, holders and money as they are. `ChargedOnce` counts: an invoice that is open, or claimed by a process that has
not charged yet, has no charge at all, and only the one claimer charges. Three kinds of failure break this, each by letting a process forget that it or another has
charged; with all the others it still holds, which is `ChargedOnceThroughCrashes`.

**Purchases.** Every purchase row has a payment, every ledger row a purchase, and a purchase past the insert of its ledger row has one
(`PurchaseRows`, `LedgerRows`, `DeliveryRows`). For each system `Backing` bounds the balance by the packs of the ledger, which are of distinct payments,
and `Covered` says that the balance and what was spent make up at least the packs of the purchases whose balance was recomputed: a
recomputation sets the balance to the sum of the whole ledger, so that it never takes back what another delivery gave.

**Invoicing.** `LockMeansActive` needs `ControlOK`, which ties a run's status to the
program counter of its workflow. `OneThresholdInstance` needs `HolderInv`: every instance holds the lock,
one run at most holds it, and the run a block names has ended, so that lifting the block frees
nobody else's lock. The types need more than types: that a calculation which goes on to an invoice has something to bill, so that its window has
dates (`Max` and `Min` of no records are not numbers), and that the loop over tiers of `GraduatedBreakdown`
never adds a negative amount.
`TotalIsLines` says that a total read once is that of lines inserted one by one, later, by a step that may have been run again meanwhile.
Its invariant relates every row to the calculation it came from: the windows of threshold runs are distinct, so that nobody else finds a generator's key
(`WindowInv`); a generator has one row at a time (`OneRow`); the row's total and each line in it are those of the generator's one calculation (`RowOK`), and
what the loop over the lines has left are those not written (`TargetOK`). Two requests, or two period-end workflows, whose windows end
at the same record share a key, and the second adds its lines to the first one's invoice: hence the hypothesis.

`InvoicesWithinUsage` asks nothing of who bills or what fails. Usage is only ever added, so no calculation counted more than there is now (`Counted`);
what a feature costs rises with its usage (`AmountRises`: packages by division, graduated tiers by comparing the loops for two quantities tier by tier);
and the difference of two ratings is no more than the second. It says nothing of two invoices together: the runs show that threshold evaluations
alone never bill usage twice, and section 7 how other generators beside them do.

**Rating.** `Ascending` is what `validatePricingTiers` lets into the catalog: bounds rise, and only the last tier may have none. The loop takes the last
tier past its bound if it has one. So each unit is held by one tier (`TierHolds`) and the tiers below it lie wholly under it (`BoundsRise`). The reference, `UnitByUnit`, adds up unit
after unit, and the loop over tiers fills each tier as far as it goes: one unit more changes one line, that of its tier, by the unit's price, and by the
flat fee if the unit is the tier's first (`GraduatedNext`), which is what it adds to the reference (`UnitByUnitNext`). The
induction is over the set of quantities for which both agree.

**Meter.** `ConsumedWithinGrant` needs `WithinGrant`: what was tracked *and what is left* are within
the grant, the rollover left is within the rollover carried, and a state without limit
was granted without limit (a non-lazy configuration may leave it in place). The proof
follows the operators instead of the actions: `Sound` of a feature is kept by granting,
resetting, syncing and consuming, `WellFormed` of the object by the methods, and
`Covered` is established anew by whatever schedules the alarm. Time passing keeps
`Covered` because a wait and the alarm shrink together.

`QuotaIsKept` follows the operators too. A call makes of its feature's state either the same, or one that `Begins`, `GoesOn` or
`CarriesOver` (`Steps`), and of the others nothing (`Advances`). The two looks at the period in one call, in `SyncConfig` and
after it, make one reset at most, since a feature just reset is not due (`ViewedTwice`). A configuration that begins the period again leaves nothing
due, so that a reset in the same call finds the age and the consumption of the state the call began with (`SyncedCarries`): one call
is one step of `Quota`, never two. What is carried over was left: `WithinGrant` bounds consumption and rest together
(`ResetCarries`). An alarm refills several features in one step. The meter needs one more invariant, `Offered`: it stores only configurations and limits it was called with.

**Track.** Each action lets one request go on (`Goes`), and the totals of what is held, taken and served
over all requests change by what that one request's part changes. So `CreditsConserved` is an equation per request and
a lemma about sums. For `PlanWithinLimit`, what was metered and what the meter has left make at most what remained of the limit (`PlanLeft`);
whoever is about to configure the meter found it empty, and if it no longer is, another request configured it (`PlanHeld`, `Careful`).

**Plan switch.** `ClaimInv` has three parts: whoever is about to make the free subscription holds
the claim, at most one does, and what was made was claimed. A claim is only ever taken by the conditional update, so
that a second claimer finds it. `EntitledWasHeld` needs `HeldInv`: an actor that is ready to provision a plan has a row of that plan. For `PlanNeverLost`, `KeepInv`
says that a customer has a subscription, or an actor at work owes one (`Owing`): whoever ends the last row is such an actor, except where the
property's exemptions begin. That needs to know that who cancels has asked for it (`AskedFirst`), that an active row is not claimed (`Unclaimed`), that the
row of a cancellation stays canceled, and claimed after its claim (`StaysCanceled`), and that what a new subscription replaces is of another plan (`NewRows`).
A payment that lost the race of the insert takes the row with its code, whichever that is: `CodesFit` says that a code belongs to one plan wherever it stands,
in rows, copies and checkouts, so that this row is of the plan that was paid.

**Trial.** Every process may write back a copy of the metadata. `LinkInv` therefore speaks of the copies too: a
copy that says "complete" was read from, or is about to be written to, a row that has a provider
subscription, and a code once linked is not unlinked. `NothingForFree` follows the end date along the activation and the setup.
For `PaidNotExpired`, `PaidInv`: once the trial is charged the workflow goes on only to steps that keep the subscription, and nothing but the workflow expires it.
For `CanceledNotCharged`, `StopInv`: a trial stopped in time keeps the status or the end that says so in the row, and the workflow looks at both before it charges; only a
run of the renewal setup clears that end, and those begin when the trial is over.

**Subscription.** `NoFreePeriod` needs that whatever *carries* a date - a row, a cached row, an event under way, the
copy of a handler or of the reconciliation - carries one that was paid for (`PaidFor`) or the 30 days of a checkout session (`Allowed`), which
only the first event of such a provider can give (`FromSession`), and
that what is paid for only grows. That the 30 days end with the first payment is the part `FirstPaid` of the next invariant.

`FollowsProvider` looks at a moment when nothing is under way; its invariant `Follows` says what holds on the way there, as long as no fault and no overlap
is on record (`hist = {}`). The customer has one row (`OneRow`), and handlers are at work on the oldest events not handled, one of which, if any, is of the provider's
last move (`InTurn`); what they read stays true until they write (`AllDoing`). Until an event names the code of the subscription to the row, one that will is
open (`Linking`). The period of the provider has reached the row, or an open event carries it and no open event of the same or a later move has a shorter one (`Ends`):
that is why the order of payment and renewal does not matter. And the row says what the provider says, or the event of its last move is open (`Newest`). With nothing open
both say that the row is right, and the clock (`Times`) that neither the grace for a stale period nor the window of grace is over while the provider serves.
A sweep or a reconciliation writes over a row only where that is so (`Sweeps`, `Reading`).

The clock needs `Retries`: `Window <= Grace`, which `dunning.ts:10` claims ("deliberately longer than any provider's recovery window", 45 days against four
weeks), and `Window <= Period + Stale`, since what a recovery pays for is the period that follows the failed one's end, and `/check` refuses an active row whose period has been
over for 72 hours. The second holds for monthly and longer plans; for a weekly plan and a provider that retries for four weeks it does not, and the
theorem says nothing of those. Only the part about access (`Newest`) needs `Retries`; `NothingUnpaid` does not. Both are needed: with either one dropped TLC finds `FollowsProvider` violated on a small instance.

**Customers.** The invariant says what entries and pending writes mean: each stands under a name of the customer it
holds; no two live customers answer to one name; an entry of a deleted customer is about to be dropped
or was brought back late, and a late one is never served because the row is looked up. `OneCustomer` itself follows from the two unique
indexes and the one spelling of mails; `PlansOnce` from the insert that only one request wins.

**Catalog.** The id in the row is among those ever linked, so is what was sold, and whoever is about to link holds an
object it made (`Kept`). For `PricedAsListed`, requests that race are of two kinds. An edit first writes the row and then sees to the
object; from its write to its link it is *pending* and the row already shows its price (`Fits`), whatever the object is. While no edit
is pending (`Settled`), the row's object has the row's price, or there is none and each
checkout or connection at work asks for the row's price, so that it does not matter which of them links first. The invariant `Agree` says this, that at most one
edit is at work, and which edits have nobody beside them (`Solo`: the dashboard's edit of a plan, which makes no object, and a pack set to a provider without products);
what makes these false sets `apart`.

Model-checked only:
- `StampedIsBilled` and `NeverOverBilled`, with threshold evaluations alone, punctual usage, no releases, and failures of inserts and steps only.
  TLC finds the first violated as soon as any of these is dropped. With volume tiers `NeverOverBilled` is not to be expected: a later rating
  can be cheaper than an earlier one that was rightly billed.
- Liveness under fairness, and ENABLED, which are out of the prover's reach: `CollectingResolves`, `LockGivenUp`, `DueIsReset`, `ServedIsRecorded`,
  `PaidIsCompleted`, `TrialEnds`, `ScheduledResolves`, `AccessEnds`.

## 7. Where the code differs from its own words

Met while modelling. The properties above hold beside them; each is left out by a
constant or an exemption that the property's comment names.

Collection and invoicing
- A pay request whose charge is accepted and whose next statement raises reopens the invoice with no attempt on record; the next request charges again (`routes/api/billing.ts:908`; the test `billing-pay-invoice.test.ts:100` expects one charge).
- The claim step run again after its result was lost finds the invoice collecting and returns: nobody collects or releases it (`overage-billing.ts:1079`).
- An invoice can be released while a workflow charges it (`lib/billing.ts:821`, against the comments at 824 and 841).
- A webhook whose update raises is answered 200: the paid checkout leaves its invoice open.
- A period end and a threshold run bill the same usage under two keys (`lib/billing.ts:630`); a step run again after a ledger failure finds the void invoice by its key and stamps usage with it (520).
- A run keeps the active lock for good, and later overage is not collected, when the evaluator ends between inserting it and `workflow.create` (`threshold-billing.ts:103`) or cannot write in its catch (125), when the workflow's load steps are exhausted, because the catch then has no run to end (`overage-billing.ts:1324`), or when that catch cannot write. `LockGivenUp` leaves these out by name (`lost`).
- Volume prices that fall in a cheaper band make the difference of two ratings negative: it is refused as below the minimum or issued so, and the customer has paid more than `volume-pricing.mdx:9` says. A volume breakdown lists the full amount.
- The daily cron, the only sender of period-end workflows, takes customers with an active row whose end has passed (`index.ts:346`, 396). A paid renewal that moves the end on before midnight, or a row canceled or past due by then, is never due: that overage waits for a threshold run, a manual invoice or a later due date, where `subscriptions/billing.mdx:129` says it "is billed at the end of the period". A `workflow.create` that fails is logged and its message acknowledged. Read in the source, not checked by a run.

Check, track, credits
- A call with a changed configuration sets an alarm that is due to a second later (`usage-meter.ts:513`): such calls, often enough, keep a feature that is not used from being reset.
- /check with sendEvent answers `overage_allowed` and records nothing (`entitlements.ts:2183`), where `check.mdx:36` says "if access is allowed, record `value` atomically". It charges no prepaid credits for what bonus credits cover, where /track does, does not give a reservation back when the meter raises (2304), and books usage paid by add-on credits after a race as plan usage (2320).
- The plan's part of a request that the guard or the add-on then denies stays consumed (`entitlements.ts:3726`; `track.mdx:143` says nothing is recorded).
- The unit cap is read before usage is recorded: concurrent tracks pass it together (`overage-guards.ts:415`; `overage.mdx:82` calls it hard).
- Two first tracks configure the meter twice and the second configuration forgets the usage of the first (`entitlements.ts:3701`). A refund that raises loses the credits (3524).
- A purchase sets the balance to the sum of all purchases, where spending records nothing: spent credits come back (`charge-success.ts:996`; `credits.mdx:150`).

Subscriptions
- The provider's cancellation that an upgrade causes comes back as `subscription.canceled` and gives the customer the free plan's entitlements (`subscription-status.ts:300`; `plan-switching.mdx:30`). A second customer's downgrade finds the sentinel code taken by a unique index after its old subscription was canceled (`workflows/downgrade.ts:258`; `plan-switching.mdx:49`). Three writers may put old metadata over the claim of a cancellation, which then makes a second free subscription: `handleDowngrade`, the renewal of `handleSubscriptionPayment`, which also brings a canceled row back (`charge-success.ts:1218`), and the end of an upgrade, which takes metadata read back as text for none.
- Trial: two retries make two provider subscriptions (`renewal-setup-retry.ts:342`); a reference the provider refuses the second time leaves a charged trial expired; the retry's activation clears the end of a subscription canceled meanwhile; `trials.mdx:167` says past_due where the code expires.
- The reconciliation counts past_due among the pending statuses and writes a cancellation in the past, which no later event clears: a customer whose retry succeeded is refused (`overage-billing.ts:426`, `entitlements.ts:1525`; `check.mdx:108`). A cancellation withdrawn at the provider leaves its date (`subscription-status.ts:186`).
- `past_due_since` is never cleared, and sweeps do not stamp it: a second failure has the first one's window (`dunning.ts:83`). A late event revives a canceled row. A first payment under a reference and the subscription's own event make two rows. A row made from an event without a date, as Stripe's checkout session is, has 30 days whatever the plan's interval (`subscription-created.ts:304`): the first payment sets it right, and until then, or if it is lost, a weekly plan is served beyond what was paid.

Customers and catalog
- A request that names a new own id with the mail of an existing customer is given that customer, and the own id is not kept (`customers.ts:150`; `track.mdx:45`, `checkout.mdx:63`). The dashboard stores mails as typed, so that they are not found and a second customer is made (`routes/dashboard/customers.ts:79`). A customer whose automatic plans raised, or who was made by an event or by /attach, never gets them (`catalog.mdx:552`). A webhook that loses the race to insert a customer loses its event (`charge-success.ts:122`).
- A price change whose provider call fails, or whose sync dies, is not repaired by the next sync (`sync.ts:739`). A change of the provider alone does nothing, one together with the price sends the old provider's id to the new one (`sync.ts:762`). A PATCH below the minimum answers 400 after storing the price (`dashboard/plans.ts:472`). Concurrent lazy syncs make a second object at the provider, although `plan-sync.ts:19` says never.

## 8. Not modelled

The cron and the queue of `index.ts`; entities and the path of check and track without a
meter; scoping and analytics of the ledger; the provider's own plan changes and trials;
refunds, card updates and one-time purchases; manual grants and the wallet; the views and
updates of customers. For good: provider adapters, authentication and encryption, dashboard
queries, the web applications and the client packages - no protocol between actors, or code
that only formats and forwards.
