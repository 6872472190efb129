--------------------------- MODULE SubscriptionSync ---------------------------
(***************************************************************************)
(* How the subscription rows of one customer and paid plan follow the      *)
(* provider's subscription: the events of the provider and their handlers  *)
(* (lib/webhooks/handlers/subscription-created.ts, subscription-status.ts, *)
(* charge-success.ts, charge-failed.ts), the reconciliation at the end of  *)
(* a period (lib/workflows/overage-billing.ts), and /check and /track,     *)
(* which read the rows through a cache, decide whether they grant access,  *)
(* and write what they find expired (routes/api/entitlements.ts,           *)
(* lib/dunning.ts, lib/cache.ts).  Paths are under apps/api/src.           *)
(***************************************************************************)
EXTENDS Naturals, FiniteSets

CONSTANTS
  MaxRows,    \* bound on the rows
  Handlers,   \* events handled at once
  Keys,       \* kinds of provider, by their first events: subset of {"code", "session", "reference"}
  Period,     \* length of a billing period
  Fallback,   \* the 30 days of handleSubscriptionCreated
  Stale,      \* PAID_SUBSCRIPTION_PERIOD_GRACE_MS
  Grace,      \* DUNNING_GRACE_MS
  Window,     \* how long the provider retries a failed renewal
  MaxDelay,   \* bound on the ticks an event is on its way
  Horizon,    \* bound on the time
  MaxMoves,   \* bound on what the provider does before it ends the subscription
  Faults,     \* subset of {"late", "again", "lost"}
  MaxFaults   \* bound on the faults

ASSUME SyncAssumption ==
  /\ MaxRows \in Nat /\ MaxDelay \in Nat /\ Horizon \in Nat /\ MaxMoves \in Nat /\ MaxFaults \in Nat
  /\ Period \in Nat \ {0} /\ Fallback \in Nat
  /\ Stale \in Nat /\ Grace \in Nat /\ Window \in Nat
  /\ Keys \subseteq {"code", "session", "reference"}

VARIABLES
  now,
  key,       \* the provider's kind, one of Keys
  provider,  \* its subscription
  covered,   \* end of what was ever paid for
  moves,
  pending,   \* events not delivered
  rows,      \* the table subscriptions
  handler,   \* the handlers at work
  cache,     \* the customer's rows in KV
  check,     \* a request to /check or /track and what it still has to write
  rec,       \* the reconciliation's steps
  hist,      \* which of {"late", "lost", "raced", "twice"} has happened
  faults

vars == <<now, key, provider, covered, moves, pending, rows, handler, cache, check, rec, hist,
          faults>>

Never == 0     \* no date
Start == 1     \* time begins with the subscription
Ids == 1 .. MaxRows
Live == {"active", "past_due", "pending_cancel"}  \* statuses of subscriptions_live_provider_code_uniq

Row == [status : Live \cup {"none", "canceled"}, code : {"sub", "ref"}, end : Nat,
        cancelAt : Nat, since : Nat, updated : Nat, ended : BOOLEAN]
NoRow == [status |-> "none", code |-> "sub", end |-> Never, cancelAt |-> Never,
          since |-> Never, updated |-> Never, ended |-> FALSE]
Rows == [Ids -> Row]

\* by: what handleChargeSuccess finds the row with.  plan: the event names the plan.
Event == [kind : {"payment", "created", "active", "past_due", "not_renew", "canceled"},
          by : {"plan_id", "code", "plan"}, end : Nat, paid : Nat, plan : BOOLEAN, batch : Nat]

Quiet == pending = {} /\ \A h \in Handlers : handler[h].pc = "idle"

Raise(fault) == faults < MaxFaults /\ fault \in Faults /\ faults' = faults + 1

-----------------------------------------------------------------------------
(* The table.                                                              *)

\* subscriptions_live_provider_code_uniq
Unique(rs) == \A i, j \in Ids : (i # j /\ rs[i].status \in Live /\ rs[j].status \in Live)
                                => rs[i].code # rs[j].code

\* updatedAt is read only while a row without a stamp is past due.
Touched(row) ==
  [row EXCEPT !.updated = IF row.status = "past_due" /\ row.since = Never THEN now ELSE Never]

\* An update that the index refuses raises, and the event is answered all the same.
Update(i, row) ==
  LET next == [rows EXCEPT ![i] = Touched(row)] IN rows' = IF Unique(next) THEN next ELSE rows

Found(statuses) == {i \in Ids : rows[i].status \in statuses}
\* Wrong: an event finds only a row in good standing
WrongByCode(code) == {i \in Found({"active"}) : rows[i].code = code}
ByCode(code) == {i \in Found(Live \cup {"canceled"}) : rows[i].code = code}
Free == Found({"none"})

-----------------------------------------------------------------------------
(* The provider.                                                           *)

Send(kind, by, end, plan) ==
  [kind |-> kind, by |-> by, end |-> end, paid |-> now, plan |-> plan, batch |-> moves + 1]

Move(status, end, failed, events) ==
  /\ provider' = [status |-> status, end |-> end, failed |-> failed]
  /\ pending' = pending \cup events
  /\ moves' = moves + 1
  /\ UNCHANGED <<now, key, rows, handler, cache, check, rec, hist, faults>>

\* A payment covers a period from the moment it is made, or up to the next payment.
Pays(end) == covered' = IF end > now + Period THEN end ELSE now + Period

Renewal(end) ==
  IF key # "reference" THEN {Send("payment", "plan_id", Never, TRUE), Send("active", "code", end, TRUE)}
  ELSE {}

\* The subscription is announced as active (Dodo), by the checkout session, without a
\* date (Stripe), or as created while its payment names only a reference (Paystack).
Announced ==
  CASE key = "code" -> Send("active", "code", now + Period, TRUE)
    [] key = "session" -> Send("created", "code", Never, TRUE)
    [] key = "reference" -> Send("created", "code", now + Period, TRUE)

Begin ==
  /\ provider.status = "none" /\ moves < MaxMoves
  /\ Pays(now + Period)
  /\ Move("active", now + Period, Never, {Send("payment", "plan_id", Never, TRUE), Announced})

Renew ==
  /\ provider.status = "active" /\ now = provider.end /\ moves < MaxMoves
  /\ LET end == provider.end + Period IN
       /\ Pays(end)
       /\ \/ key # "reference" /\ Move("active", end, Never, Renewal(end))
          \/ /\ key = "reference"
             /\ \E by \in {"code", "plan"} :
                  Move("active", end, Never, {Send("payment", by, end, TRUE)})

RenewalFails ==
  /\ provider.status = "active" /\ now = provider.end /\ moves < MaxMoves
  /\ Move("past_due", provider.end, now, {Send("past_due", "code", Never, key # "reference")})
  /\ UNCHANGED covered

Recover ==
  /\ provider.status = "past_due" /\ moves < MaxMoves
  /\ LET end == provider.end + Period IN
       /\ Pays(end)
       /\ Move("active", end, Never,
               IF key # "reference" THEN Renewal(end) ELSE {Send("payment", "code", end, TRUE)})

CancelAtEnd ==
  /\ provider.status = "active" /\ now < provider.end /\ moves < MaxMoves
  /\ Move("canceling", provider.end, Never, {Send("not_renew", "code", Never, key # "reference")})
  /\ UNCHANGED covered

Uncancel ==
  /\ provider.status = "canceling" /\ now < provider.end /\ moves < MaxMoves
  /\ Move("active", provider.end, Never,
          {Send("active", "code", IF key # "reference" THEN provider.end ELSE Never, key # "reference")})
  /\ UNCHANGED covered

\* Revoked by the merchant, at the end of the period, or given up after the retries.
End ==
  /\ \/ provider.status = "active"
     \/ provider.status = "canceling" /\ now = provider.end
     \/ provider.status = "past_due"
  /\ Move("canceled", provider.end, provider.failed,
          {Send("canceled", "code", Never, key # "reference")})
  /\ UNCHANGED covered

Provider == Begin \/ Renew \/ RenewalFails \/ Recover \/ CancelAtEnd \/ Uncancel \/ End

-----------------------------------------------------------------------------
(* The handlers.                                                           *)

Working == {h \in Handlers : handler[h].pc # "idle"}

\* Nothing the provider sent earlier is still on its way.
InOrder(e) ==
  /\ \A f \in pending : f.batch >= e.batch
  /\ \A h \in Working : handler[h].ev.batch = e.batch

Rest(h) == handler' = [handler EXCEPT ![h] = [pc |-> "idle"]]
Go(h, pc, e, i) ==
  handler' = [handler EXCEPT ![h] = [pc |-> pc, ev |-> e, id |-> i,
                                     snap |-> IF i \in Ids THEN rows[i] ELSE NoRow]]

\* findBestRecoverableSubscription, customer_link and status_event
Best ==
  LET ranks == <<"active", "pending_cancel", "past_due">>
      rank(i) == CHOOSE n \in 1 .. 3 : ranks[n] = rows[i].status
  IN {i \in Found(Live) : \A j \in Found(Live) : rank(i) <= rank(j)}

\* The rows a handler would find, each a possible answer of findFirst.
Targets(e) ==
  CASE e.kind = "payment" /\ e.by = "plan_id" -> Found({"active"})
    [] e.kind = "payment" /\ e.by = "plan" -> Found(Live)
    [] e.kind = "created" -> ByCode("sub")
    \* recoverSubscriptionForStatusEvent, when the code is not known
    [] OTHER -> IF e.plan /\ ByCode("sub") = {} THEN Best ELSE ByCode("sub")

Inserts(e) ==
  \/ e.kind = "payment" /\ e.by = "plan_id" /\ Targets(e) = {}
  \/ e.kind \in {"active", "created"} /\ e.plan /\ Targets(e) = {} /\ Found({"active"}) = {}

\* Rows that handleSubscriptionCreated gives the code it did not find.
Linked(e) ==
  IF e.kind \notin {"active", "created"} \/ Targets(e) # {} THEN {}
  ELSE IF e.plan THEN Found({"active"}) ELSE Best

Look(h, e) ==
  \/ /\ e.kind # "created"
     /\ \E i \in Targets(e) : Go(h, "write", e, i)
  \/ \E i \in Linked(e) : Go(h, "link", e, i)
  \/ Inserts(e) /\ Go(h, "insert", e, 0)
  \/ /\ ~Inserts(e) /\ Linked(e) = {}
     /\ Targets(e) = {} \/ e.kind = "created"
     /\ Rest(h)

\* The provider delivers until it is answered, and every event is answered.
Deliver(h, e) ==
  /\ handler[h].pc = "idle" /\ e \in pending
  /\ \A g \in Handlers : g < h => handler[g].pc # "idle"
  /\ Look(h, e)
  /\ \/ /\ InOrder(e)
        /\ pending' = pending \ {e}
        /\ UNCHANGED <<hist, faults>>
     \/ /\ InOrder(e) /\ Raise("again")
        /\ UNCHANGED <<pending, hist>>
     \/ /\ ~InOrder(e) /\ Raise("late")
        /\ hist' = hist \cup {"late"}
        /\ pending' = pending \ {e}
  /\ UNCHANGED <<now, key, provider, covered, moves, rows, cache, check, rec>>

\* A handler raises before its first write: logged, and answered 200.
Lose(e) ==
  /\ e \in pending /\ Raise("lost")
  /\ pending' = pending \ {e}
  /\ hist' = hist \cup {"lost"}
  /\ UNCHANGED <<now, key, provider, covered, moves, rows, handler, cache, check, rec>>

\* Wrong: the period is counted from the delivery
WrongPaidEnd(e) == now + Period
\* startMs + periodMs of handleSubscriptionPayment
PaidEnd(e) == e.paid + Period

\* markPastDueMetadata over the row as it was read
PastDueSince(snap) == IF snap.status = "past_due" THEN snap.since ELSE now

\* The columns an event sets in the row it found.
Updated(e, snap, row) ==
  CASE e.kind = "payment" /\ e.by = "plan_id" ->
         [row EXCEPT !.status = "active", !.end = PaidEnd(e), !.since = snap.since]
    [] e.kind = "payment" /\ e.by # "plan_id" ->
         [row EXCEPT !.status = "active", !.end = e.end]
    [] e.kind = "active" ->
         [row EXCEPT !.status = "active", !.end = IF e.end # Never THEN e.end ELSE row.end,
                     !.code = "sub"]
    [] e.kind = "past_due" ->
         [row EXCEPT !.status = "past_due", !.since = PastDueSince(snap)]
    [] e.kind = "not_renew" ->
         [row EXCEPT !.status = "pending_cancel", !.cancelAt = snap.end]
    [] e.kind = "canceled" ->
         [row EXCEPT !.status = "canceled", !.ended = TRUE]
    [] OTHER -> row

\* The update, and cache.invalidateSubscriptions after it.
WriteRow(h) ==
  /\ handler[h].pc = "write"
  /\ LET w == handler[h] IN Update(w.id, Updated(w.ev, w.snap, rows[w.id]))
  /\ cache' = {}
  /\ Rest(h)
  /\ UNCHANGED <<now, key, provider, covered, moves, pending, check, rec, hist, faults>>

LinkRow(h) ==
  /\ handler[h].pc = "link"
  /\ LET i == handler[h].id IN Update(i, [rows[i] EXCEPT !.code = "sub"])
  /\ cache' = {}
  /\ Rest(h)
  /\ UNCHANGED <<now, key, provider, covered, moves, pending, check, rec, hist, faults>>

\* The period of a new row: an event without a date gets 30 days, whatever the interval.
FirstEnd(e) ==
  CASE e.kind = "payment" -> PaidEnd(e)
    [] e.kind # "payment" /\ e.end # Never -> e.end
    [] OTHER -> e.paid + Fallback

NewRow(e) ==
  [NoRow EXCEPT !.status = "active", !.end = FirstEnd(e),
                !.code = IF e.kind = "payment" /\ key = "reference" THEN "ref" ELSE "sub"]

\* insert ... on conflict do nothing
InsertRow(h) ==
  /\ handler[h].pc = "insert"
  /\ LET e == handler[h].ev
         taken == Found(Live) \cap ByCode(NewRow(e).code) # {}
     IN \/ /\ ~taken /\ Free # {}
           /\ LET i == CHOOSE i \in Free : \A j \in Free : i <= j
              IN rows' = [rows EXCEPT ![i] = NewRow(e)]
           /\ hist' = IF Free = Ids THEN hist ELSE hist \cup {"twice"}
           /\ cache' = {}
           /\ Rest(h)
        \/ /\ taken
           /\ IF e.kind = "payment" THEN Go(h, "merge", e, 0) ELSE Rest(h)
           /\ UNCHANGED <<rows, cache, hist>>
  /\ UNCHANGED <<now, key, provider, covered, moves, pending, check, rec, faults>>

\* A payment that lost the insert renews the row that won.
MergeRow(h) ==
  /\ handler[h].pc = "merge"
  /\ LET e == handler[h].ev
         winners == ByCode(NewRow(e).code)
     IN \/ \E i \in winners :
             Update(i, [rows[i] EXCEPT !.status = "active", !.end = PaidEnd(e)])
        \/ winners = {} /\ UNCHANGED rows
  /\ cache' = {}
  /\ Rest(h)
  /\ UNCHANGED <<now, key, provider, covered, moves, pending, check, rec, hist, faults>>

Handle(h) == WriteRow(h) \/ LinkRow(h) \/ InsertRow(h) \/ MergeRow(h)

-----------------------------------------------------------------------------
(* Access, and what /check and /track write on the way.                    *)

\* getDunningState: the window opens with the stamp, or else with the last write
InGrace(row) == now <= (IF row.since # Never THEN row.since ELSE row.updated) + Grace

\* a scheduled cancellation past its date
CancelDue(row) == row.status \in {"active", "pending_cancel"}
                  /\ row.cancelAt # Never /\ row.cancelAt < now /\ ~row.ended
\* isPaidActivePastGracePeriod
PeriodStale(row) == row.status = "active" /\ now > row.end + Stale

\* Wrong: past_due grants for as long as the provider does not answer
WrongNoBackstop(row) == row.status \in Live /\ ~CancelDue(row) /\ ~PeriodStale(row)
\* filterAccessGrantingSubscriptions
Grants(row) == \/ row.status = "past_due" /\ InGrace(row)
               \/ row.status \in {"active", "pending_cancel"}
                  /\ ~CancelDue(row) /\ ~PeriodStale(row)

Entitled == \E i \in Ids : Grants(rows[i])

Canceled(rs) == {i \in Ids : CancelDue(rs[i])}
GoneStale(rs) == {i \in Ids : ~CancelDue(rs[i]) /\ PeriodStale(rs[i])}

\* The rows are read from the cache or the table; what is written is decided on them.
\* A read that finds nothing to write is left out: what it caches has nothing to write
\* either until the cache forgets it.
CheckRead ==
  LET seen == IF cache # {} THEN CHOOSE rs \in cache : TRUE ELSE rows
  IN /\ check.pc = "idle"
     /\ Canceled(seen) \cup GoneStale(seen) # {}
     /\ check' = [pc |-> "sweep", seen |-> seen, put |-> cache = {}]
     /\ UNCHANGED <<now, key, provider, covered, moves, pending, rows, handler, cache, rec, hist,
                    faults>>

\* In the background: the updates by id and the invalidation, and cache.setSubscriptions,
\* which no other request of the model tells from one made at the end, before or after
\* the invalidation.
CheckSweep ==
  /\ check.pc = "sweep"
  /\ LET cancels == Canceled(check.seen)
         stale == GoneStale(check.seen)
         next == [i \in Ids |->
                   CASE i \in cancels -> Touched([rows[i] EXCEPT !.status = "canceled", !.ended = TRUE])
                     [] i \in stale -> Touched([rows[i] EXCEPT !.status = "past_due"])
                     [] OTHER -> rows[i]]
     IN /\ rows' = IF Unique(next) THEN next ELSE rows
        /\ hist' = IF \A i \in cancels \cup stale : rows[i] = check.seen[i] THEN hist
                   ELSE hist \cup {"raced"}
  /\ cache' \in IF check.put THEN {{}, {check.seen}} ELSE {{}}
  /\ check' = [pc |-> "idle"]
  /\ UNCHANGED <<now, key, provider, covered, moves, pending, handler, rec, faults>>

Check == CheckRead \/ CheckSweep

-----------------------------------------------------------------------------
(* reconcileDuePaidSubscriptionPeriods: two steps of a workflow.           *)

RecLoad ==
  /\ rec.pc = "idle"
  /\ \E i \in Found({"active"}) :
       rows[i].end <= now /\ rec' = [pc |-> "fetch", id |-> i, snap |-> rows[i]]
  /\ UNCHANGED <<now, key, provider, covered, moves, pending, rows, handler, cache, check, hist,
                 faults>>

\* What fetchSubscription says of the row's code.
Answers(row) ==
  IF row.code = "ref" THEN {"error"}
  ELSE {"error"} \cup (CASE provider.status = "canceled" -> {"terminal"}
                         [] provider.status = "past_due" -> {"pending"}
                         [] provider.status = "canceling" -> {"active", "pending"}
                         [] OTHER -> {"active"})

\* An answer that leads to no update ends the reconciliation of the row.
RecFetch ==
  /\ rec.pc = "fetch"
  /\ \E answer \in Answers(rec.snap) :
       LET advanced == answer = "active" /\ provider.end > rec.snap.end
           verdict == IF answer = "error" \/ (answer = "active" /\ ~advanced)
                      THEN IF now > rec.snap.end + Stale THEN "stale" ELSE "none"
                      ELSE answer
       IN rec' = IF verdict = "none" THEN [pc |-> "idle"]
                 ELSE [pc |-> "write", id |-> rec.id, snap |-> rec.snap, verdict |-> verdict,
                       end |-> provider.end]
  /\ UNCHANGED <<now, key, provider, covered, moves, pending, rows, handler, cache, check, hist,
                 faults>>

\* maybeMarkPastDueIfStale decides on the row it loaded.
Reconciled(row) ==
  LET guarded == row.status = "active" IN
  CASE rec.verdict = "terminal" /\ guarded ->
         [row EXCEPT !.status = "canceled", !.ended = TRUE]
    [] rec.verdict = "pending" /\ guarded ->
         [row EXCEPT !.status = "pending_cancel", !.cancelAt = rec.snap.end]
    [] rec.verdict = "active" /\ row.end = rec.snap.end ->
         [row EXCEPT !.status = "active", !.end = rec.end]
    [] rec.verdict = "stale" /\ guarded ->
         [row EXCEPT !.status = "past_due"]
    [] OTHER -> row

RecWrite ==
  /\ rec.pc = "write"
  /\ LET row == rows[rec.id]
         new == Reconciled(row)
     IN \/ /\ new = row
           /\ UNCHANGED <<rows, cache, hist>>
        \/ /\ new # row
           /\ Update(rec.id, new)
           /\ cache' = {}
           /\ hist' = IF row = rec.snap /\ rec.end = provider.end THEN hist
                      ELSE hist \cup {"raced"}
  /\ rec' = [pc |-> "idle"]
  /\ UNCHANGED <<now, key, provider, covered, moves, pending, handler, check, faults>>

Reconcile == RecLoad \/ RecFetch \/ RecWrite

-----------------------------------------------------------------------------
\* The provider acts when a period or its retries are over; a handler, a request and a
\* reconciliation end, and the cache forgets, within a tick.
Tick ==
  /\ now < Horizon /\ provider.status # "none"
  /\ provider.status \in {"active", "canceling"} => now < provider.end
  /\ provider.status = "past_due" => now < provider.failed + Window
  /\ \A e \in pending : now < e.paid + MaxDelay
  /\ Working = {} /\ check.pc = "idle" /\ rec.pc = "idle"
  /\ now' = now + 1
  /\ cache' = {}
  /\ UNCHANGED <<key, provider, covered, moves, pending, rows, handler, check, rec, hist, faults>>

Init ==
  /\ now = Start /\ key \in Keys
  /\ provider = [status |-> "none", end |-> Never, failed |-> Never]
  /\ covered = Never /\ moves = 0 /\ pending = {}
  /\ rows = [i \in Ids |-> NoRow]
  /\ handler = [h \in Handlers |-> [pc |-> "idle"]]
  /\ cache = {} /\ check = [pc |-> "idle"] /\ rec = [pc |-> "idle"]
  /\ hist = {} /\ faults = 0

Next ==
  \/ Provider \/ Tick
  \/ \E h \in Handlers : Handle(h) \/ \E e \in pending : Deliver(h, e)
  \/ \E e \in pending : Lose(e)
  \/ Check \/ Reconcile

Spec == Init /\ [][Next]_vars

\* Time passes, every request, reconciliation and handler that has begun ends, and
\* the provider delivers an event until it is answered.
Fairness ==
  /\ SF_vars(Tick) /\ WF_vars(CheckSweep) /\ WF_vars(RecFetch \/ RecWrite)
  /\ WF_vars(\E h \in Handlers, e \in pending : Deliver(h, e))
  /\ \A h \in Handlers : WF_vars(Handle(h))
FairSpec == Spec /\ Fairness

-----------------------------------------------------------------------------
TypeOK ==
  /\ now \in Nat /\ key \in {"code", "session", "reference"} /\ covered \in Nat /\ moves \in Nat
  /\ provider \in [status : {"none", "active", "canceling", "past_due", "canceled"},
                   end : Nat, failed : Nat]
  /\ pending \subseteq Event /\ rows \in Rows
  /\ handler \in [Handlers -> [pc : {"idle"}] \cup
                    [pc : {"write", "link", "insert", "merge"}, ev : Event, id : Ids \cup {0},
                     snap : Row]]
  /\ cache \subseteq Rows
  /\ check \in [pc : {"idle"}] \cup [pc : {"sweep"}, seen : Rows, put : BOOLEAN]
  /\ rec \in [pc : {"idle"}] \cup [pc : {"fetch"}, id : Ids, snap : Row]
             \cup [pc : {"write"}, id : Ids, snap : Row, end : Nat,
                   verdict : {"terminal", "pending", "active", "stale"}]
  /\ hist \subseteq {"late", "lost", "raced", "twice"}
  /\ faults \in Nat

\* The first payment is on its way, or its handler at work.
FirstPaymentOpen ==
  \E e \in pending \cup {handler[h].ev : h \in Working} : e.kind = "payment" /\ e.batch = 1

(* However events are repeated, delayed or lost, and whatever handlers,    *)
(* requests and reconciliations do to each other, no row's period runs     *)
(* beyond what was paid for - but the 30 days of a row made from an event  *)
(* without a date (subscription-created.ts:304), and when events are       *)
(* handled once and in order those end with the handling of the payment    *)
(* (charge-success.ts, overage-billing.ts).                                *)
NoFreePeriod ==
  \A i \in Ids \ Free : rows[i].end > covered =>
    /\ key = "session" /\ rows[i].end = Start + Fallback
    /\ hist = {} => FirstPaymentOpen

\* The provider has not given the subscription up, and still tries to be paid.
ProviderServes ==
  \/ provider.status \in {"active", "canceling"}
  \/ provider.status = "past_due" /\ now <= provider.failed + Window

\* What no handler clears: the date of a cancellation that was withdrawn, or that the
\* reconciliation wrote while the provider retried a charge (overage-billing.ts:426-434),
\* and the stamp of an earlier failed renewal.
Leftover ==
  \E i \in Ids :
    \/ provider.status = "active" /\ rows[i].cancelAt # Never
    \/ provider.status = "past_due" /\ rows[i].since # Never /\ rows[i].since < provider.failed

(* When every event was handled once and in order, what /check answers is  *)
(* what the provider says, through renewals, failures, recoveries and      *)
(* cancellations: it serves until the end, leftovers aside, and not after. *)
FollowsProvider ==
  (Quiet /\ hist = {}) =>
    /\ ProviderServes => Entitled \/ Leftover
    /\ provider.status = "canceled" => ~Entitled

\* Time for one more window of grace for every row before the model's time ends.
TimeLeft ==
  /\ now + Period + Stale + MaxRows * (Grace + 1) < Horizon
  /\ now + Fallback + Stale + MaxRows * (Grace + 1) < Horizon

\* A row that was ended and then took an event of before the end: its canceledAt hides
\* the date of its cancellation from every sweep.
Reopened == \E i \in Ids : rows[i].status = "pending_cancel" /\ rows[i].ended

(* When the provider has ended the subscription the access ends, even if   *)
(* the event that says so is lost (the backstop of dunning.ts and the      *)
(* sweeps of entitlements.ts): no path grants for good.                    *)
AccessEnds ==
  (provider.status = "canceled" /\ TimeLeft) ~> (~Entitled \/ "late" \in hist \/ Reopened)
=============================================================================
