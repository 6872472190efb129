--------------------------- MODULE TrialConversion ---------------------------
(***************************************************************************)
(* The end of one card trial of a recurring plan: TrialEndWorkflow charges *)
(* the saved card and turns the subscription into a paid one,              *)
(* RenewalSetupRetryWorkflow makes the provider subscription that could    *)
(* not be made at once, and customers and operators cancel, downgrade and  *)
(* retry meanwhile (apps/api/src/lib/workflows/trial-end.ts,               *)
(* renewal-setup-retry.ts and routes/dashboard/subscriptions.ts).  The     *)
(* row's metadata is one JSON column: whoever changes a part of it writes  *)
(* the rest as it was read.                                                *)
(***************************************************************************)
EXTENDS Naturals, FiniteSets

CONSTANTS
  Retries,      \* runs of RenewalSetupRetryWorkflow
  Requests,     \* requests of the API and the dashboard, each used once
  Codes,        \* codes of subscriptions that the provider makes
  TrialCode,    \* the placeholder code trial-... of the row
  NoCode,
  NoMeta,       \* nothing read
  Repeats,      \* how the provider answers a reference it has charged:
                \* subset of {"same", "refused"}
  Faults,       \* subset of {"lost", "restart", "refuse", "rerun"}
  MaxFaults     \* bound on the faults

Ends == {"trialEnd", "periodEnd"}
Meta == [charge : {"none", "processing", "succeeded", "failed"},
         setup : {"none", "scheduled", "failed", "complete"}, sched : BOOLEAN]

ASSUME TrialAssumption ==
  /\ TrialCode \notin Codes /\ NoCode \notin Codes \cup {TrialCode}
  /\ NoMeta \notin Meta
  /\ MaxFaults \in Nat

VARIABLES
  time,      \* "trial", "period" once the trial is over, "over" after the paid period
  sub,       \* the row of subscriptions
  charges,   \* charges of the card
  provider,  \* live provider subscriptions
  used,      \* codes given out
  wf,        \* TrialEndWorkflow
  retry,     \* the runs of RenewalSetupRetryWorkflow
  req,       \* the requests
  ends,      \* cancel-downgrade and downgrade workflows that sleep
  inTime,    \* a cancellation was stored before the workflow looked
  overtaken, \* a request wrote back what had changed since it was read
  faults

vars == <<time, sub, charges, provider, used, wf, retry, req, ends, inTime, overtaken, faults>>

Delays == 3          \* RENEWAL_SETUP_RETRY_DELAYS_MS
ChargeAttempts == 3  \* MAX_CHARGE_ATTEMPTS

Row == [status : {"trialing", "active", "canceled", "expired"},
        cancelAt : Ends \cup {"none"}, end : Ends,
        code : Codes \cup {TrialCode}, meta : Meta]

WfSteps == {"sleep", "check", "cancel", "auth", "load", "processing", "charge", "succeeded",
            "failed", "lookup", "create", "activate", "startRetry", "recordScheduled",
            "recordFailed", "expire", "done"}
RetrySteps == {"unused", "wait", "read", "recover", "create", "fail", "giveUp", "save", "done"}
Kinds == {"cancel", "cancelNow", "downgrade", "retry"}
ReqSteps == {"new", "write", "dispatch", "done"}

Idle == [pc |-> "unused", left |-> 0, seen |-> sub, code |-> NoCode]

TypeOK ==
  /\ time \in {"trial", "period", "over"}
  /\ sub \in Row
  /\ charges \in Nat
  /\ provider \subseteq used /\ used \subseteq Codes
  /\ wf \in [pc : WfSteps, seen : Meta \cup {NoMeta}, tries : 0..ChargeAttempts - 1,
             code : Codes \cup {NoCode}]
  /\ retry \in [Retries -> [pc : RetrySteps, left : 0..Delays + 1, seen : Row,
                            code : Codes \cup {NoCode}]]
  /\ req \in [Requests -> [pc : ReqSteps, kind : Kinds, seen : Row]]
  /\ ends \subseteq [kind : {"cancel", "downgrade"}, at : Ends]
  /\ inTime \in BOOLEAN /\ overtaken \in BOOLEAN
  /\ faults \in 0..MaxFaults

(* A trial with a card on file whose workflow sleeps until its end.        *)
Init ==
  /\ time = "trial"
  /\ sub = [status |-> "trialing", cancelAt |-> "none", end |-> "trialEnd",
            code |-> TrialCode,
            meta |-> [charge |-> "none", setup |-> "none", sched |-> FALSE]]
  /\ charges = 0 /\ provider = {} /\ used = {}
  /\ wf = [pc |-> "sleep", seen |-> NoMeta, tries |-> 0, code |-> NoCode]
  /\ retry = [r \in Retries |-> Idle]
  /\ req \in [Requests -> [pc : {"new"}, kind : Kinds, seen : {sub}]]
  /\ ends = {} /\ inTime = FALSE /\ overtaken = FALSE /\ faults = 0

-----------------------------------------------------------------------------
Real(row) == row.code \in Codes
HasIssue(row) == row.meta.setup \in {"failed", "scheduled"}

Reached(at) == IF at = "trialEnd" THEN time # "trial" ELSE time = "over"

Fault(kind) == kind \in Faults /\ faults < MaxFaults /\ faults' = faults + 1

(* A subscription at the provider. *)
Make(k) == k \in Codes \ used /\ provider' = provider \cup {k} /\ used' = used \cup {k}

WfAt(step) == wf.pc = step
WfGoto(step) == wf' = [wf EXCEPT !.pc = step]

(* What a step of the workflow leaves alone. *)
WfOnly == UNCHANGED <<time, retry, req, ends, inTime, overtaken>>
NoCharge == UNCHANGED <<charges, provider, used>>

Tick ==
  /\ \/ time = "trial" /\ time' = "period"
     \/ time = "period" /\ sub.status # "trialing" /\ time' = "over"
  /\ UNCHANGED <<sub, charges, provider, used, wf, retry, req, ends, inTime, overtaken, faults>>

-----------------------------------------------------------------------------
(* TrialEndWorkflow.                                                       *)
WfWake ==
  /\ WfAt("sleep") /\ time # "trial" /\ WfGoto("check")
  /\ WfOnly /\ NoCharge /\ UNCHANGED <<sub, faults>>

\* Wrong: the cancellation is not looked at.
WfCheckStatusOnly ==
  /\ WfAt("check")
  /\ WfGoto(IF sub.status # "trialing" THEN "done" ELSE "auth")
  /\ WfOnly /\ NoCharge /\ UNCHANGED <<sub, faults>>

(* check-subscription-status: a downgrade takes over, a cancellation ends  *)
(* the trial.                                                              *)
WfCheck ==
  /\ WfAt("check")
  /\ WfGoto(CASE sub.status # "trialing" -> "done"
              [] sub.status = "trialing" /\ sub.cancelAt = "none" -> "auth"
              [] OTHER -> IF sub.meta.sched THEN "done" ELSE "cancel")
  /\ WfOnly /\ NoCharge /\ UNCHANGED <<sub, faults>>

(* expire-canceled-trial, whatever the status is by now. *)
WfCancel ==
  /\ WfAt("cancel") /\ WfGoto("done")
  /\ sub' = [sub EXCEPT !.status = "canceled"]
  /\ WfOnly /\ NoCharge /\ UNCHANGED faults

\* Wrong: without a card nothing is done.
WfAuthSilent ==
  /\ WfAt("auth") /\ (WfGoto("load") \/ WfGoto("done"))
  /\ WfOnly /\ NoCharge /\ UNCHANGED <<sub, faults>>

(* A card, an address, an amount and an account, or the trial expires. *)
WfAuth ==
  /\ WfAt("auth") /\ (WfGoto("load") \/ WfGoto("expire"))
  /\ WfOnly /\ NoCharge /\ UNCHANGED <<sub, faults>>

(* load-trial-conversion-charge-state *)
WfLoad ==
  /\ WfAt("load")
  /\ WfGoto(IF sub.meta.charge = "succeeded" THEN "lookup" ELSE "processing")
  /\ WfOnly /\ NoCharge /\ UNCHANGED <<sub, faults>>

(* The steps that record something in the metadata: a SELECT, ...          *)
WfReadMeta ==
  /\ wf.pc \in {"processing", "succeeded", "failed", "recordScheduled", "recordFailed"}
  /\ wf.seen = NoMeta
  /\ wf' = [wf EXCEPT !.seen = sub.meta]
  /\ WfOnly /\ NoCharge /\ UNCHANGED <<sub, faults>>

(* ... and an UPDATE with what was read.                                   *)
WfWriteMeta ==
  LET Written(updated, step) ==
        /\ sub' = [sub EXCEPT !.meta = updated]
        /\ wf' = [wf EXCEPT !.pc = step, !.seen = NoMeta]
  IN  /\ wf.seen # NoMeta
      /\ CASE WfAt("processing") -> Written([wf.seen EXCEPT !.charge = "processing"], "charge")
           [] WfAt("succeeded") -> Written([wf.seen EXCEPT !.charge = "succeeded"], "lookup")
           [] WfAt("failed") -> Written([wf.seen EXCEPT !.charge = "failed"], "expire")
           [] WfAt("recordScheduled") -> Written([wf.seen EXCEPT !.setup = "scheduled"], "done")
           [] WfAt("recordFailed") -> Written([wf.seen EXCEPT !.setup = "failed"], "done")
      /\ WfOnly /\ NoCharge /\ UNCHANGED faults

(* The next attempt of the charge, unless it was the last. *)
NextTry ==
  IF wf.tries + 1 < ChargeAttempts
  THEN wf' = [wf EXCEPT !.tries = @ + 1]
  ELSE WfGoto("failed")

(* charge-card-attempt under the one reference trial-conversion:<row>. *)
WfCharge ==
  /\ WfAt("charge")
  /\ \/ charges = 0 /\ charges' = 1 /\ WfGoto("succeeded")
     \/ charges > 0 /\ "same" \in Repeats /\ WfGoto("succeeded") /\ UNCHANGED charges
     \/ charges > 0 /\ "refused" \in Repeats /\ NextTry /\ UNCHANGED charges
  /\ WfOnly /\ UNCHANGED <<sub, provider, used, faults>>

(* Declined: for good, or worth another attempt. *)
WfDeclined ==
  /\ WfAt("charge") /\ (NextTry \/ WfGoto("failed"))
  /\ WfOnly /\ NoCharge /\ UNCHANGED <<sub, faults>>

(* The card is charged and the answer, or the step's result, is lost. *)
WfChargeLost ==
  /\ WfAt("charge") /\ charges = 0 /\ charges' = 1
  /\ \/ Fault("lost") /\ NextTry
     \/ Fault("rerun") /\ UNCHANGED wf
  /\ WfOnly /\ UNCHANGED <<sub, provider, used>>

(* lookup-plan-customer: a plan or customer code may be missing. *)
WfLookup ==
  /\ WfAt("lookup") /\ (WfGoto("create") \/ WfGoto("activate"))
  /\ WfOnly /\ NoCharge /\ UNCHANGED <<sub, faults>>

\* Wrong: a renewal that cannot be set up expires the trial.
WfCreateOrExpire ==
  /\ WfAt("create")
  /\ \/ \E k \in Codes : Make(k) /\ wf' = [wf EXCEPT !.pc = "activate", !.code = k]
     \/ WfGoto("expire") /\ UNCHANGED <<provider, used>>
  /\ WfOnly /\ UNCHANGED <<sub, charges, faults>>

(* create-provider-subscription: made, refused to the end, or made and     *)
(* asked for again.                                                        *)
WfCreate ==
  /\ WfAt("create")
  /\ \/ \E k \in Codes : Make(k) /\ wf' = [wf EXCEPT !.pc = "activate", !.code = k]
        /\ UNCHANGED faults
     \/ WfGoto("activate") /\ UNCHANGED <<provider, used, faults>>
     \/ (\E k \in Codes : Make(k)) /\ Fault("rerun") /\ UNCHANGED wf
  /\ WfOnly /\ UNCHANGED <<sub, charges>>

\* Wrong: without a provider subscription the row has no end.
WfActivateForGood ==
  /\ WfAt("activate")
  /\ sub' = IF sub.status # "trialing" THEN sub
            ELSE [sub EXCEPT !.status = "active", !.end = "periodEnd", !.cancelAt = "none",
                             !.code = IF wf.code = NoCode THEN @ ELSE wf.code]
  /\ WfGoto(IF wf.code = NoCode THEN "startRetry" ELSE "done")
  /\ WfOnly /\ NoCharge /\ UNCHANGED faults

(* activate-subscription: without a provider subscription the row ends     *)
(* with its period.                                                        *)
WfActivate ==
  /\ WfAt("activate")
  /\ sub' = IF sub.status # "trialing" THEN sub
            ELSE [sub EXCEPT !.status = "active", !.end = "periodEnd",
                             !.cancelAt = IF wf.code = NoCode THEN "periodEnd" ELSE "none",
                             !.code = IF wf.code = NoCode THEN @ ELSE wf.code]
  /\ WfGoto(IF wf.code = NoCode THEN "startRetry" ELSE "done")
  /\ WfOnly /\ NoCharge /\ UNCHANGED faults

StartRetry(r, delays) ==
  /\ retry[r].pc = "unused"
  /\ retry' = [retry EXCEPT ![r].pc = "wait", ![r].left = delays]

(* RENEWAL_SETUP_WORKFLOW.create, which may raise. *)
WfStartRetry ==
  /\ WfAt("startRetry")
  /\ \/ \E r \in Retries : StartRetry(r, Delays) /\ WfGoto("recordScheduled")
        /\ UNCHANGED faults
     \/ Fault("refuse") /\ WfGoto("recordFailed") /\ UNCHANGED retry
  /\ NoCharge /\ UNCHANGED <<time, sub, req, ends, inTime, overtaken>>

(* expire-subscription, expire-no-provider, expire-charge-failed. *)
WfExpire ==
  /\ WfAt("expire") /\ WfGoto("done")
  /\ sub' = IF sub.status = "trialing" THEN [sub EXCEPT !.status = "expired"] ELSE sub
  /\ WfOnly /\ NoCharge /\ UNCHANGED faults

(* The instance is started over: its steps run again, from the first.      *)
WfRestart ==
  /\ wf.pc \notin {"sleep", "done"} /\ Fault("restart")
  /\ wf' = [pc |-> "check", seen |-> NoMeta, tries |-> 0, code |-> NoCode]
  /\ WfOnly /\ NoCharge /\ UNCHANGED sub

Workflow ==
  \/ WfWake \/ WfCheck \/ WfCancel \/ WfAuth \/ WfLoad \/ WfReadMeta \/ WfWriteMeta
  \/ WfCharge \/ WfDeclined \/ WfLookup \/ WfCreate \/ WfActivate \/ WfStartRetry
  \/ WfExpire

-----------------------------------------------------------------------------
(* RenewalSetupRetryWorkflow.                                              *)
RAt(r, step) == retry[r].pc = step
RGoto(r, step) == retry' = [retry EXCEPT ![r].pc = step]
ROnly == UNCHANGED <<time, charges, wf, req, ends, inTime, overtaken>>

(* The delay, in any case longer than the steps that follow its start. *)
RetryWait(r) ==
  /\ RAt(r, "wait") /\ wf.pc \notin {"recordScheduled", "recordFailed"}
  /\ retry' = [retry EXCEPT ![r].pc = "read", ![r].left = @ - 1]
  /\ ROnly /\ UNCHANGED <<sub, provider, used, faults>>

\* Wrong: the placeholder of a trial counts as a provider subscription.
RetryReadAnyCode(r) ==
  /\ RAt(r, "read")
  /\ retry' = [retry EXCEPT ![r].seen = sub,
                            ![r].pc = IF HasIssue(sub) THEN "recover" ELSE "done"]
  /\ ROnly /\ UNCHANGED <<sub, provider, used, faults>>

(* attemptRenewalSetup: the row is read, once, and either has what the run *)
(* is for, or cannot have it any more, or lacks something for good.        *)
RetryRead(r) ==
  /\ RAt(r, "read")
  /\ \E step \in IF Real(sub) THEN {IF HasIssue(sub) THEN "recover" ELSE "done"}
                 ELSE IF sub.status # "active" \/ Reached(sub.end) THEN {"done"}
                 ELSE {"create", "giveUp"} :
       retry' = [retry EXCEPT ![r].seen = sub, ![r].pc = step]
  /\ ROnly /\ UNCHANGED <<sub, provider, used, faults>>

(* buildRenewalSetupRecoveryUpdate *)
RetryRecover(r) ==
  /\ RAt(r, "recover") /\ RGoto(r, "done")
  /\ sub' = [sub EXCEPT !.cancelAt = "none",
                        !.meta = [retry[r].seen.meta EXCEPT !.setup = "complete"]]
  /\ ROnly /\ UNCHANGED <<provider, used, faults>>

(* createSubscription: made, refused, refused for good, or made and the    *)
(* answer lost, which looks refused.                                       *)
RetryCreate(r) ==
  /\ RAt(r, "create")
  /\ \/ \E k \in Codes :
          Make(k) /\ retry' = [retry EXCEPT ![r].pc = "save", ![r].code = k]
        /\ UNCHANGED faults
     \/ (RGoto(r, "fail") \/ RGoto(r, "giveUp")) /\ UNCHANGED <<provider, used, faults>>
     \/ (\E k \in Codes : Make(k)) /\ Fault("lost") /\ RGoto(r, "fail")
  /\ ROnly /\ UNCHANGED sub

\* Wrong: the last attempt promises another one.
RetryFailAgain(r) ==
  /\ RAt(r, "fail") \/ RAt(r, "giveUp")
  /\ sub' = [sub EXCEPT !.meta = [retry[r].seen.meta EXCEPT !.setup = "scheduled"]]
  /\ RGoto(r, IF RAt(r, "fail") /\ retry[r].left > 0 THEN "wait" ELSE "done")
  /\ ROnly /\ UNCHANGED <<provider, used, faults>>

(* What is left to try decides what the row says. *)
RetryFail(r) ==
  LET again == RAt(r, "fail") /\ retry[r].left > 0
  IN  /\ RAt(r, "fail") \/ RAt(r, "giveUp")
      /\ sub' = [sub EXCEPT !.meta = [retry[r].seen.meta EXCEPT
                                        !.setup = IF again THEN "scheduled" ELSE "failed"]]
      /\ RGoto(r, IF again THEN "wait" ELSE "done")
      /\ ROnly /\ UNCHANGED <<provider, used, faults>>

(* The code, no end any more, and the metadata as it was read. *)
RetrySave(r) ==
  /\ RAt(r, "save")
  /\ \/ /\ sub' = [sub EXCEPT !.code = retry[r].code, !.cancelAt = "none",
                              !.meta = [retry[r].seen.meta EXCEPT !.setup = "complete"]]
        /\ RGoto(r, "done") /\ UNCHANGED faults
     \/ Fault("rerun") /\ RGoto(r, "read") /\ UNCHANGED sub
  /\ ROnly /\ UNCHANGED <<provider, used>>

Retry(r) ==
  \/ RetryWait(r) \/ RetryRead(r) \/ RetryRecover(r) \/ RetryCreate(r)
  \/ RetryFail(r) \/ RetrySave(r)

-----------------------------------------------------------------------------
(* Requests: each reads the row, writes over it and starts a workflow.     *)
Kind(q) == req[q].kind
QGoto(q, step) == req' = [req EXCEPT ![q].pc = step]

QRead(q) ==
  /\ req[q].pc = "new"
  /\ Kind(q) = "downgrade" => sub.status \in {"active", "trialing"}
  /\ Kind(q) = "retry" => sub.status = "active" /\ (Real(sub) => HasIssue(sub))
  /\ req' = [req EXCEPT ![q].pc = "write", ![q].seen = sub]
  /\ UNCHANGED <<time, sub, charges, provider, used, wf, retry, ends, inTime, overtaken, faults>>

(* The provider's subscription is ended before the row is written. *)
Dropped(q) == IF Kind(q) \in {"cancel", "cancelNow"} THEN provider \ {req[q].seen.code} ELSE provider

QWrite(q) ==
  LET seen == req[q].seen
      kept == IF seen.status = "trialing" THEN "trialing" ELSE "active"
  IN  /\ req[q].pc = "write"
      /\ provider' = Dropped(q)
      /\ sub' = CASE Kind(q) = "cancel" -> [sub EXCEPT !.status = kept, !.cancelAt = seen.end]
                  [] Kind(q) = "cancelNow" -> [sub EXCEPT !.status = "canceled"]
                  [] Kind(q) = "downgrade" ->
                       [sub EXCEPT !.status = kept, !.cancelAt = seen.end,
                                   !.meta = [seen.meta EXCEPT !.sched = TRUE]]
                  [] Kind(q) = "retry" -> [sub EXCEPT !.meta = [seen.meta EXCEPT !.setup = "scheduled"]]
      /\ QGoto(q, IF Kind(q) = "cancelNow" THEN "done" ELSE "dispatch")
      /\ inTime' = (inTime \/ (Kind(q) # "retry" /\ charges = 0 /\ wf.pc \in {"sleep", "check"}))
      /\ overtaken' = (\/ overtaken \/ seen.status # sub.status
                       \/ Kind(q) \in {"downgrade", "retry"} /\ seen.meta # sub.meta)
      /\ UNCHANGED <<time, charges, used, wf, retry, ends, faults>>

(* workflow.create: its failure is swallowed, or undoes the manual retry.  *)
QDispatch(q) ==
  LET seen == req[q].seen
      manual == Kind(q) = "retry"
  IN  /\ req[q].pc = "dispatch" /\ QGoto(q, "done")
      /\ \/ /\ ~manual /\ ends' = ends \cup {[kind |-> Kind(q), at |-> seen.end]}
            /\ UNCHANGED <<sub, retry, faults>>
         \/ /\ manual /\ \E r \in Retries : StartRetry(r, Delays + 1)
            /\ UNCHANGED <<sub, ends, faults>>
         \/ /\ Fault("refuse")
            /\ sub' = IF manual THEN [sub EXCEPT !.meta = seen.meta] ELSE sub
            /\ UNCHANGED <<retry, ends>>
      /\ NoCharge /\ UNCHANGED <<time, wf, inTime, overtaken>>

(* The cancel-downgrade and the downgrade workflow at their hour, by what  *)
(* they read then (module PlanSwitch has their steps).                     *)
End(e) ==
  LET stands == IF e.kind = "cancel"
                THEN ~(sub.status = "active" /\ sub.cancelAt = "none")
                ELSE sub.status # "canceled" /\ sub.meta.sched
  IN  /\ e \in ends /\ Reached(e.at)
      /\ ends' = ends \ {e}
      /\ sub' = IF stands THEN [sub EXCEPT !.status = "canceled"] ELSE sub
      /\ NoCharge /\ UNCHANGED <<time, wf, retry, req, inTime, overtaken, faults>>

Next ==
  \/ Tick \/ Workflow \/ WfChargeLost \/ WfRestart
  \/ \E r \in Retries : Retry(r)
  \/ \E q \in Requests : QRead(q) \/ QWrite(q) \/ QDispatch(q)
  \/ \E e \in ends : End(e)

Spec == Init /\ [][Next]_vars

(* Workflows go on, the trial comes to its end, and a request that has     *)
(* begun ends; nobody has to begin one.                                    *)
Fairness ==
  /\ WF_vars(Tick /\ time = "trial") /\ WF_vars(Workflow)
  /\ \A r \in Retries : WF_vars(Retry(r))
  /\ \A q \in Requests : WF_vars(QWrite(q)) /\ WF_vars(QDispatch(q))
  /\ \A e \in [kind : {"cancel", "downgrade"}, at : Ends] : WF_vars(End(e))

FairSpec == Spec /\ Fairness

-----------------------------------------------------------------------------
(* Unless something fails, a customer whose card was charged does not lose *)
(* the subscription to the end of the trial: what cannot be set up after   *)
(* the charge leaves it active.                                            *)
PaidNotExpired == faults = 0 /\ sub.status = "expired" => charges = 0

(* A trial whose cancellation or downgrade was stored before its workflow  *)
(* looked is never charged, unless a request wrote back a status or        *)
(* metadata that had changed since it read them.                           *)
CanceledNotCharged == inTime /\ ~overtaken => charges = 0

(* The conversion never gives a plan away: an active subscription is       *)
(* renewed by the provider or has an end.                                  *)
ActiveRenewsOrEnds == sub.status = "active" => Real(sub) \/ sub.cancelAt # "none"

(* The renewal is called set up only when there is a provider              *)
(* subscription, though runs write the metadata they once read.            *)
CompleteIsLinked == sub.meta.setup = "complete" => Real(sub)

(* Unless something fails, or a request writes back a status or metadata   *)
(* that had changed, no subscription stays in its trial for good.          *)
TrialEnds == sub.status = "trialing" ~> sub.status # "trialing" \/ overtaken \/ faults > 0

(* Unless the same, a renewal that is called scheduled is set up or given  *)
(* up while the subscription is active and its period lasts.               *)
Waiting == sub.status = "active" /\ time # "over" /\ sub.meta.setup = "scheduled"
ScheduledResolves == Waiting ~> ~Waiting \/ overtaken \/ faults > 0
=============================================================================
