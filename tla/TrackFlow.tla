------------------------------ MODULE TrackFlow ------------------------------
(***************************************************************************)
(* Concurrent POST /track requests of one customer for one feature, within *)
(* one reset period (apps/api/src/routes/api/entitlements.ts), over the    *)
(* usage meter.  A request reserves prepaid credits, asks the meter,       *)
(* configures a meter that does not know the feature from the ledger, and  *)
(* covers what the meter denies with what is left of the plan, the manual  *)
(* bonus, add-on credits and overage, in that order; it answers, and what  *)
(* it served is appended to the ledger in the background.  Requests of     *)
(* kind "send" are POST /check with sendEvent: they look at the meter      *)
(* first, and reserve and consume only what the look allowed.  Those of    *)
(* kind "access" are the reads of customer-access.ts, which configure the  *)
(* meter too.  An action is what happens up to the next await.             *)
(***************************************************************************)
EXTENDS UsageMeter, FiniteSetsExt

CONSTANTS
  Requests,        \* concurrent requests
  Feature,         \* their feature
  Plans,           \* what the plan may say of the feature
  Values,          \* units a request asks for
  Prior,           \* units the ledger already holds
  Credits0, Addon0, Bonus0,   \* prepaid, add-on and bonus credits at the start
  MaxFaults        \* bound on the failures of awaited calls

Sources == {"plan", "bonus", "addon"}
MaxRetries == 3    \* attempts to append to the ledger

(* The effective plan feature: its meter configuration, whether it is paid *)
(* from a credit system, whether it is usage_based, and its overage.       *)
Plan == [config : FeatureConfig, creditSystem : BOOLEAN, usageBased : BOOLEAN,
         overage : {"block", "charge"}, maxOverageUnits : Amount]

ASSUME TrackAssumption ==
  /\ IsFiniteSet(Requests) /\ Features = {Feature}
  /\ Plans \subseteq Plan
  /\ \A p \in Plans : p.config \in Offers[Feature]
  /\ Values \subseteq Nat \ {0}
  /\ {Prior, Credits0, Addon0, Bonus0, MaxFaults} \subseteq Nat

VARIABLES
  plan,       \* the plan feature, loaded by every request
  req,        \* the requests
  credits,    \* credits.balance
  addon,      \* credit_system_balances.balance
  ledger,     \* units appended for each request and coverage source
  faults

trackVars == <<plan, req, credits, addon, ledger, faults>>
allVars == <<vars, trackVars>>

NoParts == [plan |-> 0, bonus |-> 0, addon |-> 0, over |-> 0]
NewRequest ==
  [pc |-> "start", kind |-> "track", value |-> 0, addonSeen |-> 0, bonusSeen |-> 0,
   reserved |-> 0, addonPaid |-> 0, used |-> 0, fits |-> FALSE, parts |-> NoParts, metered |-> 0,
   hydrated |-> FALSE, unsent |-> {}, tries |-> [s \in Sources |-> 0], answer |-> "none"]

Init0 ==
  /\ plan \in Plans
  /\ req = [r \in Requests |-> NewRequest]
  /\ credits = Credits0 /\ addon = Addon0
  /\ ledger = [r \in Requests |-> [s \in Sources |-> 0]]
  /\ faults = 0
  /\ alarm = NoAlarm /\ crashes = 0
  /\ \/ usage = [f \in Features |-> NoState] /\ config = [f \in Features |-> NoConfig]
     \/ /\ usage = [f \in Features |-> Granted(plan.config, Prior, 0)]
        /\ config = [f \in Features |-> plan.config]

-----------------------------------------------------------------------------
Sum(f(_)) == MapThenSumSet(f, Requests)
Recorded(s) == Sum(LAMBDA r : ledger[r][s])
At(r, pc) == req[r].pc = pc
Goto(r, pc) == req' = [req EXCEPT ![r].pc = pc]
Now(m) == m.usage[Feature]
MeterSame == UNCHANGED vars
MeterBecomes(m) == Becomes(m) /\ UNCHANGED crashes
MoneySame == UNCHANGED <<credits, addon>>
Calm == UNCHANGED <<plan, ledger>>
Quiet == Calm /\ UNCHANGED faults

(* An awaited call took effect; its reply arrives and the request goes on  *)
(* as next, or is lost and the request ends: a track in its catch, a check *)
(* without giving back what it reserved.                                   *)
Failed(q) ==
  IF q.kind = "track" THEN [q EXCEPT !.pc = "release", !.answer = "error"]
  ELSE [q EXCEPT !.pc = "done", !.answer = "error", !.reserved = 0]
Reply(r, next) ==
  /\ \/ req' = [req EXCEPT ![r] = next] /\ UNCHANGED faults
     \/ /\ faults < MaxFaults /\ faults' = faults + 1
        /\ req' = [req EXCEPT ![r] = Failed(next)]
  /\ Calm

(* resolvePrepaidCost *)
PrepaidCost(v) == IF plan.creditSystem THEN 0 ELSE v * plan.config.creditCost

Least(a, b) == IF a <= b THEN a ELSE b
(* splitUsageCoverage: the plan first, then bonus, add-on, and the rest *)
Split(v, planLeft, bonus, add) ==
  LET p == Least(v, planLeft)
      b == Least(v - p, bonus)
      a == Least(v - p - b, add)
  IN  [plan |-> p, bonus |-> b, addon |-> a, over |-> v - p - b - a]

(* What the request goes on with once the plan's part is consumed. *)
AfterPlan(parts) ==
  IF parts.over = 0 THEN (IF parts.addon > 0 THEN "addon" ELSE "allow")
  ELSE IF plan.overage = "charge" THEN "overage" ELSE "release"

(* What a check goes on with once it has looked, and passed the guard: a   *)
(* request that fits is reserved and tracked whole, one that the plan and  *)
(* the credits cover together is consumed part by part.                    *)
AfterCheck(q) ==
  IF q.fits THEN "reserve"
  ELSE IF q.parts.over = 0 /\ q.parts.plan > 0 THEN "plan" ELSE AfterPlan(q.parts)

(* checkOverageAllowed: a block, a missing card or the spending cap may   *)
(* deny anything; the unit cap counts what the ledger holds of the plan.  *)
OverageUsed(included) ==
  IF Prior + Recorded("plan") > included THEN Prior + Recorded("plan") - included ELSE 0
WithinCap(included, n) ==
  AtLeast(plan.maxOverageUnits, OverageUsed(included) + n)

-----------------------------------------------------------------------------
(* The reads before the request commits to anything, taken together. *)
Start(r, kind, v) ==
  /\ At(r, "start")
  /\ req' = [req EXCEPT ![r] =
       [@ EXCEPT !.pc = IF kind = "track" THEN "reserve" ELSE "check",
                 !.kind = kind, !.value = v,
                 !.addonSeen = IF plan.creditSystem THEN addon ELSE 0,
                 !.bonusSeen = IF Bonus0 > Recorded("bonus")
                               THEN Bonus0 - Recorded("bonus") ELSE 0]]
  /\ MeterSame /\ MoneySame /\ Quiet

(* tryDeductPrepaidCredits: one guarded UPDATE *)
Reserve(r) ==
  LET cost == PrepaidCost(req[r].value)
  IN  /\ At(r, "reserve")
      /\ \/ /\ credits >= cost
            /\ credits' = credits - cost
            /\ req' = [req EXCEPT ![r].reserved = cost,
                         ![r].pc = IF req[r].kind = "send" THEN "commit"
                                   ELSE IF plan.usageBased THEN "guard" ELSE "meter"]
         \/ /\ credits < cost
            /\ req' = [req EXCEPT ![r].pc = "done", ![r].answer = "insufficient_credits"]
            /\ UNCHANGED credits
      /\ UNCHANGED addon /\ MeterSame /\ Quiet

(* usage_based features ask the guard before the meter, a check after it. *)
Guard(r) ==
  /\ At(r, "guard")
  /\ \/ /\ WithinCap(0, req[r].value)
        /\ Goto(r, IF req[r].kind = "send" THEN AfterCheck(req[r]) ELSE "meter")
     \/ Goto(r, "release")
  /\ MeterSame /\ MoneySame /\ Quiet

(* What a reply of the meter to a track of v units makes of the request. *)
Answered(r, m, v) ==
  IF ~Known(m, Feature) THEN [req[r] EXCEPT !.pc = "hydrate"]
  ELSE IF CanTrack(m, Feature, v)
       THEN [req[r] EXCEPT !.pc = "allow", !.metered = Cost(m.config[Feature], v),
                           !.parts = [NoParts EXCEPT !.plan = v]]
       ELSE LET parts == Split(v, Left(Now(m)), req[r].bonusSeen, req[r].addonSeen)
            IN  [req[r] EXCEPT !.parts = parts,
                   !.pc = IF parts.plan > 0 THEN "plan" ELSE AfterPlan(parts)]

(* usageMeter.track with the configuration inline; m is the object as the  *)
(* call has prepared it, a value rather than an expression.                *)
TrackMeter(r) ==
  /\ At(r, "meter")
  /\ \E m \in {Prepared(Meter, Feature, plan.config)} :
       /\ MeterBecomes(Tracked(m, Feature, req[r].value))
       /\ Reply(r, Answered(r, m, req[r].value))
  /\ MoneySame

(* What a reply of the meter to a check makes of the request. *)
Looked(r, m) ==
  LET v == req[r].value
      fits == CanTrack(m, Feature, v)
      seen == [req[r] EXCEPT !.fits = fits,
                 !.parts = IF fits THEN [NoParts EXCEPT !.plan = v]
                           ELSE Split(v, Left(Now(m)), req[r].bonusSeen, req[r].addonSeen)]
  IN  IF ~Known(m, Feature) THEN [req[r] EXCEPT !.pc = "hydrate"]
      ELSE IF req[r].kind = "access" THEN [req[r] EXCEPT !.pc = "done"]
      ELSE [seen EXCEPT !.pc = IF plan.usageBased THEN "guard" ELSE AfterCheck(seen)]

(* usageMeter.check only looks; a check looks again after it configured. *)
CheckMeter(r) ==
  /\ At(r, "check")
  /\ \E m \in {Prepared(Meter, Feature, plan.config)} :
       /\ MeterBecomes(m)
       /\ Reply(r, Looked(r, m))
  /\ MoneySame
CheckAgain(r) ==
  /\ At(r, "recheck")
  /\ \E m \in {MaybeReset(Meter, Feature)} :
       /\ MeterBecomes(m)
       /\ Reply(r, Looked(r, m))
  /\ MoneySame

(* What was allowed is tracked; if the meter denies it now, the reserved   *)
(* credits are given back, or add-on credits pay for all of it.            *)
Commit(r) ==
  LET v == req[r].value
  IN  /\ At(r, "commit")
      /\ \E m \in {Prepared(Meter, Feature, plan.config)} :
           /\ MeterBecomes(Tracked(m, Feature, v))
           /\ Reply(r, IF CanTrack(m, Feature, v)
                       THEN [req[r] EXCEPT !.pc = "allow", !.metered = Cost(m.config[Feature], v)]
                       ELSE [req[r] EXCEPT !.pc = IF plan.creditSystem THEN "fallback" ELSE "release"])
      /\ MoneySame
Fallback(r) ==
  LET v == req[r].value
  IN  /\ At(r, "fallback")
      /\ \/ /\ addon >= v
            /\ addon' = addon - v
            /\ Reply(r, [req[r] EXCEPT !.pc = "allow", !.addonPaid = v])
         \/ /\ addon < v
            /\ Reply(r, [req[r] EXCEPT !.pc = "release"])
            /\ UNCHANGED addon
      /\ UNCHANGED credits /\ MeterSame

(* The ledger's usage of the plan; a track or check is refused without it, *)
(* a read of the customer's access takes it for zero.                      *)
SumLedger(r) ==
  /\ At(r, "hydrate")
  /\ req' = [req EXCEPT ![r].used = Prior + Recorded("plan"), ![r].pc = "configure"]
  /\ MeterSame /\ MoneySame /\ Quiet
LedgerUnavailable(r) ==
  /\ At(r, "hydrate") /\ faults < MaxFaults
  /\ faults' = faults + 1
  /\ Goto(r, IF req[r].kind = "access" THEN "configure" ELSE "release")
  /\ MeterSame /\ MoneySame /\ Calm

Hydrate(r) ==
  /\ At(r, "configure")
  /\ MeterBecomes(ConfigureFeature(Meter, Feature, plan.config, req[r].used))
  /\ Reply(r, [req[r] EXCEPT !.hydrated = TRUE,
                 !.pc = CASE req[r].kind = "track" -> "again"
                          [] req[r].kind = "send" -> "recheck"
                          [] OTHER -> "done"])
  /\ MoneySame

(* The second track goes without configuration. *)
TrackAgain(r) ==
  /\ At(r, "again")
  /\ \E m \in {MaybeReset(Meter, Feature)} :
       /\ MeterBecomes(Tracked(m, Feature, req[r].value))
       /\ Reply(r, Answered(r, m, req[r].value))
  /\ MoneySame

(* What is left of the plan is consumed before anything else is asked. *)
TrackPlan(r) ==
  LET n == req[r].parts.plan
  IN  /\ At(r, "plan")
      /\ \E m \in {Prepared(Meter, Feature, plan.config)} :
           /\ MeterBecomes(Tracked(m, Feature, n))
           /\ Reply(r, IF CanTrack(m, Feature, n)
                       THEN [req[r] EXCEPT !.pc = AfterPlan(req[r].parts),
                                           !.metered = Cost(m.config[Feature], n)]
                       ELSE [req[r] EXCEPT !.pc = "release"])
      /\ MoneySame

(* A check that would be overage answers overage_allowed and records it *)
(* no more than a check without sendEvent does.                         *)
GuardOverage(r) ==
  /\ At(r, "overage")
  /\ \/ /\ WithinCap(plan.config.limit, req[r].parts.over)
        /\ \/ /\ req[r].kind = "track"
              /\ Goto(r, IF req[r].parts.addon > 0 THEN "addon" ELSE "allow")
           \/ /\ req[r].kind = "send"
              /\ req' = [req EXCEPT ![r].pc = "done", ![r].answer = "overage_allowed"]
     \/ Goto(r, "release")
  /\ MeterSame /\ MoneySame /\ Quiet

(* deductScopedBalance: one guarded UPDATE *)
DeductAddon(r) ==
  LET n == req[r].parts.addon
  IN  /\ At(r, "addon")
      /\ \/ /\ addon >= n
            /\ addon' = addon - n
            /\ Reply(r, [req[r] EXCEPT !.pc = "allow", !.addonPaid = n])
         \/ /\ addon < n
            /\ Reply(r, [req[r] EXCEPT !.pc = "release"])
            /\ UNCHANGED addon
      /\ UNCHANGED credits /\ MeterSame

(* The answer; units of overage are recorded as plan usage. *)
Allow(r) ==
  LET p == req[r].parts
      parts == [p EXCEPT !.plan = @ + p.over, !.over = 0]
  IN  /\ At(r, "allow")
      /\ req' = [req EXCEPT ![r] =
           [@ EXCEPT !.pc = "done", !.answer = "allowed", !.parts = parts,
                     !.unsent = {s \in Sources : parts[s] > 0}]]
      /\ MeterSame /\ MoneySame /\ Quiet

\* Wrong: the released amount is not forgotten.
EndedReserved(q) ==
  [q EXCEPT !.pc = "done", !.answer = IF @ = "none" THEN "denied" ELSE @]

(* releasePrepaidReservation, then the denial or, in the catch, the error  *)
Ended(q) ==
  [q EXCEPT !.pc = "done", !.reserved = 0,
            !.answer = IF @ = "none" THEN "denied" ELSE @]
Release(r) ==
  /\ At(r, "release")
  /\ credits' = credits + req[r].reserved
  /\ req' = [req EXCEPT ![r] = Ended(@)]
  /\ UNCHANGED addon /\ MeterSame /\ Quiet

(* The release has forgotten the amount before it runs, so that a release  *)
(* that raises is not tried again by the catch.                            *)
ReleaseRaises(r) ==
  /\ At(r, "release") /\ faults < MaxFaults
  /\ faults' = faults + 1
  /\ credits' \in {credits, credits + req[r].reserved}
  /\ req' = [req EXCEPT ![r] = [Ended(@) EXCEPT !.answer = "error"]]
  /\ UNCHANGED addon /\ MeterSame /\ Calm

(* The reservation itself raises outside the try: nothing is released.     *)
ReserveRaises(r) ==
  LET cost == PrepaidCost(req[r].value)
  IN  /\ At(r, "reserve") /\ cost > 0 /\ faults < MaxFaults
      /\ faults' = faults + 1
      /\ credits' \in {credits} \cup {c \in {credits - cost} : c >= 0}
      /\ req' = [req EXCEPT ![r].pc = "done", ![r].answer = "error"]
      /\ UNCHANGED addon /\ MeterSame /\ Calm

(* An awaited call raises without effect. *)
Raise(r) ==
  /\ req[r].kind # "access" /\ faults < MaxFaults
  /\ req[r].pc \in {"guard", "meter", "configure", "again", "plan", "overage", "addon",
                    "commit", "fallback"}
  /\ faults' = faults + 1
  /\ req' = [req EXCEPT ![r] = Failed(@)]
  /\ MoneySame /\ MeterSame /\ Calm

\* Wrong: one failed attempt is the last.
AppendRaisesOnce(r, s) ==
  /\ s \in req[r].unsent /\ faults < MaxFaults
  /\ faults' = faults + 1
  /\ req' = [req EXCEPT ![r].tries[s] = @ + 1, ![r].unsent = @ \ {s}]
  /\ MeterSame /\ MoneySame /\ UNCHANGED <<plan, ledger>>

(* scheduleUsagePersist: up to three attempts, each with its own record. *)
Append(r, s) ==
  /\ s \in req[r].unsent
  /\ ledger' = [ledger EXCEPT ![r][s] = @ + req[r].parts[s]]
  /\ req' = [req EXCEPT ![r].unsent = @ \ {s}]
  /\ MeterSame /\ MoneySame /\ UNCHANGED <<plan, faults>>
AppendRaises(r, s) ==
  /\ s \in req[r].unsent /\ faults < MaxFaults
  /\ faults' = faults + 1
  /\ ledger' \in {ledger, [ledger EXCEPT ![r][s] = @ + req[r].parts[s]]}
  /\ req' = [req EXCEPT ![r].tries[s] = @ + 1,
                        ![r].unsent = IF req[r].tries[s] + 1 < MaxRetries THEN @ ELSE @ \ {s}]
  /\ MeterSame /\ MoneySame /\ UNCHANGED plan

Step(r) ==
  \/ Reserve(r) \/ Guard(r) \/ TrackMeter(r) \/ CheckMeter(r) \/ CheckAgain(r)
  \/ Commit(r) \/ Fallback(r) \/ SumLedger(r)
  \/ Hydrate(r) \/ TrackAgain(r) \/ TrackPlan(r) \/ GuardOverage(r)
  \/ DeductAddon(r) \/ Allow(r) \/ Release(r)

TrackNext ==
  \E r \in Requests :
    \/ \E v \in Values, kind \in {"track", "send"} : Start(r, kind, v)
    \/ Start(r, "access", 0)
    \/ Step(r)
    \/ LedgerUnavailable(r) \/ Raise(r) \/ ReleaseRaises(r) \/ ReserveRaises(r)
    \/ \E s \in Sources : Append(r, s) \/ AppendRaises(r, s)

TrackSpec == Init0 /\ [][TrackNext]_allVars

(* A request that runs goes on, and waitUntil keeps the appends going. *)
TrackFairSpec ==
  /\ TrackSpec
  /\ \A r \in Requests :
       /\ WF_allVars(Step(r))
       /\ \A s \in Sources : WF_allVars(Append(r, s))

-----------------------------------------------------------------------------
Allowed(r) == req[r].answer = "allowed"

(* Prepaid and add-on credits are only ever taken by requests that were    *)
(* allowed or still run, and what is served is paid for, whatever the      *)
(* requests do to each other; a failed call may lose credits, and none     *)
(* makes them (entitlements.ts tryDeductPrepaidCredits,                    *)
(* releasePrepaidReservation, addon-credits.ts deductScopedBalance).       *)
AddonTaken(r) == IF Allowed(r) \/ At(r, "allow") THEN req[r].addonPaid ELSE 0
\* A check pays from the prepaid credits only what it tracks whole.
PaysPrepaid(r) == req[r].kind = "track" \/ req[r].fits
CreditsConserved ==
  LET prepaid == credits + Sum(LAMBDA r : req[r].reserved)
      addons == addon + Sum(AddonTaken)
  IN  /\ prepaid <= Credits0 /\ addons <= Addon0
      /\ faults = 0 => prepaid = Credits0 /\ addons = Addon0
      /\ \A r \in Requests : req[r].pc = "done" =>
           req[r].reserved =
             IF Allowed(r) /\ PaysPrepaid(r) THEN PrepaidCost(req[r].value) ELSE 0

(* The requests together consume no more of the plan than the ledger left *)
(* of its limit, when none configured the meter without the ledger, and   *)
(* no two configured a feature that is reset by it (entitlements.ts       *)
(* track, usage-meter.ts).                                                *)
Hydrators == {r \in Requests : req[r].hydrated}
PlanUsed == Sum(LAMBDA r : req[r].metered)
PlanWithinLimit ==
  /\ \A r \in Hydrators : req[r].used >= Prior
  /\ plan.config.resetOnEnable => Cardinality(Hydrators) <= 1
  => AtLeast(Remaining(plan.config.limit, Prior), PlanUsed)

(* A request that was allowed, and not as overage of a check, has all the  *)
(* units it asked for in the ledger in the end, whatever they were covered *)
(* by, unless an append failed three times (entitlements.ts                *)
(* splitUsageCoverage, buildUsagePersistSegments, persistWithRetry).       *)
InLedger(r) == MapThenSumSet(LAMBDA s : ledger[r][s], Sources)
ServedIsRecorded ==
  \A r \in Requests : Allowed(r) ~>
    \/ InLedger(r) >= req[r].value
    \/ \E s \in Sources : req[r].tries[s] = MaxRetries

=============================================================================
