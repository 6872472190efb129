----------------------------- MODULE UsageMeter -----------------------------
(***************************************************************************)
(* The usage meter of one customer (apps/api/src/lib/usage-meter.ts), a    *)
(* Durable Object: per feature it keeps what is left of the limit, what    *)
(* was rolled over and when the feature was last reset, and one alarm for  *)
(* all of them.  Input gates run one call at a time, so each call is one   *)
(* action.                                                                 *)
(*                                                                         *)
(* Clock times are kept relative to now: "age" is the time since lastReset *)
(* and "alarm" the time until the alarm is due, in ticks of the one second *)
(* that an overdue alarm is put off by.  A limit of null is Unlimited, the *)
(* code's Infinity once it is a balance.  The fields ceiling, carried and  *)
(* consumed are history: the largest limit in force and the rollover       *)
(* brought along since the last grant, and what was tracked since.         *)
(***************************************************************************)
EXTENDS Integers

CONSTANTS
  Features,      \* feature keys of the customer
  Offers,        \* the configurations each feature can be called with
  Deltas,        \* amounts that one call tracks
  InitialUses,   \* what the ledger may say was used before the meter existed
  MaxAge,        \* ages beyond every interval are not told apart
  MaxUsage,      \* bound on the usage counter of a feature
  MaxCrashes,    \* bound on the crashes between persist and setAlarm
  Unlimited, NoState, NoConfig, NoAlarm

Amount == Nat \cup {Unlimited}

(* FeatureConfig.  interval 0 is "none"; a scope key is a legacy string or  *)
(* a versioned one, and names a subscription, a plan, or both.              *)
ScopeKey == [legacy : BOOLEAN, ids : SUBSET STRING]
FeatureConfig ==
  [limit : Amount, interval : Nat, resetOnEnable : BOOLEAN,
   rolloverEnabled : BOOLEAN, rolloverMaxBalance : Amount,
   creditCost : Nat, scope : ScopeKey]

UsageState ==
  [balance : Amount, usage : Nat, limit : Amount, rollover : Amount,
   age : 0..MaxAge, ceiling : Amount, carried : Amount, consumed : Nat]

ASSUME MeterAssumption ==
  /\ Offers \in [Features -> SUBSET FeatureConfig]
  /\ \A f \in Features : \A c \in Offers[f] : c.interval <= MaxAge
  /\ Deltas \subseteq Nat \ {0}
  /\ InitialUses \subseteq Nat
  /\ MaxAge \in Nat /\ MaxUsage \in Nat /\ MaxCrashes \in Nat
  /\ Unlimited \notin Nat
  /\ NoAlarm \notin Nat
  /\ NoState \notin UsageState
  /\ NoConfig \notin FeatureConfig

VARIABLES
  usage,      \* featureUsage: what the meter keeps of each feature
  config,     \* featureConfigs
  alarm,      \* ticks until the alarm fires, NoAlarm when none is set
  crashes     \* times the object died between persist and setAlarm

vars == <<usage, config, alarm, crashes>>

-----------------------------------------------------------------------------
(* Amounts, where Unlimited is above every number. *)

AtLeast(a, b) == a = Unlimited \/ (b # Unlimited /\ a >= b)
Plus(a, b) == IF Unlimited \in {a, b} THEN Unlimited ELSE a + b
Minus(a, n) == IF a = Unlimited THEN a ELSE a - n
Lesser(a, b) == IF AtLeast(a, b) THEN b ELSE a
Larger(a, b) == IF AtLeast(a, b) THEN a ELSE b
Left(u) == Plus(u.balance, u.rollover)

(* Math.max(0, limit - used), Infinity without a limit *)
Remaining(limit, used) ==
  IF limit = Unlimited THEN Unlimited
  ELSE IF limit >= used THEN limit - used ELSE 0

-----------------------------------------------------------------------------
(* What the calls do to one feature. *)

(* A legacy key may be the subscription, the plan or both of a new key. *)
SameScope(old, new) ==
  IF old.legacy = new.legacy THEN old.ids = new.ids
  ELSE IF old.legacy THEN old.ids \subseteq new.ids ELSE new.ids \subseteq old.ids

(* resetOnEnable is not among the compared fields. *)
Changed(old, new) ==
  \E k \in DOMAIN new \ {"resetOnEnable"} : old[k] # new[k]

Granted(c, used, rolled) ==
  [balance |-> Remaining(c.limit, used), usage |-> used, limit |-> c.limit,
   rollover |-> rolled, age |-> 0,
   ceiling |-> c.limit, carried |-> rolled, consumed |-> 0]

Rollover(u, c) ==
  IF c.rolloverEnabled THEN Lesser(Left(u), c.rolloverMaxBalance) ELSE 0

(* resetFeature refills the balance and leaves the limit of the state. *)
ResetUsage(u, c) ==
  [Granted(c, 0, Rollover(u, c)) EXCEPT
     !.limit = u.limit, !.ceiling = Larger(c.limit, u.limit)]

(* A lazy configuration that differs from the stored one. *)
Resynced(u, old, new) ==
  IF ~SameScope(old.scope, new.scope) /\ new.resetOnEnable
  THEN Granted(new, 0, 0)
  ELSE [u EXCEPT !.limit = new.limit,
                 !.balance = Remaining(new.limit, u.usage),
                 !.age = IF old.interval # new.interval THEN 0 ELSE @,
                 !.ceiling = Larger(@, new.limit)]

Cost(c, delta) == delta * (IF c.creditCost > 0 THEN c.creditCost ELSE 1)

\* Wrong: the rollover that was spent is left in place.
ConsumedKeepsRollover(u, amount) ==
  IF u.limit = Unlimited \/ AtLeast(u.rollover, amount)
  THEN [u EXCEPT !.usage = @ + amount, !.consumed = @ + amount]
  ELSE [u EXCEPT !.usage = @ + amount, !.consumed = @ + amount,
                 !.balance = Minus(@, amount - u.rollover)]

(* Rollover is spent before the balance; a state without limit only counts. *)
Consumed(u, amount) ==
  LET used == [u EXCEPT !.usage = @ + amount, !.consumed = @ + amount]
  IN  IF u.limit = Unlimited THEN used
      ELSE IF AtLeast(u.rollover, amount)
           THEN [used EXCEPT !.rollover = Minus(@, amount)]
           ELSE [used EXCEPT !.rollover = 0,
                             !.balance = Minus(@, amount - u.rollover)]

Allows(u, amount) == u.limit = Unlimited \/ AtLeast(Left(u), amount)

-----------------------------------------------------------------------------
(* What the calls do to the object: m is the record of its three parts. *)

Meter == [usage |-> usage, config |-> config, alarm |-> alarm]
Known(m, f) == m.usage[f] # NoState /\ m.config[f] # NoConfig
Resets(m, f) == Known(m, f) /\ m.config[f].interval > 0
Due(m, f) == Resets(m, f) /\ m.usage[f].age >= m.config[f].interval

(* Time until a feature resets; one that is overdue gets the next second. *)
Wait(m, f) ==
  IF Due(m, f) THEN 1 ELSE m.config[f].interval - m.usage[f].age

(* scheduleResetAlarm: the soonest reset, the old alarm when there is none *)
Soonest(waits) == CHOOSE w \in waits : \A v \in waits : w <= v
\* Wrong: an alarm that is already set is left alone.
ScheduledOnce(m) ==
  LET waits == {Wait(m, f) : f \in {g \in Features : Resets(m, g)}}
  IN  IF waits = {} \/ m.alarm # NoAlarm THEN m ELSE [m EXCEPT !.alarm = Soonest(waits)]
Scheduled(m) ==
  LET waits == {Wait(m, f) : f \in {g \in Features : Resets(m, g)}}
  IN  IF waits = {} THEN m ELSE [m EXCEPT !.alarm = Soonest(waits)]

ResetFeature(m, f) == [m EXCEPT !.usage[f] = ResetUsage(@, m.config[f])]
\* Wrong: a call resets the feature however much of its period is left.
ResetEarly(m, f) == IF Resets(m, f) THEN Scheduled(ResetFeature(m, f)) ELSE m
MaybeReset(m, f) == IF Due(m, f) THEN Scheduled(ResetFeature(m, f)) ELSE m

(* configureFeature with lazy, up to its persist *)
Stored(m, f, c) ==
  IF m.usage[f] # NoState /\ ~Changed(m.config[f], c) THEN m
  ELSE [m EXCEPT !.config[f] = c,
                 !.usage[f] = IF @ = NoState THEN @ ELSE Resynced(@, m.config[f], c)]
SyncConfig(m, f, c) ==
  IF m.usage[f] = NoState \/ ~Changed(m.config[f], c) THEN Stored(m, f, c)
  ELSE MaybeReset(Scheduled(Stored(m, f, c)), f)

\* Wrong: a configuration always grants the usage anew.
ConfiguredAnew(m, f, c, used) ==
  [m EXCEPT !.config[f] = c, !.usage[f] = Granted(c, used, 0)]

(* configureFeature without lazy: a state that exists is kept as it is *)
(* unless the configuration says to reset.                             *)
Configured(m, f, c, used) ==
  [m EXCEPT !.config[f] = c,
            !.usage[f] = IF @ = NoState \/ c.resetOnEnable
                         THEN Granted(c, used, 0) ELSE @]
ConfigureFeature(m, f, c, used) ==
  LET stored == Configured(m, f, c, used)
  IN  IF c.interval > 0 THEN Scheduled(stored) ELSE stored

(* check and track begin alike: sync the configuration they were called *)
(* with, then reset the feature when its period has elapsed.            *)
Prepared(m, f, c) ==
  LET synced == SyncConfig(m, f, c)
  IN  IF Known(synced, f) THEN MaybeReset(synced, f) ELSE synced

CanTrack(m, f, delta) ==
  Known(m, f) /\ Allows(m.usage[f], Cost(m.config[f], delta))
Tracked(m, f, delta) ==
  IF CanTrack(m, f, delta)
  THEN [m EXCEPT !.usage[f] = Consumed(@, Cost(m.config[f], delta))] ELSE m

-----------------------------------------------------------------------------
Init ==
  /\ usage = [f \in Features |-> NoState]
  /\ config = [f \in Features |-> NoConfig]
  /\ alarm = NoAlarm
  /\ crashes = 0

Becomes(m) == usage' = m.usage /\ config' = m.config /\ alarm' = m.alarm

Check(f, c) == Becomes(Prepared(Meter, f, c)) /\ UNCHANGED crashes

Track(f, c, delta) ==
  LET m == Prepared(Meter, f, c)
  IN  /\ Known(m, f) => m.usage[f].usage + Cost(c, delta) <= MaxUsage
      /\ Becomes(Tracked(m, f, delta))
      /\ UNCHANGED crashes

Configure(f, c, used) ==
  Becomes(ConfigureFeature(Meter, f, c, used)) /\ UNCHANGED crashes

(* The alarm resets every feature that is due and schedules the next. *)
AllReset(m, due) ==
  [m EXCEPT !.usage = [f \in Features |->
     IF f \in due THEN ResetUsage(m.usage[f], m.config[f]) ELSE m.usage[f]]]
\* Wrong: only features that are used up are reset.
DueAndSpent == {f \in Features : Due(Meter, f) /\ usage[f].balance = 0}
DueNow == {f \in Features : Due(Meter, f)}
Alarm ==
  /\ alarm = 0
  /\ Becomes(Scheduled([AllReset(Meter, DueNow) EXCEPT !.alarm = NoAlarm]))
  /\ UNCHANGED crashes

(* The object dies after a persist and before the setAlarm that follows.  *)
(* An alarm that dies after some resets is delivered again.               *)
Crash(m) ==
  /\ crashes < MaxCrashes
  /\ crashes' = crashes + 1
  /\ Becomes([m EXCEPT !.alarm = alarm])
CrashInSync(f, c) == Crash(Stored(Meter, f, c))
CrashInReset(f) == Due(Meter, f) /\ Crash(ResetFeature(Meter, f))
CrashInConfigure(f, c, used) == Crash(Configured(Meter, f, c, used))
CrashInAlarm ==
  alarm = 0 /\ \E due \in SUBSET DueNow : Crash(AllReset(Meter, due))

(* Time passes for every feature; an alarm that is late stays due. *)
Older(u) == [u EXCEPT !.age = IF @ < MaxAge THEN @ + 1 ELSE @]
Tick ==
  /\ usage' = [f \in Features |-> IF usage[f] = NoState THEN NoState ELSE Older(usage[f])]
  /\ alarm' = IF alarm \in {NoAlarm, 0} THEN alarm ELSE alarm - 1
  /\ UNCHANGED <<config, crashes>>

Next ==
  \/ \E f \in Features : \E c \in Offers[f] :
       \/ Check(f, c)
       \/ \E delta \in Deltas : Track(f, c, delta)
       \/ CrashInSync(f, c)
       \/ \E used \in InitialUses : Configure(f, c, used) \/ CrashInConfigure(f, c, used)
  \/ \E f \in Features : CrashInReset(f)
  \/ Alarm \/ CrashInAlarm
  \/ Tick

Spec == Init /\ [][Next]_vars

(* The clock runs, and the platform delivers a due alarm that is left in   *)
(* place.                                                                  *)
FairSpec == Spec /\ WF_vars(Tick) /\ WF_vars(Alarm)
-----------------------------------------------------------------------------
(* Type invariant; the object never keeps a state without a configuration. *)
TypeOK ==
  /\ usage \in [Features -> UsageState \cup {NoState}]
  /\ config \in [Features -> FeatureConfig \cup {NoConfig}]
  /\ alarm \in Nat \cup {NoAlarm}
  /\ crashes \in 0..MaxCrashes
  /\ \A f \in Features :
       config[f] = NoConfig => usage[f] = NoState

(* Between two grants a customer is served no more than the largest limit *)
(* in force and the rollover brought along, however often configurations  *)
(* change, features reset or the object dies (usage-meter.ts track).      *)
ConsumedWithinGrant ==
  \A f \in Features : usage[f] # NoState =>
    AtLeast(Plus(usage[f].ceiling, usage[f].carried), usage[f].consumed)

(* The one alarm of the object comes no later than the next reset of any  *)
(* feature, unless the object died before it could set it                 *)
(* (usage-meter.ts scheduleResetAlarm).                                   *)
AlarmCovers ==
  crashes = 0 =>
    \A f \in Features : Resets(Meter, f) =>
      alarm \in Nat /\ alarm <= Wait(Meter, f)

\* A call replaces the alarm that is due, the feature still not reset.
PutOff(f) == alarm = 0 /\ alarm' # 0 /\ ~Alarm /\ Due(Meter, f)'

(* A feature whose period has elapsed is reset, whether or not it is used *)
(* again and whatever happens to the other features (usage-meter.ts       *)
(* alarm), unless the object died before it could set the alarm, or calls *)
(* put the alarm off for ever (usage-meter.ts scheduleResetAlarm).        *)
DueIsReset ==
  \A f \in Features : \/ []<><<PutOff(f)>>_vars
                      \/ (crashes = 0 /\ Due(Meter, f)) ~> (crashes > 0 \/ ~Due(Meter, f))

(* What was granted and spent of each feature is what module Quota         *)
(* promises: in whatever order the object is configured, checked, tracked  *)
(* and reset, and wherever it dies, no unit is served twice, no period is  *)
(* granted before its time, and no more is rolled over than was left.      *)
QuotaOf == INSTANCE Quota WITH
  Limits <- [f \in Features |-> {c.limit : c \in Offers[f]}],
  Carries <- [f \in Features |->
                {IF c.rolloverEnabled THEN c.rolloverMaxBalance ELSE 0 : c \in Offers[f]}],
  Periods <- [f \in Features |-> {c.interval : c \in Offers[f]}],
  Anew <- {f \in Features : \E c \in Offers[f] : c.resetOnEnable},
  Longest <- MaxAge,
  allowance <- [f \in {g \in Features : usage[g] # NoState} |->
    [limit |-> usage[f].ceiling, carried |-> usage[f].carried,
     spent |-> usage[f].consumed, elapsed |-> usage[f].age]]
QuotaKept == QuotaOf!Spec

=============================================================================
