-------------------------- MODULE UsageMeterProofs --------------------------
(***************************************************************************)
(* What the usage meter keeps true for every set of features, every        *)
(* configuration and every bound: its types, that nothing is served beyond *)
(* the grants, that its one alarm comes before every reset, and that it    *)
(* implements the allowances of module Quota.  And what concurrent track   *)
(* requests (TrackFlow) keep true of it: no credit is lost or taken twice, *)
(* and the plan is not metered beyond its limit.                           *)
(***************************************************************************)
EXTENDS TrackFlow, Sums, FiniteSetTheorems, TLAPS

(* The inductive invariant of one feature: what was tracked and what is   *)
(* left stay within the largest limit and the rollover brought along.     *)
WithinGrant(u) ==
  /\ AtLeast(Plus(u.ceiling, u.carried), Plus(Left(u), u.consumed))
  /\ AtLeast(u.carried, u.rollover)
  /\ u.consumed <= u.usage
  /\ u.limit = Unlimited => u.ceiling = Unlimited

Sound(u) == u \in UsageState /\ WithinGrant(u)

(* The same for the object as a whole, and the cover of its alarm. *)
Meters ==
  [usage : [Features -> UsageState \cup {NoState}],
   config : [Features -> FeatureConfig \cup {NoConfig}],
   alarm : Nat \cup {NoAlarm}]

WellFormed(m) ==
  /\ m \in Meters
  /\ \A f \in Features : m.config[f] = NoConfig => m.usage[f] = NoState
  /\ \A f \in Features : m.usage[f] # NoState => WithinGrant(m.usage[f])

Covered(m) ==
  \A f \in Features : Resets(m, f) => m.alarm \in Nat /\ m.alarm <= Wait(m, f)

IInv ==
  /\ WellFormed(Meter)
  /\ crashes \in 0..MaxCrashes
  /\ crashes = 0 => Covered(Meter)

-----------------------------------------------------------------------------
LEMMA ConfigFields ==
  ASSUME NEW c \in FeatureConfig
  PROVE  /\ c.limit \in Amount /\ c.rolloverMaxBalance \in Amount
         /\ c.interval \in Nat /\ c.creditCost \in Nat
         /\ c.rolloverEnabled \in BOOLEAN
BY DEF FeatureConfig

LEMMA CostPositive ==
  ASSUME NEW c \in FeatureConfig, NEW d \in Deltas
  PROVE  Cost(c, d) \in Nat
<1>1. d \in Nat /\ c.creditCost \in Nat  BY ConfigFields, MeterAssumption
<1>. QED  BY <1>1 DEF Cost

(* What is granted anew is within the grant. *)
LEMMA GrantedSound ==
  ASSUME NEW c \in FeatureConfig, NEW n \in Nat, NEW r \in Amount
  PROVE  Sound(Granted(c, n, r))
<1>1. c.limit \in Amount /\ Unlimited \notin Nat /\ 0 \in 0..MaxAge
  BY ConfigFields, MeterAssumption
<1>. DEFINE u == Granted(c, n, r)
<1>2. /\ u.balance = Remaining(c.limit, n) /\ u.usage = n /\ u.limit = c.limit
      /\ u.rollover = r /\ u.ceiling = c.limit /\ u.carried = r /\ u.consumed = 0
  BY DEF Granted
<1>3. Remaining(c.limit, n) \in Amount /\ AtLeast(c.limit, Remaining(c.limit, n))
  BY <1>1 DEF Remaining, Amount, AtLeast
<1>4. u \in UsageState  BY <1>1, <1>3 DEF Granted, UsageState, Amount
<1>5. WithinGrant(u)
  BY <1>1, <1>2, <1>3 DEF WithinGrant, Left, Plus, AtLeast, Amount
<1>. QED  BY <1>4, <1>5 DEF Sound

LEMMA ResetSound ==
  ASSUME NEW c \in FeatureConfig, NEW u \in UsageState
  PROVE  Sound(ResetUsage(u, c))
<1>1. /\ c.limit \in Amount /\ c.rolloverMaxBalance \in Amount /\ u.limit \in Amount
      /\ u.balance \in Amount /\ u.rollover \in Amount /\ Unlimited \notin Nat
  BY ConfigFields, MeterAssumption DEF UsageState
<1>2. Rollover(u, c) \in Amount
  BY <1>1 DEF Rollover, Lesser, Left, Plus, AtLeast, Amount
<1>. DEFINE g == Granted(c, 0, Rollover(u, c))
            v == ResetUsage(u, c)
<1>3. g \in UsageState /\ WithinGrant(g)  BY <1>2, GrantedSound DEF Sound
<1>4. Larger(c.limit, u.limit) \in Amount /\ AtLeast(Larger(c.limit, u.limit), c.limit)
  BY <1>1 DEF Larger, AtLeast, Amount
<1>5. v = [g EXCEPT !.limit = u.limit, !.ceiling = Larger(c.limit, u.limit)]
  BY DEF ResetUsage
<1>6. v \in UsageState  BY <1>1, <1>3, <1>4, <1>5 DEF UsageState
<1>7. /\ v.balance = g.balance /\ v.rollover = g.rollover /\ v.carried = g.carried
      /\ v.consumed = g.consumed /\ v.usage = g.usage /\ v.limit = u.limit
      /\ v.ceiling = Larger(c.limit, u.limit) /\ g.ceiling = c.limit
  BY <1>3, <1>5 DEF UsageState, Granted
<1>8. /\ g.balance \in Amount /\ g.rollover \in Amount /\ g.carried \in Amount
      /\ g.consumed \in Nat /\ g.usage \in Nat
  BY <1>3 DEF UsageState
<1>9. u.limit = Unlimited => Larger(c.limit, u.limit) = Unlimited
  BY <1>1 DEF Larger, AtLeast, Amount
<1>10. AtLeast(Plus(v.ceiling, v.carried), Plus(Left(v), v.consumed))
  BY <1>1, <1>3, <1>4, <1>7, <1>8 DEF WithinGrant, Left, Plus, AtLeast, Amount
<1>11. WithinGrant(v)
  BY <1>3, <1>7, <1>9, <1>10 DEF WithinGrant
<1>. QED  BY <1>6, <1>11 DEF Sound

LEMMA ResyncedSound ==
  ASSUME NEW old \in FeatureConfig, NEW new \in FeatureConfig,
         NEW u, Sound(u)
  PROVE  Sound(Resynced(u, old, new))
<1>1. CASE ~SameScope(old.scope, new.scope) /\ new.resetOnEnable
  BY <1>1, GrantedSound DEF Resynced, Amount
<1>2. CASE ~(~SameScope(old.scope, new.scope) /\ new.resetOnEnable)
  <2>1. /\ new.limit \in Amount /\ u.ceiling \in Amount /\ u.carried \in Amount
        /\ u.balance \in Amount /\ u.rollover \in Amount /\ u.usage \in Nat
        /\ u.consumed \in Nat /\ u.age \in 0..MaxAge /\ 0 \in 0..MaxAge
        /\ u \in UsageState /\ Unlimited \notin Nat
    BY ConfigFields, MeterAssumption DEF UsageState, Sound
  <2>. DEFINE v == Resynced(u, old, new)
  <2>2. v = [u EXCEPT !.limit = new.limit,
                      !.balance = Remaining(new.limit, u.usage),
                      !.age = IF old.interval # new.interval THEN 0 ELSE u.age,
                      !.ceiling = Larger(u.ceiling, new.limit)]
    BY <1>2 DEF Resynced
  <2>3. /\ Remaining(new.limit, u.usage) \in Amount
        /\ Larger(u.ceiling, new.limit) \in Amount
    BY <2>1 DEF Remaining, Larger, AtLeast, Amount
  <2>4. v \in UsageState  BY <2>1, <2>2, <2>3 DEF UsageState
  <2>5. /\ v.limit = new.limit /\ v.balance = Remaining(new.limit, u.usage)
        /\ v.ceiling = Larger(u.ceiling, new.limit) /\ v.carried = u.carried
        /\ v.rollover = u.rollover /\ v.usage = u.usage /\ v.consumed = u.consumed
    BY <2>1, <2>2 DEF UsageState
  <2>6. WithinGrant(u)  BY DEF Sound
  <2>7. new.limit = Unlimited => Larger(u.ceiling, new.limit) = Unlimited
    BY <2>1 DEF Larger, AtLeast, Amount
  <2>8. AtLeast(Plus(v.ceiling, v.carried), Plus(Left(v), v.consumed))
    <3>1. CASE new.limit = Unlimited
      BY <3>1, <2>5, <2>7 DEF Plus, AtLeast
    <3>2. CASE new.limit # Unlimited
      BY <3>2, <2>1, <2>5, <2>6
         DEF WithinGrant, Left, Plus, AtLeast, Amount, Remaining, Larger
    <3>. QED  BY <3>1, <3>2
  <2>9. WithinGrant(v)  BY <2>5, <2>6, <2>7, <2>8 DEF WithinGrant
  <2>. QED  BY <2>4, <2>9 DEF Sound
<1>. QED  BY <1>1, <1>2

LEMMA ConsumedSound ==
  ASSUME NEW u, Sound(u), NEW n \in Nat, Allows(u, n)
  PROVE  Sound(Consumed(u, n))
<1>1. /\ u \in UsageState /\ u.ceiling \in Amount /\ u.carried \in Amount
      /\ u.balance \in Amount /\ u.rollover \in Amount /\ u.usage \in Nat
      /\ u.consumed \in Nat /\ Unlimited \notin Nat
  BY MeterAssumption DEF UsageState, Sound
<1>. DEFINE used == [u EXCEPT !.usage = @ + n, !.consumed = @ + n]
<1>2. /\ used \in UsageState /\ used.rollover = u.rollover /\ used.balance = u.balance
      /\ used.consumed = u.consumed + n /\ used.usage = u.usage + n
      /\ used.ceiling = u.ceiling /\ used.carried = u.carried /\ used.limit = u.limit
  <2>1. u.usage + n \in Nat /\ u.consumed + n \in Nat  BY <1>1
  <2>. QED  BY <1>1, <2>1 DEF UsageState
<1>3. WithinGrant(u)  BY DEF Sound
<1>4. CASE u.limit = Unlimited
  <2>1. Consumed(u, n) = used  BY <1>4 DEF Consumed
  <2>2. u.ceiling = Unlimited  BY <1>3, <1>4 DEF WithinGrant
  <2>3. WithinGrant(used)
    BY <1>1, <1>2, <1>3, <2>2 DEF WithinGrant, Plus, AtLeast
  <2>. QED  BY <1>2, <2>1, <2>3 DEF Sound
<1>5. CASE u.limit # Unlimited /\ AtLeast(u.rollover, n)
  <2>. DEFINE v == [used EXCEPT !.rollover = Minus(@, n)]
  <2>1. Consumed(u, n) = v  BY <1>5 DEF Consumed
  <2>2. Minus(u.rollover, n) \in Amount
    BY <1>1, <1>5 DEF Minus, AtLeast, Amount
  <2>3. v \in UsageState  BY <1>2, <2>2 DEF UsageState
  <2>4. /\ v.rollover = Minus(u.rollover, n) /\ v.balance = u.balance
        /\ v.consumed = u.consumed + n /\ v.usage = u.usage + n
        /\ v.ceiling = u.ceiling /\ v.carried = u.carried /\ v.limit = u.limit
    BY <1>2 DEF UsageState
  <2>5. WithinGrant(v)
    BY <1>1, <1>3, <1>5, <2>4 DEF WithinGrant, Left, Plus, Minus, AtLeast, Amount
  <2>. QED  BY <2>1, <2>3, <2>5 DEF Sound
<1>6. CASE u.limit # Unlimited /\ ~AtLeast(u.rollover, n)
  <2>. DEFINE v == [used EXCEPT !.rollover = 0, !.balance = Minus(@, n - u.rollover)]
  <2>1. Consumed(u, n) = v  BY <1>6 DEF Consumed
  <2>2. u.rollover \in Nat /\ n - u.rollover \in Nat
    BY <1>1, <1>6 DEF AtLeast, Amount
  <2>3. u.balance = Unlimited \/ u.balance >= n - u.rollover
    BY <1>1, <1>6, <2>2 DEF Allows, Left, Plus, AtLeast, Amount
  <2>4. Minus(u.balance, n - u.rollover) \in Amount
    BY <1>1, <2>2, <2>3 DEF Minus, Amount
  <2>5. v \in UsageState  BY <1>2, <2>4 DEF UsageState, Amount
  <2>6. /\ v.rollover = 0 /\ v.balance = Minus(u.balance, n - u.rollover)
        /\ v.consumed = u.consumed + n /\ v.usage = u.usage + n
        /\ v.ceiling = u.ceiling /\ v.carried = u.carried /\ v.limit = u.limit
    BY <1>2 DEF UsageState
  <2>7. WithinGrant(v)
    BY <1>1, <1>3, <2>2, <2>3, <2>6 DEF WithinGrant, Left, Plus, Minus, AtLeast, Amount
  <2>. QED  BY <2>1, <2>5, <2>7 DEF Sound
<1>. QED  BY <1>4, <1>5, <1>6

LEMMA OlderSound ==
  ASSUME NEW u, Sound(u)
  PROVE  Sound(Older(u))
<1>1. u \in UsageState /\ u.age \in 0..MaxAge /\ MaxAge \in Nat
  BY MeterAssumption DEF Sound, UsageState
<1>2. Older(u) \in UsageState  BY <1>1 DEF Older, UsageState
<1>3. /\ Older(u).balance = u.balance /\ Older(u).rollover = u.rollover
      /\ Older(u).ceiling = u.ceiling /\ Older(u).carried = u.carried
      /\ Older(u).consumed = u.consumed /\ Older(u).usage = u.usage
      /\ Older(u).limit = u.limit
  BY <1>1 DEF Older, UsageState
<1>. QED  BY <1>2, <1>3 DEF Sound, WithinGrant, Left

-----------------------------------------------------------------------------
(* A set of waiting times has a soonest one: of the intervals up to each,  *)
(* which are finite sets, one has none of the others strictly inside.      *)
LEMMA SoonestIsLeast ==
  ASSUME NEW W \in SUBSET Nat, W # {}
  PROVE  Soonest(W) \in W /\ \A v \in W : Soonest(W) <= v
<1>. DEFINE upTo == {0..w : w \in W}
<1>1. upTo \subseteq FiniteSubsetsOf(Nat)
  <2>. SUFFICES ASSUME NEW w \in W  PROVE 0..w \in FiniteSubsetsOf(Nat)
    OBVIOUS
  <2>1. w \in Int /\ 0 \in Int /\ 0..w \in SUBSET Nat  OBVIOUS
  <2>2. IsFiniteSet(0..w)  BY <2>1, FS_Interval
  <2>. QED  BY <2>1, <2>2 DEF FiniteSubsetsOf
<1>2. upTo # {}  OBVIOUS
<1>3. PICK x \in upTo : \A y \in upTo : <<y, x>> \notin StrictSubsetOrdering(Nat)
  <2>. HIDE DEF upTo
  <2>. QED  BY <1>1, <1>2, FS_StrictSubsetOrderingWellFounded, WFMin
<1>4. PICK w \in W : x = 0..w  OBVIOUS
<1>5. ASSUME NEW v \in W  PROVE w <= v
  <2>. SUFFICES ASSUME v < w  PROVE FALSE  OBVIOUS
  <2>1. 0..v \subseteq 0..w /\ w \in 0..w /\ w \notin 0..v  OBVIOUS
  <2>2. 0..v \in SUBSET Nat /\ 0..w \in SUBSET Nat  OBVIOUS
  <2>3. <<0..v, 0..w>> \in StrictSubsetOrdering(Nat)
    BY <2>1, <2>2 DEF StrictSubsetOrdering
  <2>. QED  BY <1>3, <1>4, <2>3
<1>. QED  BY <1>5 DEF Soonest

LEMMA WaitInNat ==
  ASSUME NEW m, WellFormed(m), NEW f \in Features, Resets(m, f)
  PROVE  Wait(m, f) \in Nat /\ Wait(m, f) >= 1
<1>1. m.usage[f] \in UsageState /\ m.config[f] \in FeatureConfig
  BY DEF WellFormed, Meters, Resets, Known
<1>2. m.usage[f].age \in Nat /\ m.config[f].interval \in Nat
  BY <1>1, ConfigFields, MeterAssumption DEF UsageState
<1>. QED  BY <1>2 DEF Wait, Due

(* Scheduling the alarm covers every reset. *)
LEMMA ScheduledCovers ==
  ASSUME NEW m, WellFormed(m)
  PROVE  /\ WellFormed(Scheduled(m)) /\ Covered(Scheduled(m))
         /\ Scheduled(m).usage = m.usage /\ Scheduled(m).config = m.config
<1>. DEFINE waits == {Wait(m, f) : f \in {g \in Features : Resets(m, g)}}
            s == Scheduled(m)
<1>1. waits \in SUBSET Nat  BY WaitInNat
<1>2. CASE waits = {}
  <2>1. s = m  BY <1>2 DEF Scheduled
  <2>2. \A f \in Features : ~Resets(m, f)  BY <1>2
  <2>. QED  BY <2>1, <2>2 DEF Covered
<1>3. CASE waits # {}
  <2>1. s = [m EXCEPT !.alarm = Soonest(waits)]  BY <1>3 DEF Scheduled
  <2>2. Soonest(waits) \in Nat /\ \A w \in waits : Soonest(waits) <= w
    BY <1>1, <1>3, SoonestIsLeast
  <2>3. m \in Meters  BY DEF WellFormed
  <2>4. s.usage = m.usage /\ s.config = m.config /\ s.alarm = Soonest(waits)
    BY <2>1, <2>3 DEF Meters
  <2>5. s \in Meters  BY <2>1, <2>2, <2>3 DEF Meters
  <2>6. WellFormed(s)  BY <2>4, <2>5 DEF WellFormed
  <2>7. \A f \in Features : /\ Resets(s, f) <=> Resets(m, f)
                            /\ Wait(s, f) = Wait(m, f)
    BY <2>4 DEF Resets, Known, Wait, Due
  <2>8. Covered(s)
    <3>. SUFFICES ASSUME NEW f \in Features, Resets(s, f)
                  PROVE  s.alarm \in Nat /\ s.alarm <= Wait(s, f)
      BY DEF Covered
    <3>1. Wait(m, f) \in waits  BY <2>7
    <3>. QED  BY <2>2, <2>4, <2>7, <3>1
  <2>. QED  BY <2>4, <2>6, <2>8
<1>. QED  BY <1>2, <1>3

(* A record that differs from a well-formed one in one feature only, and *)
(* whose state of it is sound, is well formed.                           *)
LEMMA UpdateWellFormed ==
  ASSUME NEW m, WellFormed(m), NEW r \in Meters, NEW f \in Features,
         \A g \in Features : g # f =>
           r.usage[g] = m.usage[g] /\ r.config[g] = m.config[g],
         r.usage[f] # NoState => Sound(r.usage[f]) /\ r.config[f] # NoConfig
  PROVE  WellFormed(r)
BY DEF WellFormed, Sound

-----------------------------------------------------------------------------
(* What each call makes of a well-formed, covered object. *)

LEMMA StateTyped ==
  ASSUME NEW m, WellFormed(m), NEW f \in Features, m.usage[f] # NoState
  PROVE  Sound(m.usage[f]) /\ m.config[f] \in FeatureConfig /\ m.config[f] # NoConfig
BY DEF WellFormed, Meters, Sound

LEMMA StoredWellFormed ==
  ASSUME NEW m, WellFormed(m), NEW f \in Features, NEW c \in FeatureConfig
  PROVE  WellFormed(Stored(m, f, c))
<1>1. CASE m.usage[f] # NoState /\ ~Changed(m.config[f], c)
  BY <1>1 DEF Stored
<1>2. CASE m.usage[f] = NoState
  <2>. DEFINE s == [m EXCEPT !.config[f] = c]
  <2>1. m \in Meters  BY DEF WellFormed
  <2>2. Stored(m, f, c) = s  BY <1>2, <2>1 DEF Stored, Meters
  <2>3. s \in Meters /\ s.usage = m.usage
        /\ \A g \in Features : g # f => s.config[g] = m.config[g]
    BY <2>1 DEF Meters
  <2>4. WellFormed(s)  BY <1>2, <2>3, UpdateWellFormed
  <2>. QED  BY <2>2, <2>4
<1>3. CASE m.usage[f] # NoState /\ Changed(m.config[f], c)
  <2>1. Sound(m.usage[f]) /\ m.config[f] \in FeatureConfig
    BY <1>3, StateTyped
  <2>. DEFINE u == Resynced(m.usage[f], m.config[f], c)
  <2>2. Sound(u)  BY <2>1, ResyncedSound
  <2>3. m \in Meters  BY DEF WellFormed
  <2>4. u \in UsageState /\ c # NoConfig  BY <2>2, MeterAssumption DEF Sound
  <2>. DEFINE s == [m EXCEPT !.config[f] = c, !.usage[f] = u]
  <2>5. Stored(m, f, c) = s
    BY <1>3, <2>3 DEF Stored, Meters
  <2>6. s \in Meters /\ s.usage[f] = u /\ s.config[f] = c
        /\ \A g \in Features : g # f =>
             s.usage[g] = m.usage[g] /\ s.config[g] = m.config[g]
    <3>. HIDE DEF u
    <3>. QED  BY <2>3, <2>4 DEF Meters
  <2>. HIDE DEF u, s
  <2>7. WellFormed(s)  BY <2>2, <2>4, <2>6, UpdateWellFormed
  <2>. QED  BY <2>5, <2>7
<1>. QED  BY <1>1, <1>2, <1>3

LEMMA ResetFeatureWellFormed ==
  ASSUME NEW m, WellFormed(m), NEW f \in Features, Due(m, f)
  PROVE  WellFormed(ResetFeature(m, f))
<1>1. Sound(m.usage[f]) /\ m.config[f] \in FeatureConfig /\ m.config[f] # NoConfig
  BY StateTyped DEF Due, Resets, Known
<1>2. Sound(ResetUsage(m.usage[f], m.config[f]))
  BY <1>1, ResetSound DEF Sound
<1>3. m \in Meters  BY DEF WellFormed
<1>. DEFINE u == ResetUsage(m.usage[f], m.config[f])
            s == [m EXCEPT !.usage[f] = u]
<1>4. ResetFeature(m, f) = s  BY <1>3 DEF ResetFeature, Meters
<1>5. u \in UsageState  BY <1>2 DEF Sound
<1>6. s \in Meters /\ s.usage[f] = u /\ s.config = m.config
      /\ \A g \in Features : g # f => s.usage[g] = m.usage[g]
  <2>. HIDE DEF u
  <2>. QED  BY <1>3, <1>5 DEF Meters
<1>. HIDE DEF s
<1>7. WellFormed(s)  BY <1>1, <1>2, <1>6, UpdateWellFormed
<1>. QED  BY <1>4, <1>7

LEMMA MaybeResetKeeps ==
  ASSUME NEW m, WellFormed(m), NEW f \in Features
  PROVE  WellFormed(MaybeReset(m, f)) /\ (Covered(m) => Covered(MaybeReset(m, f)))
<1>1. CASE Due(m, f)
  BY <1>1, ResetFeatureWellFormed, ScheduledCovers DEF MaybeReset
<1>2. CASE ~Due(m, f)  BY <1>2 DEF MaybeReset
<1>. QED  BY <1>1, <1>2

LEMMA SyncConfigKeeps ==
  ASSUME NEW m, WellFormed(m), NEW f \in Features, NEW c \in FeatureConfig
  PROVE  WellFormed(SyncConfig(m, f, c)) /\ (Covered(m) => Covered(SyncConfig(m, f, c)))
<1>. DEFINE s == Stored(m, f, c)
<1>1. WellFormed(s)  BY StoredWellFormed
<1>2. m \in Meters  BY DEF WellFormed
<1>3. CASE m.usage[f] # NoState /\ ~Changed(m.config[f], c)
  BY <1>3 DEF SyncConfig, Stored
<1>4. CASE m.usage[f] = NoState
  <2>1. SyncConfig(m, f, c) = s  BY <1>4 DEF SyncConfig
  <2>2. s = [m EXCEPT !.config[f] = c]  BY <1>2, <1>4 DEF Stored, Meters
  <2>3. s.usage = m.usage /\ s.alarm = m.alarm
        /\ \A g \in Features : g # f => s.config[g] = m.config[g]
    BY <1>2, <2>2 DEF Meters
  <2>4. \A g \in Features : Resets(s, g) => g # f  BY <1>4, <2>3 DEF Resets, Known
  <2>5. Covered(m) => Covered(s)
    BY <2>3, <2>4 DEF Covered, Resets, Known, Wait, Due
  <2>. QED  BY <1>1, <2>1, <2>5
<1>5. CASE m.usage[f] # NoState /\ Changed(m.config[f], c)
  <2>1. SyncConfig(m, f, c) = MaybeReset(Scheduled(s), f)  BY <1>5 DEF SyncConfig
  <2>2. WellFormed(Scheduled(s)) /\ Covered(Scheduled(s))  BY <1>1, ScheduledCovers
  <2>. QED  BY <2>1, <2>2, MaybeResetKeeps
<1>. QED  BY <1>3, <1>4, <1>5

LEMMA PreparedKeeps ==
  ASSUME NEW m, WellFormed(m), NEW f \in Features, NEW c \in FeatureConfig
  PROVE  WellFormed(Prepared(m, f, c)) /\ (Covered(m) => Covered(Prepared(m, f, c)))
BY SyncConfigKeeps, MaybeResetKeeps DEF Prepared

LEMMA TrackedKeeps ==
  ASSUME NEW m, WellFormed(m), NEW f \in Features, NEW d \in Deltas
  PROVE  WellFormed(Tracked(m, f, d)) /\ (Covered(m) => Covered(Tracked(m, f, d)))
<1>1. CASE ~CanTrack(m, f, d)  BY <1>1 DEF Tracked
<1>2. CASE CanTrack(m, f, d)
  <2>. DEFINE u == m.usage[f]
              n == Cost(m.config[f], d)
              v == Consumed(u, n)
              t == Tracked(m, f, d)
  <2>1. Sound(u) /\ m.config[f] \in FeatureConfig /\ m.config[f] # NoConfig
    BY <1>2, StateTyped DEF CanTrack, Known
  <2>2. n \in Nat /\ Allows(u, n)  BY <1>2, <2>1, CostPositive DEF CanTrack
  <2>3. Sound(v)  BY <2>1, <2>2, ConsumedSound
  <2>4. m \in Meters /\ u \in UsageState  BY <2>1 DEF WellFormed, Sound
  <2>5. t = [m EXCEPT !.usage[f] = v]  BY <1>2, <2>4 DEF Tracked, Meters
  <2>6. v \in UsageState  BY <2>3 DEF Sound
  <2>7. v.age = u.age  BY <2>4 DEF Consumed, UsageState
  <2>8. t \in Meters /\ t.config = m.config /\ t.alarm = m.alarm
        /\ \A g \in Features : t.usage[g] = IF g = f THEN v ELSE m.usage[g]
    <3>. HIDE DEF v, t
    <3>. QED  BY <2>4, <2>5, <2>6 DEF Meters
  <2>11. WellFormed(t)
    <3>. HIDE DEF v, t
    <3>. QED  BY <2>1, <2>3, <2>8, UpdateWellFormed
  <2>9. v # NoState /\ u # NoState
    BY <2>3, <2>4, MeterAssumption DEF Sound
  <2>10. \A g \in Features : (Resets(t, g) <=> Resets(m, g)) /\ Wait(t, g) = Wait(m, g)
    BY <2>7, <2>8, <2>9 DEF Resets, Known, Wait, Due
  <2>. QED  BY <2>8, <2>10, <2>11 DEF Covered
<1>. QED  BY <1>1, <1>2

LEMMA ConfiguredWellFormed ==
  ASSUME NEW m, WellFormed(m), NEW f \in Features, NEW c \in FeatureConfig, NEW n \in Nat
  PROVE  WellFormed(Configured(m, f, c, n))
<1>. DEFINE u == IF m.usage[f] = NoState \/ c.resetOnEnable
                 THEN Granted(c, n, 0) ELSE m.usage[f]
<1>1. 0 \in Amount /\ m \in Meters  BY DEF Amount, WellFormed
<1>2. Sound(u)  BY <1>1, GrantedSound, StateTyped
<1>. DEFINE s == [m EXCEPT !.config[f] = c, !.usage[f] = u]
<1>3. Configured(m, f, c, n) = s  BY <1>1 DEF Configured, Meters
<1>4. u \in UsageState /\ c # NoConfig  BY <1>2, MeterAssumption DEF Sound
<1>5. s \in Meters /\ s.usage[f] = u /\ s.config[f] = c
      /\ \A g \in Features : g # f =>
           s.usage[g] = m.usage[g] /\ s.config[g] = m.config[g]
  <2>. HIDE DEF u
  <2>. QED  BY <1>1, <1>4 DEF Meters
<1>. HIDE DEF u, s
<1>6. WellFormed(s)  BY <1>2, <1>4, <1>5, UpdateWellFormed
<1>. QED  BY <1>3, <1>6

LEMMA ConfigureKeeps ==
  ASSUME NEW m, WellFormed(m), NEW f \in Features, NEW c \in FeatureConfig, NEW n \in Nat
  PROVE  /\ WellFormed(ConfigureFeature(m, f, c, n))
         /\ Covered(m) => Covered(ConfigureFeature(m, f, c, n))
<1>. DEFINE s == Configured(m, f, c, n)
<1>1. WellFormed(s)  BY ConfiguredWellFormed
<1>2. CASE c.interval > 0
  BY <1>1, <1>2, ScheduledCovers DEF ConfigureFeature
<1>3. CASE ~(c.interval > 0)
  <2>1. ConfigureFeature(m, f, c, n) = s  BY <1>3 DEF ConfigureFeature
  <2>2. m \in Meters  BY DEF WellFormed
  <2>3. /\ s.alarm = m.alarm /\ s.config[f] = c
        /\ \A g \in Features : g # f =>
             s.usage[g] = m.usage[g] /\ s.config[g] = m.config[g]
    BY <2>2 DEF Configured, Meters
  <2>4. \A g \in Features : Resets(s, g) => g # f  BY <1>3, <2>3 DEF Resets
  <2>5. Covered(m) => Covered(s)
    BY <2>3, <2>4 DEF Covered, Resets, Known, Wait, Due
  <2>. QED  BY <1>1, <2>1, <2>5
<1>. QED  BY <1>2, <1>3

LEMMA AllResetWellFormed ==
  ASSUME NEW m, WellFormed(m), NEW due \in SUBSET {f \in Features : Due(m, f)}
  PROVE  WellFormed(AllReset(m, due))
<1>. DEFINE r == AllReset(m, due)
            u(f) == IF f \in due THEN ResetUsage(m.usage[f], m.config[f]) ELSE m.usage[f]
<1>1. m \in Meters  BY DEF WellFormed
<1>2. \A f \in Features : m.usage[f] # NoState => Sound(u(f))
  <2>. TAKE f \in Features
  <2>. HAVE m.usage[f] # NoState
  <2>1. Sound(m.usage[f]) /\ m.config[f] \in FeatureConfig  BY StateTyped
  <2>2. m.usage[f] \in UsageState  BY <2>1 DEF Sound
  <2>. QED  BY <2>1, <2>2, ResetSound
<1>3. \A f \in Features : m.usage[f] = NoState => u(f) = NoState
  BY DEF Due, Resets, Known
<1>4. r.config = m.config /\ r.alarm = m.alarm /\ r.usage = [f \in Features |-> u(f)]
  BY <1>1 DEF AllReset, Meters
<1>5. r \in [usage : [Features -> UsageState \cup {NoState}],
             config : [Features -> FeatureConfig \cup {NoConfig}],
             alarm : Nat \cup {NoAlarm}]
  <2>1. [f \in Features |-> u(f)] \in [Features -> UsageState \cup {NoState}]
    <3>. SUFFICES ASSUME NEW f \in Features PROVE u(f) \in UsageState \cup {NoState}
      OBVIOUS
    <3>. QED  BY <1>2, <1>3 DEF Sound
  <2>2. r = [m EXCEPT !.usage = [f \in Features |-> u(f)]]  BY DEF AllReset
  <2>. HIDE DEF u, r
  <2>. QED  BY <1>1, <2>1, <2>2 DEF Meters
<1>6. \A f \in Features : r.usage[f] = u(f)  BY <1>4
<1>. HIDE DEF u, r
<1>7. r \in Meters  BY <1>5 DEF Meters
<1>8. \A f \in Features : r.config[f] = NoConfig => r.usage[f] = NoState
  BY <1>3, <1>4, <1>6 DEF WellFormed
<1>9. \A f \in Features : r.usage[f] # NoState => WithinGrant(r.usage[f])
  BY <1>2, <1>3, <1>6 DEF Sound
<1>10. WellFormed(r)  BY <1>7, <1>8, <1>9 DEF WellFormed
<1>. QED  BY <1>10 DEF r

-----------------------------------------------------------------------------
LEMMA MeterFields ==
  /\ Meter.usage = usage /\ Meter.config = config /\ Meter.alarm = alarm
BY DEF Meter

(* A call that leaves a well-formed, covered object keeps the invariant. *)
LEMMA BecomesKeeps ==
  ASSUME NEW m, WellFormed(m), Covered(Meter) => Covered(m),
         IInv, Becomes(m), UNCHANGED crashes
  PROVE  IInv'
<1>1. Meter' = [usage |-> m.usage, config |-> m.config, alarm |-> m.alarm]
  BY DEF Meter, Becomes
<1>2. m = [usage |-> m.usage, config |-> m.config, alarm |-> m.alarm]
  BY DEF WellFormed, Meters
<1>3. Meter' = m  BY <1>1, <1>2
<1>4. WellFormed(Meter)'  BY <1>3 DEF WellFormed
<1>5. Covered(Meter)' = Covered(Meter')
  BY DEF Covered, Resets, Known, Wait, Due
<1>. QED  BY <1>3, <1>4, <1>5 DEF IInv

LEMMA CrashKeeps ==
  ASSUME NEW m, WellFormed(m), IInv, Crash(m)
  PROVE  IInv'
<1>. DEFINE s == [m EXCEPT !.alarm = alarm]
<1>1. m \in Meters /\ alarm \in Nat \cup {NoAlarm}
  BY MeterFields DEF IInv, WellFormed, Meters
<1>2. s \in Meters /\ s.usage = m.usage /\ s.config = m.config
  BY <1>1 DEF Meters
<1>3. WellFormed(s)  BY <1>2 DEF WellFormed
<1>4. Meter' = [usage |-> s.usage, config |-> s.config, alarm |-> s.alarm]
  BY DEF Meter, Becomes, Crash
<1>5. s = [usage |-> s.usage, config |-> s.config, alarm |-> s.alarm]
  BY <1>2 DEF Meters
<1>6. WellFormed(Meter)'
  <2>. HIDE DEF s
  <2>1. Meter' = s  BY <1>4, <1>5
  <2>. QED  BY <1>3, <2>1 DEF WellFormed
<1>7. crashes' \in 1..MaxCrashes
  BY MeterAssumption DEF Crash, IInv
<1>. QED  BY <1>6, <1>7 DEF IInv

LEMMA TickKeeps ==
  ASSUME IInv, Tick
  PROVE  IInv'
<1>1. WellFormed(Meter) /\ Meter \in Meters  BY DEF IInv, WellFormed
<1>2. /\ usage \in [Features -> UsageState \cup {NoState}]
      /\ config \in [Features -> FeatureConfig \cup {NoConfig}]
      /\ alarm \in Nat \cup {NoAlarm}
  BY <1>1, MeterFields DEF Meters
<1>3. \A f \in Features : usage[f] # NoState => Sound(usage[f]) /\ config[f] \in FeatureConfig
  BY <1>1, StateTyped, MeterFields
<1>4. \A f \in Features : usage[f] # NoState =>
        /\ usage'[f] = Older(usage[f]) /\ Sound(usage'[f]) /\ usage'[f] # NoState
  BY <1>3, OlderSound, MeterAssumption DEF Tick, Sound
<1>5. \A f \in Features : usage[f] = NoState => usage'[f] = NoState
  BY DEF Tick
<1>6. usage' \in [Features -> UsageState \cup {NoState}]
  <2>1. \A f \in Features : usage'[f] \in UsageState \cup {NoState}
    BY <1>4, <1>5 DEF Sound
  <2>2. usage' = [f \in Features |-> usage'[f]]  BY DEF Tick
  <2>. QED  BY <2>1, <2>2
<1>7. alarm' \in Nat \cup {NoAlarm} /\ config' = config
  BY <1>2 DEF Tick
<1>8. WellFormed(Meter)'
  <2>1. Meter' = [usage |-> usage', config |-> config, alarm |-> alarm']
    BY <1>7 DEF Meter
  <2>2. Meter' \in Meters  BY <1>2, <1>6, <1>7, <2>1 DEF Meters
  <2>3. Meter'.usage = usage' /\ Meter'.config = config  BY <2>1
  <2>4. \A f \in Features : config[f] = NoConfig => usage[f] = NoState
    BY <1>1, MeterFields DEF WellFormed
  <2>. QED  BY <1>4, <1>5, <2>2, <2>3, <2>4 DEF WellFormed, Sound
<1>9. Covered(Meter) => Covered(Meter)'
  <2>. SUFFICES ASSUME Covered(Meter), NEW f \in Features, Resets(Meter, f)'
                PROVE  (alarm \in Nat /\ alarm <= Wait(Meter, f))'
    BY DEF Covered, Meter
  <2>1. usage[f] # NoState /\ config[f] # NoConfig /\ config[f].interval > 0
    BY <1>5, <1>7 DEF Resets, Known, Meter
  <2>2. Resets(Meter, f)  BY <2>1 DEF Resets, Known, Meter
  <2>3. alarm \in Nat /\ alarm <= Wait(Meter, f)
    BY <2>2, MeterFields DEF Covered
  <2>4. usage[f] \in UsageState /\ config[f] \in FeatureConfig
    BY <1>3, <2>1 DEF Sound
  <2>5. usage[f].age \in 0..MaxAge /\ config[f].interval \in Nat /\ MaxAge \in Nat
    BY <2>4, ConfigFields, MeterAssumption DEF UsageState
  <2>6. usage'[f].age = IF usage[f].age < MaxAge THEN usage[f].age + 1 ELSE usage[f].age
    BY <1>4, <2>1, <2>4 DEF Older, UsageState
  <2>7. alarm' = IF alarm = 0 THEN 0 ELSE alarm - 1
    BY <2>3, MeterAssumption DEF Tick
  <2>8. Wait(Meter, f) = IF usage[f].age >= config[f].interval THEN 1
                         ELSE config[f].interval - usage[f].age
    BY <2>2, MeterFields DEF Wait, Due
  <2>9. Wait(Meter, f)' = IF usage'[f].age >= config[f].interval THEN 1
                          ELSE config[f].interval - usage'[f].age
    <3>1. Wait(Meter, f)' = IF (Resets(Meter, f) /\ usage[f].age >= config[f].interval)'
                            THEN 1 ELSE (config[f].interval - usage[f].age)'
      BY DEF Wait, Due, Resets, Meter
    <3>. QED  BY <1>7, <3>1
  <2>. QED  BY <2>3, <2>5, <2>6, <2>7, <2>8, <2>9
<1>10. crashes' = crashes  BY DEF Tick
<1>. QED  BY <1>8, <1>9, <1>10 DEF IInv

-----------------------------------------------------------------------------
LEMMA InitIInv == Init => IInv
<1>. SUFFICES ASSUME Init PROVE IInv  OBVIOUS
<1>1. Meter \in Meters  BY DEF Init, Meter, Meters
<1>2. \A f \in Features : Meter.usage[f] = NoState  BY DEF Init, Meter
<1>3. WellFormed(Meter) /\ Covered(Meter)
  BY <1>1, <1>2 DEF WellFormed, Covered, Resets, Known
<1>. QED  BY <1>3, MeterAssumption DEF Init, IInv

LEMMA NextIInv == IInv /\ [Next]_vars => IInv'
<1>. SUFFICES ASSUME IInv, [Next]_vars PROVE IInv'  OBVIOUS
<1>1. WellFormed(Meter)  BY DEF IInv
<1>2. \A f \in Features : \A c \in Offers[f] : c \in FeatureConfig
  BY MeterAssumption
<1>3. \A n \in InitialUses : n \in Nat  BY MeterAssumption
<1>4. ASSUME NEW f \in Features, NEW c \in Offers[f], Check(f, c)  PROVE IInv'
  BY <1>1, <1>2, <1>4, PreparedKeeps, BecomesKeeps DEF Check
<1>5. ASSUME NEW f \in Features, NEW c \in Offers[f], NEW d \in Deltas, Track(f, c, d)
      PROVE  IInv'
  <2>. DEFINE m == Prepared(Meter, f, c)
  <2>1. WellFormed(m) /\ (Covered(Meter) => Covered(m))
    BY <1>1, <1>2, PreparedKeeps
  <2>2. WellFormed(Tracked(m, f, d)) /\ (Covered(m) => Covered(Tracked(m, f, d)))
    BY <2>1, TrackedKeeps
  <2>. QED  BY <1>5, <2>1, <2>2, BecomesKeeps DEF Track
<1>6. ASSUME NEW f \in Features, NEW c \in Offers[f], CrashInSync(f, c)  PROVE IInv'
  BY <1>1, <1>2, <1>6, StoredWellFormed, CrashKeeps DEF CrashInSync
<1>7. ASSUME NEW f \in Features, NEW c \in Offers[f], NEW n \in InitialUses, Configure(f, c, n)
      PROVE  IInv'
  BY <1>1, <1>2, <1>3, <1>7, ConfigureKeeps, BecomesKeeps DEF Configure
<1>8. ASSUME NEW f \in Features, NEW c \in Offers[f], NEW n \in InitialUses,
             CrashInConfigure(f, c, n)
      PROVE  IInv'
  BY <1>1, <1>2, <1>3, <1>8, ConfiguredWellFormed, CrashKeeps DEF CrashInConfigure
<1>9. ASSUME NEW f \in Features, CrashInReset(f)  PROVE IInv'
  BY <1>1, <1>9, ResetFeatureWellFormed, CrashKeeps DEF CrashInReset
<1>10. CASE Alarm
  <2>. DEFINE r == AllReset(Meter, DueNow)
              s == [r EXCEPT !.alarm = NoAlarm]
  <2>1. WellFormed(r)  BY <1>1, AllResetWellFormed DEF DueNow
  <2>2. r \in Meters  BY <2>1 DEF WellFormed
  <2>. HIDE DEF r
  <2>3. s \in Meters /\ s.usage = r.usage /\ s.config = r.config
    BY <2>2 DEF Meters
  <2>4. WellFormed(s)  BY <2>1, <2>3 DEF WellFormed
  <2>. HIDE DEF s
  <2>5. WellFormed(Scheduled(s)) /\ Covered(Scheduled(s))
    BY <2>4, ScheduledCovers
  <2>6. Becomes(Scheduled(s)) /\ UNCHANGED crashes
    BY <1>10 DEF Alarm, r, s
  <2>. QED  BY <2>5, <2>6, BecomesKeeps
<1>11. CASE CrashInAlarm
  <2>1. PICK due \in SUBSET DueNow : Crash(AllReset(Meter, due))
    BY <1>11 DEF CrashInAlarm
  <2>2. WellFormed(AllReset(Meter, due))
    BY <1>1, AllResetWellFormed DEF DueNow
  <2>. QED  BY <2>1, <2>2, CrashKeeps
<1>12. CASE Tick  BY <1>12, TickKeeps
<1>13. CASE UNCHANGED vars
  <2>1. Meter' = Meter /\ crashes' = crashes  BY <1>13 DEF vars, Meter
  <2>2. WellFormed(Meter)'  BY <1>1, <2>1 DEF WellFormed
  <2>3. Covered(Meter) => Covered(Meter)'
    BY <2>1, <1>13 DEF Covered, Resets, Known, Wait, Due
  <2>. QED  BY <2>1, <2>2, <2>3 DEF IInv
<1>. QED
  BY <1>4, <1>5, <1>6, <1>7, <1>8, <1>9, <1>10, <1>11, <1>12, <1>13 DEF Next

(* The invariant holds in every state the meter reaches, which the three *)
(* theorems below draw on.                                               *)
THEOREM Invariance == Spec => []IInv
BY InitIInv, NextIInv, PTL DEF Spec

(* The types of the meter's state, and no state without configuration. *)
THEOREM TypeCorrect == Spec => []TypeOK
<1>1. IInv => TypeOK
  <2>. SUFFICES ASSUME IInv PROVE TypeOK  OBVIOUS
  <2>1. Meter \in Meters /\ \A f \in Features : Meter.config[f] = NoConfig => Meter.usage[f] = NoState
    BY DEF IInv, WellFormed
  <2>. QED  BY <2>1, MeterFields DEF TypeOK, Meters, IInv
<1>. QED  BY <1>1, Invariance, PTL

(* Whatever configurations, resets and crashes happen, a customer is     *)
(* served no more than the grants since the last one allow.              *)
THEOREM ServedWithinGrant == Spec => []ConsumedWithinGrant
<1>1. IInv => ConsumedWithinGrant
  <2>. SUFFICES ASSUME IInv, NEW f \in Features, usage[f] # NoState
                PROVE  AtLeast(Plus(usage[f].ceiling, usage[f].carried), usage[f].consumed)
    BY DEF ConsumedWithinGrant
  <2>1. Sound(usage[f])  BY StateTyped, MeterFields DEF IInv
  <2>. DEFINE u == usage[f]
  <2>2. /\ u.ceiling \in Amount /\ u.carried \in Amount /\ u.balance \in Amount
        /\ u.rollover \in Amount /\ u.consumed \in Nat /\ Unlimited \notin Nat
    BY <2>1, MeterAssumption DEF Sound, UsageState
  <2>3. AtLeast(Plus(u.ceiling, u.carried), Plus(Left(u), u.consumed))
    BY <2>1 DEF Sound, WithinGrant
  <2>. HIDE DEF u
  <2>4. AtLeast(Plus(u.ceiling, u.carried), u.consumed)
    BY <2>2, <2>3 DEF AtLeast, Plus, Left, Amount
  <2>. QED  BY <2>4 DEF u
<1>. QED  BY <1>1, Invariance, PTL

(* Unless the object dies between a persist and the setAlarm after it,   *)
(* its one alarm comes no later than the next reset of every feature.    *)
THEOREM AlarmBeforeReset == Spec => []AlarmCovers
<1>1. IInv => AlarmCovers
  BY MeterFields DEF IInv, AlarmCovers, Covered
<1>. QED  BY <1>1, Invariance, PTL

-----------------------------------------------------------------------------
(* The meter implements module Quota.  What a call may make of the state u *)
(* of a feature, in the terms of the state.                                *)
LimitsOf(f) == {c.limit : c \in Offers[f]}
CarryOf(c) == IF c.rolloverEnabled THEN c.rolloverMaxBalance ELSE 0
NoMore(a, b) == b = Unlimited \/ (a # Unlimited /\ a <= b)
RaisedTo(f, limit) == {limit} \cup {l \in LimitsOf(f) : NoMore(limit, l)}

Begins(f, v) == v.ceiling \in LimitsOf(f) /\ v.carried = 0 /\ v.age = 0
GoesOn(f, u, v) ==
  /\ v.ceiling \in RaisedTo(f, u.ceiling) /\ v.carried = u.carried
  /\ u.consumed <= v.consumed
  /\ v.age = u.age \/ (v.age = 0 /\ \E c, d \in Offers[f] : c.interval # d.interval)
CarriesOver(f, u, v) ==
  /\ \E c \in Offers[f] : 0 < c.interval /\ c.interval <= u.age
  /\ v.ceiling \in LimitsOf(f) /\ v.age = 0
  /\ \E c \in Offers[f] : NoMore(v.carried, CarryOf(c))
  /\ \E limit \in RaisedTo(f, u.ceiling) :
       \/ Unlimited \in {limit, u.carried}
       \/ v.carried # Unlimited /\ u.consumed + v.carried <= limit + u.carried
Steps(f, u, v) ==
  \/ v = u
  \/ /\ v # NoState /\ Sound(v)
     /\ \/ Begins(f, v) /\ (u = NoState \/ \E c \in Offers[f] : c.resetOnEnable)
        \/ u # NoState /\ (GoesOn(f, u, v) \/ CarriesOver(f, u, v))

\* The object holds only what it was offered.
OfLimits(f, u) == u.limit \in LimitsOf(f) /\ u.ceiling \in LimitsOf(f)
Offered(m) ==
  \A f \in Features :
    /\ m.config[f] \in Offers[f] \cup {NoConfig}
    /\ m.usage[f] # NoState => OfLimits(f, m.usage[f])

LEMMA OffersTyped ==
  ASSUME NEW f \in Features
  PROVE  /\ \A c \in Offers[f] : c \in FeatureConfig /\ c.limit \in LimitsOf(f) /\ c.limit \in Amount
         /\ LimitsOf(f) \subseteq Amount
<1>1. \A c \in Offers[f] : c \in FeatureConfig BY MeterAssumption
<1>2. \A c \in Offers[f] : c.limit \in Amount BY <1>1, ConfigFields
<1> QED BY <1>1, <1>2 DEF LimitsOf

LEMMA StateFields ==
  ASSUME NEW u \in UsageState
  PROVE  /\ u.balance \in Amount /\ u.usage \in Nat /\ u.limit \in Amount /\ u.rollover \in Amount
         /\ u.age \in Nat /\ u.age <= MaxAge /\ u.ceiling \in Amount /\ u.carried \in Amount
         /\ u.consumed \in Nat /\ Unlimited \notin Nat
BY MeterAssumption DEF UsageState

\* The larger of two limits offered is offered, and no less than either.
LEMMA LargerOffered ==
  ASSUME NEW f \in Features, NEW a \in LimitsOf(f), NEW b \in LimitsOf(f)
  PROVE  Larger(a, b) \in LimitsOf(f) /\ Larger(a, b) \in RaisedTo(f, a)
<1>1. a \in Amount /\ b \in Amount /\ Unlimited \notin Nat BY OffersTyped, MeterAssumption
<1> QED BY <1>1 DEF Larger, AtLeast, RaisedTo, NoMore, Amount

LEMMA GrantedBegins ==
  ASSUME NEW f \in Features, NEW c \in Offers[f], NEW n \in Nat
  PROVE  /\ Sound(Granted(c, n, 0)) /\ Begins(f, Granted(c, n, 0))
         /\ OfLimits(f, Granted(c, n, 0))
<1>1. c \in FeatureConfig /\ c.limit \in LimitsOf(f) /\ 0 \in Amount BY OffersTyped DEF Amount
<1>2. Sound(Granted(c, n, 0)) BY <1>1, GrantedSound
<1> QED BY <1>1, <1>2 DEF Granted, Begins, OfLimits

\* A state brought to another configuration goes on, or is granted anew.
LEMMA ResyncedSteps ==
  ASSUME NEW f \in Features, NEW u, Sound(u), OfLimits(f, u), NEW old \in Offers[f],
         NEW new \in Offers[f]
  PROVE  LET w == Resynced(u, old, new)
         IN  /\ Sound(w) /\ OfLimits(f, w)
             /\ \/ Begins(f, w) /\ \E c \in Offers[f] : c.resetOnEnable
                \/ GoesOn(f, u, w) /\ w.consumed = u.consumed
<1> DEFINE w == Resynced(u, old, new)
<1>1. old \in FeatureConfig /\ new \in FeatureConfig /\ new.limit \in LimitsOf(f) BY OffersTyped
<1>2. Sound(w) BY <1>1, ResyncedSound
<1>3. CASE ~SameScope(old.scope, new.scope) /\ new.resetOnEnable
  <2>1. w = Granted(new, 0, 0) BY <1>3 DEF Resynced
  <2> QED BY <2>1, <1>3, GrantedBegins
<1>4. CASE ~(~SameScope(old.scope, new.scope) /\ new.resetOnEnable)
  <2>1. u \in UsageState BY DEF Sound
  <2>2. w = [u EXCEPT !.limit = new.limit, !.balance = Remaining(new.limit, u.usage),
                      !.age = IF old.interval # new.interval THEN 0 ELSE u.age,
                      !.ceiling = Larger(u.ceiling, new.limit)]
    BY <1>4 DEF Resynced
  <2>3. /\ w.limit = new.limit /\ w.ceiling = Larger(u.ceiling, new.limit)
        /\ w.carried = u.carried /\ w.consumed = u.consumed
        /\ w.age = IF old.interval # new.interval THEN 0 ELSE u.age
    BY <2>1, <2>2 DEF UsageState
  <2>4. /\ Larger(u.ceiling, new.limit) \in LimitsOf(f)
        /\ Larger(u.ceiling, new.limit) \in RaisedTo(f, u.ceiling)
    BY <1>1, LargerOffered DEF OfLimits
  <2>5. u.consumed <= w.consumed BY <2>1, <2>3, StateFields
  <2> HIDE DEF w
  <2>6. GoesOn(f, u, w) /\ w.consumed = u.consumed BY <2>3, <2>4, <2>5 DEF GoesOn
  <2>7. OfLimits(f, w) BY <1>1, <2>3, <2>4 DEF OfLimits
  <2> QED BY <1>2, <2>6, <2>7 DEF w
<1> QED BY <1>3, <1>4

\* What is carried into a period was left of the one before.
LEMMA ResetCarries ==
  ASSUME NEW f \in Features, NEW u, Sound(u), OfLimits(f, u), NEW c \in Offers[f],
         0 < c.interval, c.interval <= u.age
  PROVE  LET v == ResetUsage(u, c)
         IN  Sound(v) /\ OfLimits(f, v) /\ CarriesOver(f, u, v)
<1> DEFINE v == ResetUsage(u, c)
<1>1. c \in FeatureConfig /\ c.limit \in LimitsOf(f) /\ u \in UsageState
  BY OffersTyped DEF Sound
<1>2. Sound(v) BY <1>1, ResetSound
<1>3. v = [Granted(c, 0, Rollover(u, c)) EXCEPT !.limit = u.limit,
                                                !.ceiling = Larger(c.limit, u.limit)]
  BY DEF ResetUsage
<1>4. /\ v.limit = u.limit /\ v.ceiling = Larger(c.limit, u.limit)
      /\ v.carried = Rollover(u, c) /\ v.age = 0
  BY <1>3 DEF Granted
<1>5. Larger(c.limit, u.limit) \in LimitsOf(f) BY <1>1, LargerOffered DEF OfLimits
<1>6. /\ u.balance \in Amount /\ u.rollover \in Amount /\ u.ceiling \in Amount
      /\ u.carried \in Amount /\ u.consumed \in Nat /\ Unlimited \notin Nat
  BY <1>1, StateFields
<1>7. c.rolloverMaxBalance \in Amount BY <1>1, ConfigFields
<1>8. AtLeast(Plus(u.ceiling, u.carried), Plus(Left(u), u.consumed)) BY DEF Sound, WithinGrant
<1> DEFINE left == Left(u)
<1>9. left \in Amount BY <1>6 DEF Left, Plus, Amount
<1>10. Rollover(u, c) = IF c.rolloverEnabled THEN Lesser(left, c.rolloverMaxBalance) ELSE 0
  BY DEF Rollover
<1> HIDE DEF v, left
<1>11. NoMore(v.carried, CarryOf(c))
  BY <1>4, <1>7, <1>9, <1>10 , <1>6 DEF NoMore, CarryOf, Lesser, AtLeast, Amount
<1>12. \/ Unlimited \in {u.ceiling, u.carried}
       \/ left \in Nat /\ u.consumed + left <= u.ceiling + u.carried
  BY <1>6, <1>8, <1>9 DEF AtLeast, Plus, Amount, left
<1>13. left \in Nat => v.carried \in Nat /\ v.carried <= left
  BY <1>4, <1>6, <1>7, <1>10 DEF Lesser, AtLeast, Amount
<1>14. \/ Unlimited \in {u.ceiling, u.carried}
       \/ v.carried # Unlimited /\ u.consumed + v.carried <= u.ceiling + u.carried
  BY <1>6, <1>12, <1>13 DEF Amount
<1>15. CarriesOver(f, u, v)
  BY <1>4, <1>5, <1>11, <1>14 DEF CarriesOver, RaisedTo
<1>16. OfLimits(f, v) BY <1>4, <1>5 DEF OfLimits
<1> QED BY <1>2, <1>15, <1>16 DEF v

\* The state after a call's configuration, before the period is looked at.
Synced(f, u, w) ==
  \/ w = u
  \/ /\ u # NoState /\ w # NoState
     /\ \/ Begins(f, w) /\ \E c \in Offers[f] : c.resetOnEnable
        \/ GoesOn(f, u, w) /\ w.consumed = u.consumed

LEMMA RaisedAgain ==
  ASSUME NEW f \in Features, NEW a \in Amount, NEW b \in RaisedTo(f, a)
  PROVE  RaisedTo(f, b) \subseteq RaisedTo(f, a)
<1>1. b \in Amount /\ LimitsOf(f) \subseteq Amount /\ Unlimited \notin Nat
  BY OffersTyped, MeterAssumption DEF RaisedTo
<1> QED BY <1>1 DEF RaisedTo, NoMore, Amount

LEMMA SyncedSteps ==
  ASSUME NEW f \in Features, NEW u, u # NoState => Sound(u), NEW w, Synced(f, u, w),
         w # NoState => Sound(w)
  PROVE  Steps(f, u, w)
BY DEF Synced, Steps

LEMMA SyncedCarries ==
  ASSUME NEW f \in Features, NEW u, Sound(u), NEW w, Sound(w), OfLimits(f, w), Synced(f, u, w),
         NEW c \in Offers[f], 0 < c.interval, c.interval <= w.age, u # NoState
  PROVE  /\ Steps(f, u, ResetUsage(w, c))
         /\ Sound(ResetUsage(w, c)) /\ OfLimits(f, ResetUsage(w, c))
<1> DEFINE v == ResetUsage(w, c)
<1>1. Sound(v) /\ OfLimits(f, v) /\ CarriesOver(f, w, v) BY ResetCarries
<1>2. u \in UsageState /\ w \in UsageState /\ v # NoState BY <1>1, MeterAssumption DEF Sound
<1> HIDE DEF v
<1>3. c.interval \in Nat BY OffersTyped, ConfigFields
<1>4. CASE w = u BY <1>1, <1>2, <1>4 DEF Steps, v
<1>5. CASE w # u
  <2>1. ~Begins(f, w) BY <1>3 DEF Begins
  <2>2. GoesOn(f, u, w) /\ w.consumed = u.consumed BY <1>5, <2>1 DEF Synced
  <2>3. w.age = u.age BY <1>3, <2>2 DEF GoesOn
  <2>4. RaisedTo(f, w.ceiling) \subseteq RaisedTo(f, u.ceiling)
    BY <1>2, <2>2, StateFields, RaisedAgain DEF GoesOn
  <2>5. w.carried = u.carried BY <2>2 DEF GoesOn
  <2>6. CarriesOver(f, u, v) BY <1>1, <2>2, <2>3, <2>4, <2>5 DEF CarriesOver
  <2> QED BY <1>1, <1>2, <2>6 DEF Steps, v
<1> QED BY <1>1, <1>4, <1>5 DEF v

\* More is served of the same allowance.
LEMMA SpendsSteps ==
  ASSUME NEW f \in Features, NEW u, u # NoState => Sound(u), NEW w, Steps(f, u, w), w # NoState,
         NEW v, Sound(v), v.ceiling = w.ceiling, v.carried = w.carried, v.age = w.age,
         w.consumed <= v.consumed, Sound(w)
  PROVE  Steps(f, u, v)
<1>1. v # NoState /\ v \in UsageState /\ w \in UsageState BY MeterAssumption DEF Sound
<1>2. CASE w = u
  <2>1. GoesOn(f, u, v) BY <1>2 DEF GoesOn, RaisedTo
  <2> QED BY <1>1, <1>2, <2>1 DEF Steps
<1>3. CASE w # u
  <2>1. CASE Begins(f, w) /\ (u = NoState \/ \E c \in Offers[f] : c.resetOnEnable)
    <3>1. Begins(f, v) BY <2>1 DEF Begins
    <3> QED BY <1>1, <2>1, <3>1 DEF Steps
  <2>2. CASE u # NoState /\ GoesOn(f, u, w)
    <3>1. u \in UsageState BY <2>2 DEF Sound
    <3>2. u.consumed <= v.consumed BY <1>1, <2>2, <3>1, StateFields DEF GoesOn
    <3>3. GoesOn(f, u, v) BY <2>2, <3>2 DEF GoesOn
    <3> QED BY <1>1, <2>2, <3>3 DEF Steps
  <2>3. CASE u # NoState /\ CarriesOver(f, u, w)
    <3>1. CarriesOver(f, u, v) BY <2>3 DEF CarriesOver
    <3> QED BY <1>1, <2>3, <3>1 DEF Steps
  <2> QED BY <1>3, <2>1, <2>2, <2>3 DEF Steps
<1> QED BY <1>2, <1>3

-----------------------------------------------------------------------------
(* What the calls make of the object: of one feature a step, of the others *)
(* nothing, and it still holds only what it was offered.                   *)
Apart(m, r, f) ==
  \A g \in Features : g # f => r.usage[g] = m.usage[g] /\ r.config[g] = m.config[g]

LEMMA OfferedApart ==
  ASSUME NEW m, Offered(m), NEW r, NEW f \in Features, Apart(m, r, f),
         r.config[f] \in Offers[f] \cup {NoConfig},
         r.usage[f] # NoState => OfLimits(f, r.usage[f])
  PROVE  Offered(r)
BY DEF Offered, Apart

LEMMA StoredSteps ==
  ASSUME NEW m, WellFormed(m), Offered(m), NEW f \in Features, NEW c \in Offers[f]
  PROVE  LET s == Stored(m, f, c)
         IN  /\ WellFormed(s) /\ Offered(s) /\ Apart(m, s, f)
             /\ Synced(f, m.usage[f], s.usage[f])
<1> DEFINE s == Stored(m, f, c)
<1>1. c \in FeatureConfig /\ m \in Meters BY OffersTyped DEF WellFormed
<1>2. WellFormed(s) BY <1>1, StoredWellFormed
<1>3. CASE m.usage[f] # NoState /\ ~Changed(m.config[f], c)
  <2>1. s = m BY <1>3 DEF Stored
  <2> QED BY <1>2, <2>1 DEF Apart, Synced
<1>4. CASE m.usage[f] = NoState
  <2>1. s = [m EXCEPT !.config[f] = c] BY <1>1, <1>4 DEF Stored, Meters
  <2>2. s.usage = m.usage /\ s.config = [m.config EXCEPT ![f] = c] BY <1>1, <2>1 DEF Meters
  <2>3. s.config[f] = c /\ Apart(m, s, f) BY <1>1, <2>2 DEF Meters, Apart
  <2> HIDE DEF s
  <2>4. Offered(s) BY <1>4, <2>2, <2>3, OfferedApart
  <2> QED BY <1>2, <2>2, <2>3, <2>4 DEF Synced, s
<1>5. CASE m.usage[f] # NoState /\ Changed(m.config[f], c)
  <2> DEFINE u == m.usage[f]
             w == Resynced(u, m.config[f], c)
  <2>1. Sound(u) /\ m.config[f] # NoConfig BY <1>5, StateTyped
  <2>2. m.config[f] \in Offers[f] /\ OfLimits(f, u) BY <1>5, <2>1 DEF Offered
  <2>3. /\ Sound(w) /\ OfLimits(f, w)
        /\ \/ Begins(f, w) /\ \E d \in Offers[f] : d.resetOnEnable
           \/ GoesOn(f, u, w) /\ w.consumed = u.consumed
    BY <2>1, <2>2, ResyncedSteps
  <2>4. w # NoState BY <2>3, MeterAssumption DEF Sound
  <2>5. s = [m EXCEPT !.config[f] = c, !.usage[f] = w] BY <1>1, <1>5 DEF Stored, Meters
  <2> HIDE DEF w
  <2>6. s.usage = [m.usage EXCEPT ![f] = w] /\ s.config = [m.config EXCEPT ![f] = c]
    BY <1>1, <2>5 DEF Meters
  <2>7. s.usage[f] = w /\ s.config[f] = c /\ Apart(m, s, f) BY <1>1, <2>6 DEF Meters, Apart
  <2> HIDE DEF s
  <2>8. Offered(s) BY <2>3, <2>7, OfferedApart
  <2>9. Synced(f, u, w) BY <1>5, <2>3, <2>4 DEF Synced
  <2> QED BY <1>2, <2>7, <2>8, <2>9 DEF s
<1> QED BY <1>3, <1>4, <1>5

\* A look at the period: nothing, or a reset that is due.
Viewed(m, r, f) ==
  \/ r = m
  \/ /\ Due(m, f) /\ ~Due(r, f)
     /\ r.usage[f] = ResetUsage(m.usage[f], m.config[f])
     /\ Apart(m, r, f) /\ r.config[f] = m.config[f]

LEMMA MaybeResetViews ==
  ASSUME NEW m, WellFormed(m), NEW f \in Features
  PROVE  Viewed(m, MaybeReset(m, f), f)
<1> DEFINE s == ResetFeature(m, f)
           r == Scheduled(s)
           v == ResetUsage(m.usage[f], m.config[f])
<1> SUFFICES ASSUME Due(m, f) PROVE Viewed(m, r, f) BY DEF MaybeReset, Viewed
<1>1. WellFormed(s) BY ResetFeatureWellFormed
<1>2. r.usage = s.usage /\ r.config = s.config BY <1>1, ScheduledCovers
<1>3. m \in Meters BY DEF WellFormed
<1>4. s.usage = [m.usage EXCEPT ![f] = v] /\ s.config = m.config
  BY <1>3 DEF ResetFeature, Meters
<1>5. v.age = 0 BY DEF ResetUsage, Granted
<1> HIDE DEF v, s, r
<1>6. r.usage[f] = v /\ r.config[f] = m.config[f] /\ Apart(m, r, f)
  BY <1>2, <1>3, <1>4 DEF Meters, Apart
<1>7. ~Due(r, f)
  <2>1. m.config[f] \in FeatureConfig BY <1>3 DEF Due, Resets, Known, Meters
  <2>2. m.config[f].interval \in Nat /\ m.config[f].interval > 0
    BY <2>1, ConfigFields DEF Due, Resets
  <2> QED BY <1>5, <1>6, <2>2 DEF Due
<1> QED BY <1>6, <1>7 DEF Viewed, v

LEMMA ViewedTwice ==
  ASSUME NEW m, WellFormed(m), NEW f \in Features
  PROVE  LET l == MaybeReset(m, f)
         IN  Viewed(m, l, f) /\ Viewed(m, MaybeReset(l, f), f)
<1> DEFINE l == MaybeReset(m, f)
<1>1. Viewed(m, l, f) BY MaybeResetViews
<1>2. CASE l = m BY <1>1, <1>2
<1>3. CASE l # m
  <2>1. ~Due(l, f) BY <1>1, <1>3 DEF Viewed
  <2>2. MaybeReset(l, f) = l BY <2>1 DEF MaybeReset
  <2> QED BY <1>1, <2>2
<1> QED BY <1>2, <1>3

\* A call syncs the configuration and then looks at the period.
LEMMA PreparedViews ==
  ASSUME NEW m, WellFormed(m), NEW f \in Features, NEW c \in FeatureConfig
  PROVE  \E k : /\ k.usage = Stored(m, f, c).usage /\ k.config = Stored(m, f, c).config
                /\ Viewed(k, Prepared(m, f, c), f)
<1> DEFINE s == Stored(m, f, c)
           k == Scheduled(s)
           r == Prepared(m, f, c)
<1>1. WellFormed(s) BY StoredWellFormed
<1>2. WellFormed(k) /\ k.usage = s.usage /\ k.config = s.config BY <1>1, ScheduledCovers
<1>3. CASE m.usage[f] = NoState \/ ~Changed(m.config[f], c)
  <2>1. r = IF Known(s, f) THEN MaybeReset(s, f) ELSE s BY <1>3 DEF Prepared, SyncConfig
  <2>2. Viewed(s, MaybeReset(s, f), f) /\ Viewed(s, s, f) BY <1>1, MaybeResetViews DEF Viewed
  <2>3. Viewed(s, r, f) BY <2>1, <2>2
  <2> QED BY <2>3
<1>4. CASE ~(m.usage[f] = NoState \/ ~Changed(m.config[f], c))
  <2> DEFINE l == MaybeReset(k, f)
  <2>1. SyncConfig(m, f, c) = l BY <1>4 DEF SyncConfig
  <2>2. r = IF Known(l, f) THEN MaybeReset(l, f) ELSE l BY <2>1 DEF Prepared
  <2>3. Viewed(k, l, f) /\ Viewed(k, MaybeReset(l, f), f) BY <1>2, ViewedTwice
  <2>4. Viewed(k, r, f) BY <2>2, <2>3
  <2> QED BY <1>2, <2>4
<1> QED BY <1>3, <1>4

\* What a call does: a step of one feature.
Advances(m, r, f) ==
  Apart(m, r, f) /\ Offered(r) /\ Steps(f, m.usage[f], r.usage[f])

LEMMA StateSound ==
  ASSUME NEW m, WellFormed(m), NEW f \in Features, m.usage[f] # NoState
  PROVE  Sound(m.usage[f])
BY StateTyped

LEMMA StoredAdvances ==
  ASSUME NEW m, WellFormed(m), Offered(m), NEW f \in Features, NEW c \in Offers[f]
  PROVE  Advances(m, Stored(m, f, c), f)
<1>1. /\ WellFormed(Stored(m, f, c)) /\ Offered(Stored(m, f, c)) /\ Apart(m, Stored(m, f, c), f)
      /\ Synced(f, m.usage[f], Stored(m, f, c).usage[f])
  BY StoredSteps
<1>2. Steps(f, m.usage[f], Stored(m, f, c).usage[f])
  BY <1>1, StateSound, SyncedSteps
<1> QED BY <1>1, <1>2 DEF Advances

LEMMA PreparedAdvances ==
  ASSUME NEW m, WellFormed(m), Offered(m), NEW f \in Features, NEW c \in Offers[f]
  PROVE  WellFormed(Prepared(m, f, c)) /\ Advances(m, Prepared(m, f, c), f)
<1> DEFINE s == Stored(m, f, c)
           r == Prepared(m, f, c)
<1>1. c \in FeatureConfig BY OffersTyped
<1>2. WellFormed(r) BY <1>1, PreparedKeeps
<1>3. WellFormed(s) /\ Offered(s) /\ Apart(m, s, f) /\ Synced(f, m.usage[f], s.usage[f])
  BY StoredSteps
<1>4. PICK k : k.usage = s.usage /\ k.config = s.config /\ Viewed(k, r, f)
  BY <1>1, PreparedViews
<1>5. Advances(m, s, f) BY StoredAdvances
<1> HIDE DEF s, r
<1>6. CASE r = k BY <1>2, <1>4, <1>5, <1>6 DEF Advances, Apart, Offered, r
<1>7. CASE r # k
  <2> DEFINE u == m.usage[f]
             w == s.usage[f]
             d == s.config[f]
  <2>1. /\ w # NoState /\ d # NoConfig /\ d.interval > 0 /\ w.age >= d.interval
        /\ r.usage[f] = ResetUsage(w, d) /\ Apart(s, r, f) /\ r.config[f] = d
    BY <1>4, <1>7 DEF Viewed, Due, Resets, Known, Apart
  <2>2. Sound(w) /\ OfLimits(f, w) /\ d \in Offers[f] BY <1>3, <2>1, StateSound DEF Offered
  <2>3. u # NoState BY <1>3, <2>1 DEF Synced
  <2>4. Sound(u) BY <2>3, StateSound
  <2>5. 0 < d.interval /\ d.interval <= w.age
    BY <2>1, <2>2, StateFields, OffersTyped, ConfigFields DEF Sound
  <2> HIDE DEF u, w, d
  <2>6. Steps(f, u, ResetUsage(w, d)) /\ OfLimits(f, ResetUsage(w, d))
    BY <1>3, <2>2, <2>3, <2>4, <2>5, SyncedCarries DEF u, w
  <2>7. Offered(r) BY <1>3, <2>1, <2>2, <2>6, OfferedApart
  <2>8. Apart(m, r, f) BY <1>3, <2>1 DEF Apart
  <2> QED BY <1>2, <2>1, <2>6, <2>7, <2>8 DEF Advances, r, u
<1> QED BY <1>6, <1>7

LEMMA ConsumedKeeps ==
  ASSUME NEW u \in UsageState, NEW n \in Nat
  PROVE  LET v == Consumed(u, n)
         IN  /\ v.ceiling = u.ceiling /\ v.carried = u.carried /\ v.age = u.age
             /\ v.limit = u.limit /\ v.consumed = u.consumed + n
BY DEF Consumed, UsageState

LEMMA TrackedAdvances ==
  ASSUME NEW m, WellFormed(m), NEW r, WellFormed(r), NEW f \in Features, Advances(m, r, f),
         NEW d \in Deltas
  PROVE  Advances(m, Tracked(r, f, d), f)
<1> SUFFICES ASSUME CanTrack(r, f, d) PROVE Advances(m, Tracked(r, f, d), f)
  BY DEF Tracked
<1> DEFINE w == r.usage[f]
           n == Cost(r.config[f], d)
           v == Consumed(w, n)
           t == Tracked(r, f, d)
<1>1. Sound(w) /\ w # NoState /\ r.config[f] \in FeatureConfig
  BY StateTyped DEF CanTrack, Known
<1>2. w \in UsageState /\ r \in Meters /\ n \in Nat
  BY <1>1, CostPositive DEF Sound, WellFormed
<1>3. Sound(v) BY <1>1, <1>2, ConsumedSound DEF CanTrack
<1>4. /\ v.ceiling = w.ceiling /\ v.carried = w.carried /\ v.age = w.age
      /\ v.limit = w.limit /\ v.consumed = w.consumed + n
  BY <1>2, ConsumedKeeps
<1>5. w.consumed <= v.consumed BY <1>2, <1>4, StateFields
<1>6. t = [r EXCEPT !.usage[f] = v] BY <1>2 DEF Tracked, Meters
<1> HIDE DEF v, t
<1>7. t.usage = [r.usage EXCEPT ![f] = v] /\ t.config = r.config BY <1>2, <1>6 DEF Meters
<1>8. t.usage[f] = v /\ Apart(r, t, f) BY <1>2, <1>7 DEF Meters, Apart
<1>9. Steps(f, m.usage[f], w) BY DEF Advances
<1>10. Steps(f, m.usage[f], v) BY <1>1, <1>3, <1>4, <1>5, <1>9, StateSound, SpendsSteps
<1>11. OfLimits(f, v) BY <1>1, <1>4 DEF Advances, Offered, OfLimits
<1>12. t.config[f] \in Offers[f] \cup {NoConfig} BY <1>7 DEF Advances, Offered
<1>13. Offered(t) BY <1>8, <1>11, <1>12, OfferedApart DEF Advances
<1> QED BY <1>8, <1>10, <1>13 DEF Advances, Apart, t

LEMMA ConfiguredAdvances ==
  ASSUME NEW m, WellFormed(m), Offered(m), NEW f \in Features, NEW c \in Offers[f], NEW n \in Nat
  PROVE  Advances(m, Configured(m, f, c, n), f)
<1> DEFINE u == m.usage[f]
           v == IF u = NoState \/ c.resetOnEnable THEN Granted(c, n, 0) ELSE u
           s == Configured(m, f, c, n)
<1>1. m \in Meters BY DEF WellFormed
<1>2. s = [m EXCEPT !.config[f] = c, !.usage[f] = v] BY <1>1 DEF Configured, Meters
<1>3. Sound(Granted(c, n, 0)) /\ Begins(f, Granted(c, n, 0)) /\ OfLimits(f, Granted(c, n, 0))
  BY GrantedBegins
<1>4. Granted(c, n, 0) # NoState BY <1>3, MeterAssumption DEF Sound
<1>5. Steps(f, u, v) BY <1>3, <1>4 DEF Steps
<1>6. v # NoState => OfLimits(f, v) BY <1>3 DEF Offered
<1> HIDE DEF v, s
<1>7. s.usage = [m.usage EXCEPT ![f] = v] /\ s.config = [m.config EXCEPT ![f] = c]
  BY <1>1, <1>2 DEF Meters
<1>8. s.usage[f] = v /\ s.config[f] = c /\ Apart(m, s, f) BY <1>1, <1>7 DEF Meters, Apart
<1>9. Offered(s) BY <1>6, <1>8, OfferedApart
<1> QED BY <1>5, <1>8, <1>9 DEF Advances, s

\* Setting the alarm is no step of a feature.
LEMMA SameAdvances ==
  ASSUME NEW m, NEW f \in Features, NEW r, Advances(m, r, f), NEW s,
         s.usage = r.usage, s.config = r.config
  PROVE  Advances(m, s, f)
BY DEF Advances, Apart, Offered

LEMMA ConfigureAdvances ==
  ASSUME NEW m, WellFormed(m), Offered(m), NEW f \in Features, NEW c \in Offers[f], NEW n \in Nat
  PROVE  Advances(m, ConfigureFeature(m, f, c, n), f)
<1> DEFINE s == Configured(m, f, c, n)
<1>1. WellFormed(s) BY ConfiguredWellFormed, OffersTyped
<1>2. Advances(m, s, f) BY ConfiguredAdvances
<1>3. Scheduled(s).usage = s.usage /\ Scheduled(s).config = s.config BY <1>1, ScheduledCovers
<1>4. Advances(m, Scheduled(s), f) BY <1>2, <1>3, SameAdvances
<1> QED BY <1>2, <1>4 DEF ConfigureFeature

LEMMA ResetAdvances ==
  ASSUME NEW m, WellFormed(m), Offered(m), NEW f \in Features, Due(m, f)
  PROVE  LET v == ResetUsage(m.usage[f], m.config[f])
         IN  Sound(v) /\ OfLimits(f, v) /\ CarriesOver(f, m.usage[f], v) /\ v # NoState
<1>1. /\ m.usage[f] # NoState /\ m.config[f] # NoConfig
      /\ m.config[f].interval > 0 /\ m.usage[f].age >= m.config[f].interval
  BY DEF Due, Resets, Known
<1>2. Sound(m.usage[f]) /\ OfLimits(f, m.usage[f]) /\ m.config[f] \in Offers[f]
  BY <1>1, StateSound DEF Offered
<1>3. 0 < m.config[f].interval /\ m.config[f].interval <= m.usage[f].age
  BY <1>1, <1>2, StateFields, OffersTyped, ConfigFields DEF Sound
<1> QED BY <1>2, <1>3, ResetCarries, MeterAssumption DEF Sound

\* Several features are refilled at once: those of due, each by a carry-over.
Refills(m, r, due) ==
  /\ Offered(r)
  /\ \A f \in Features :
       IF f \in due
       THEN /\ m.usage[f] # NoState /\ r.usage[f] # NoState /\ Sound(r.usage[f])
            /\ CarriesOver(f, m.usage[f], r.usage[f])
       ELSE r.usage[f] = m.usage[f]

LEMMA AllResetRefills ==
  ASSUME NEW m, WellFormed(m), Offered(m), NEW due \in SUBSET {f \in Features : Due(m, f)}
  PROVE  Refills(m, AllReset(m, due), due)
<1> DEFINE r == AllReset(m, due)
<1>1. m \in Meters BY DEF WellFormed
<1>2. /\ r.config = m.config
      /\ \A f \in Features : r.usage[f] = IF f \in due THEN ResetUsage(m.usage[f], m.config[f])
                                          ELSE m.usage[f]
  BY <1>1 DEF AllReset, Meters
<1> HIDE DEF r
<1>3. ASSUME NEW f \in due
      PROVE  /\ m.usage[f] # NoState /\ r.usage[f] # NoState /\ Sound(r.usage[f])
             /\ CarriesOver(f, m.usage[f], r.usage[f]) /\ OfLimits(f, r.usage[f])
  <2>1. Due(m, f) /\ f \in Features OBVIOUS
  <2> QED BY <1>2, <2>1, ResetAdvances DEF Due, Resets, Known
<1>4. Offered(r) BY <1>2, <1>3 DEF Offered
<1> QED BY <1>2, <1>3, <1>4 DEF Refills, r

-----------------------------------------------------------------------------
(* The steps of the meter as steps of the allowances of module Quota. *)
Allotted == {f \in Features : usage[f] # NoState}
Share(u) ==
  [limit |-> u.ceiling, carried |-> u.carried, spent |-> u.consumed, elapsed |-> u.age]
Shares == [f \in Allotted |-> Share(usage[f])]

LEMMA SoundCovers ==
  ASSUME NEW u, Sound(u)
  PROVE  QuotaOf!Within(Share(u))
<1>1. AtLeast(Plus(u.ceiling, u.carried), Plus(Left(u), u.consumed)) BY DEF Sound, WithinGrant
<1>2. /\ u.ceiling \in Amount /\ u.carried \in Amount /\ u.balance \in Amount
      /\ u.rollover \in Amount /\ u.consumed \in Nat /\ Unlimited \notin Nat
  BY StateFields DEF Sound
<1> QED BY <1>1, <1>2 DEF QuotaOf!Within, QuotaOf!Covers, Share, AtLeast, Plus, Left, Amount

LEMMA GrantRefines ==
  ASSUME NEW f \in Features, f \in Allotted', Sound(usage'[f]), Begins(f, usage'[f]),
         f \notin Allotted \/ \E c \in Offers[f] : c.resetOnEnable
  PROVE  QuotaOf!Grant(f)
<1>1. Shares'[f] = Share(usage'[f]) BY DEF Shares, Share
<1>2. QuotaOf!Within(Shares'[f]) BY <1>1, SoundCovers
<1> QED BY <1>1, <1>2 DEF QuotaOf!Grant, QuotaOf!Granted, Begins, LimitsOf, Shares, Allotted, Share

LEMMA ServeRefines ==
  ASSUME NEW f \in Allotted, f \in Allotted', Sound(usage'[f]), GoesOn(f, usage[f], usage'[f])
  PROVE  QuotaOf!Serve(f)
<1>1. Shares'[f] = Share(usage'[f]) /\ Shares[f] = Share(usage[f]) /\ f \in Features
  BY DEF Shares, Share, Allotted
<1>2. QuotaOf!Within(Shares'[f]) BY <1>1, SoundCovers
<1>3. usage'[f].ceiling \in QuotaOf!Raised(f, usage[f].ceiling)
  BY <1>1 DEF GoesOn, RaisedTo, LimitsOf, NoMore, QuotaOf!Raised, QuotaOf!NoMore
<1> QED BY <1>1, <1>2, <1>3 DEF QuotaOf!Serve, QuotaOf!Granted, GoesOn, Shares, Allotted, Share

LEMMA RefillRefines ==
  ASSUME NEW f \in Allotted, f \in Allotted', Sound(usage[f]), Sound(usage'[f]),
         CarriesOver(f, usage[f], usage'[f])
  PROVE  QuotaOf!Refill(f)
<1> DEFINE u == usage[f]
           v == usage'[f]
<1>1. Shares'[f] = Share(v) /\ Shares[f] = Share(u) /\ f \in Features
  BY DEF Shares, Share, Allotted
<1>2. QuotaOf!Within(Shares'[f]) BY <1>1, SoundCovers
<1>3. v.carried \in Amount /\ u.consumed \in Nat /\ Unlimited \notin Nat
  BY StateFields DEF Sound
<1>4. PICK limit \in RaisedTo(f, u.ceiling) :
        \/ Unlimited \in {limit, u.carried}
        \/ v.carried # Unlimited /\ u.consumed + v.carried <= limit + u.carried
  BY DEF CarriesOver
<1>5. limit \in QuotaOf!Raised(f, u.ceiling)
  BY <1>1 DEF RaisedTo, LimitsOf, NoMore, QuotaOf!Raised, QuotaOf!NoMore
<1>6. \E l \in QuotaOf!Raised(f, u.ceiling) :
        IF v.carried = Unlimited THEN Unlimited \in {l, u.carried}
        ELSE QuotaOf!Covers(l, u.carried, u.consumed + v.carried)
  BY <1>3, <1>4, <1>5 DEF QuotaOf!Covers, Amount
<1>7. \E p \in {c.interval : c \in Offers[f]} : 0 < p /\ p <= u.age BY DEF CarriesOver
<1>8. \E most \in {CarryOf(c) : c \in Offers[f]} : QuotaOf!NoMore(v.carried, most)
  BY DEF CarriesOver, NoMore, QuotaOf!NoMore
<1>9. v.ceiling \in LimitsOf(f) /\ v.age = 0 BY DEF CarriesOver
<1> QED BY <1>1, <1>2, <1>6, <1>7, <1>8, <1>9
        DEF QuotaOf!Refill, QuotaOf!Granted, CarryOf, LimitsOf, Shares, Allotted, Share

\* Only the features of F changed.
LEMMA OnlyRefines ==
  ASSUME NEW F \in SUBSET Features, F \subseteq Allotted',
         \A g \in Features \ F : usage'[g] = usage[g]
  PROVE  QuotaOf!Only(F)
<1>1. Allotted' = Allotted \cup F BY DEF Allotted
<1> QED BY <1>1 DEF QuotaOf!Only, QuotaOf!Granted, Allotted

LEMMA StepRefines ==
  ASSUME IInv, NEW f \in Features, Steps(f, usage[f], usage'[f]),
         \A g \in Features \ {f} : usage'[g] = usage[g]
  PROVE  QuotaOf!Next \/ Shares' = Shares
<1>1. CASE usage'[f] = usage[f]
  <2>1. \A g \in Features : usage'[g] = usage[g] BY <1>1
  <2>2. Allotted' = Allotted BY <2>1 DEF Allotted
  <2> QED BY <2>1, <2>2 DEF Shares, Share, Allotted
<1>2. CASE usage'[f] # usage[f]
  <2>1. usage'[f] # NoState /\ Sound(usage'[f]) BY <1>2 DEF Steps
  <2>2. f \in Allotted' BY <2>1 DEF Allotted
  <2>3. QuotaOf!Only({f}) BY <2>2, OnlyRefines
  <2>4. CASE Begins(f, usage'[f]) /\ (usage[f] = NoState \/ \E c \in Offers[f] : c.resetOnEnable)
    <3>1. f \notin Allotted \/ \E c \in Offers[f] : c.resetOnEnable BY <2>4 DEF Allotted
    <3>2. QuotaOf!Grant(f) BY <2>1, <2>2, <2>4, <3>1, GrantRefines
    <3> QED BY <2>3, <3>2 DEF QuotaOf!Next
  <2>5. CASE usage[f] # NoState /\ GoesOn(f, usage[f], usage'[f])
    <3>1. f \in Allotted BY <2>5 DEF Allotted
    <3>2. QuotaOf!Serve(f) BY <2>1, <2>2, <2>5, <3>1, ServeRefines
    <3> QED BY <2>3, <3>2 DEF QuotaOf!Next
  <2>6. CASE usage[f] # NoState /\ CarriesOver(f, usage[f], usage'[f])
    <3>1. f \in Allotted /\ Sound(usage[f])
      BY <2>6, StateSound, MeterFields DEF Allotted, IInv
    <3>2. QuotaOf!Refill(f) BY <2>1, <2>2, <2>6, <3>1, RefillRefines
    <3>3. {f} \in SUBSET QuotaOf!Granted BY <3>1 DEF QuotaOf!Granted, Allotted
    <3> QED BY <2>3, <3>2, <3>3 DEF QuotaOf!Next
  <2> QED BY <1>2, <2>1, <2>4, <2>5, <2>6 DEF Steps
<1> QED BY <1>1, <1>2

LEMMA RefillsRefine ==
  ASSUME IInv, NEW r, NEW due \in SUBSET Features, Refills(Meter, r, due), usage' = r.usage
  PROVE  QuotaOf!Next
<1>1. \A f \in due : /\ usage[f] # NoState /\ usage'[f] # NoState /\ Sound(usage'[f])
                     /\ CarriesOver(f, usage[f], usage'[f])
  BY MeterFields DEF Refills
<1>2. \A f \in Features \ due : usage'[f] = usage[f] BY MeterFields DEF Refills
<1>3. due \subseteq Allotted /\ due \subseteq Allotted' BY <1>1 DEF Allotted
<1>4. QuotaOf!Only(due) BY <1>2, <1>3, OnlyRefines
<1>5. ASSUME NEW f \in due PROVE QuotaOf!Refill(f)
  <2>1. Sound(usage[f]) BY <1>1, StateSound, MeterFields DEF IInv
  <2> QED BY <1>1, <1>3, <2>1, RefillRefines
<1>6. due \in SUBSET QuotaOf!Granted BY <1>3 DEF QuotaOf!Granted, Allotted
<1> QED BY <1>4, <1>5, <1>6 DEF QuotaOf!Next

LEMMA TickRefines ==
  ASSUME IInv, Tick
  PROVE  QuotaOf!Tick
<1>1. \A f \in Features : usage'[f] = IF usage[f] = NoState THEN NoState ELSE Older(usage[f])
  BY DEF Tick
<1>2. \A f \in Allotted : Sound(usage[f]) /\ usage'[f] = Older(usage[f]) /\ usage'[f] # NoState
  BY <1>1, StateSound, MeterFields, OlderSound, MeterAssumption DEF Allotted, IInv, Sound
<1>3. Allotted' = Allotted BY <1>1, <1>2 DEF Allotted
<1>4. \A f \in Allotted : Share(usage'[f]) = QuotaOf!Older(Share(usage[f]))
  <2> SUFFICES ASSUME NEW f \in Allotted
               PROVE  Share(Older(usage[f])) = QuotaOf!Older(Share(usage[f]))
    BY <1>2
  <2> DEFINE u == usage[f]
             age == IF u.age < MaxAge THEN u.age + 1 ELSE u.age
  <2>1. u \in UsageState BY <1>2 DEF Sound
  <2>2. /\ Older(u).ceiling = u.ceiling /\ Older(u).carried = u.carried
        /\ Older(u).consumed = u.consumed /\ Older(u).age = age
    BY <2>1 DEF Older, UsageState
  <2>3. Share(Older(u)) = [limit |-> u.ceiling, carried |-> u.carried,
                           spent |-> u.consumed, elapsed |-> age]
    BY <2>2 DEF Share
  <2>4. QuotaOf!Older(Share(u)) = [Share(u) EXCEPT !.elapsed = age]
    BY DEF QuotaOf!Older, Share
  <2> HIDE DEF u, age
  <2>5. [Share(u) EXCEPT !.elapsed = age] = [limit |-> u.ceiling, carried |-> u.carried,
                                             spent |-> u.consumed, elapsed |-> age]
    BY DEF Share
  <2> QED BY <2>3, <2>4, <2>5 DEF u
<1>5. Shares' = [f \in Allotted |-> QuotaOf!Older(Shares[f])]
  BY <1>3, <1>4 DEF Shares
<1> QED BY <1>5 DEF QuotaOf!Tick, QuotaOf!Granted, Shares, Allotted, Share

-----------------------------------------------------------------------------
LEMMA InitOffered == Init => Offered(Meter)
BY MeterFields DEF Init, Offered

\* A call is a step of its feature, and leaves what was offered.
LEMMA AdvancesRefine ==
  ASSUME IInv, NEW f \in Features, NEW m, Advances(Meter, m, f),
         usage' = m.usage, config' = m.config
  PROVE  Offered(Meter)' /\ (QuotaOf!Next \/ Shares' = Shares)
<1>1. Offered(Meter)' BY DEF Advances, Offered, Meter
<1>2. Steps(f, usage[f], usage'[f]) /\ \A g \in Features \ {f} : usage'[g] = usage[g]
  BY MeterFields DEF Advances, Apart
<1> QED BY <1>1, <1>2, StepRefines

LEMMA CrashOf ==
  ASSUME NEW m, WellFormed(m), Crash(m)
  PROVE  usage' = m.usage /\ config' = m.config
BY DEF Crash, Becomes, WellFormed, Meters

LEMMA NextRefines ==
  ASSUME IInv, Offered(Meter), [Next]_vars
  PROVE  Offered(Meter)' /\ (QuotaOf!Next \/ Shares' = Shares)
<1>1. WellFormed(Meter) BY DEF IInv
<1>2. \A f \in Features : \A c \in Offers[f] : c \in FeatureConfig BY MeterAssumption
<1>3. ASSUME NEW f \in Features, NEW c \in Offers[f], Check(f, c)
      PROVE  Offered(Meter)' /\ (QuotaOf!Next \/ Shares' = Shares)
  BY <1>1, <1>3, PreparedAdvances, AdvancesRefine DEF Check, Becomes
<1>4. ASSUME NEW f \in Features, NEW c \in Offers[f], NEW d \in Deltas, Track(f, c, d)
      PROVE  Offered(Meter)' /\ (QuotaOf!Next \/ Shares' = Shares)
  <2> DEFINE m == Prepared(Meter, f, c)
  <2>1. WellFormed(m) /\ Advances(Meter, m, f) BY <1>1, PreparedAdvances
  <2>2. Advances(Meter, Tracked(m, f, d), f) BY <1>1, <2>1, TrackedAdvances
  <2> QED BY <1>4, <2>2, AdvancesRefine DEF Track, Becomes
<1>5. ASSUME NEW f \in Features, NEW c \in Offers[f], CrashInSync(f, c)
      PROVE  Offered(Meter)' /\ (QuotaOf!Next \/ Shares' = Shares)
  <2>1. WellFormed(Stored(Meter, f, c)) BY <1>1, <1>2, StoredWellFormed
  <2>2. Advances(Meter, Stored(Meter, f, c), f) BY <1>1, StoredAdvances
  <2> QED BY <1>5, <2>1, <2>2, CrashOf, AdvancesRefine DEF CrashInSync
<1>6. ASSUME NEW f \in Features, NEW c \in Offers[f], NEW n \in InitialUses, Configure(f, c, n)
      PROVE  Offered(Meter)' /\ (QuotaOf!Next \/ Shares' = Shares)
  BY <1>1, <1>6, ConfigureAdvances, AdvancesRefine, MeterAssumption DEF Configure, Becomes
<1>7. ASSUME NEW f \in Features, NEW c \in Offers[f], NEW n \in InitialUses,
             CrashInConfigure(f, c, n)
      PROVE  Offered(Meter)' /\ (QuotaOf!Next \/ Shares' = Shares)
  <2>1. n \in Nat BY MeterAssumption
  <2>2. WellFormed(Configured(Meter, f, c, n)) BY <1>1, <1>2, <2>1, ConfiguredWellFormed
  <2>3. Advances(Meter, Configured(Meter, f, c, n), f) BY <1>1, <2>1, ConfiguredAdvances
  <2> QED BY <1>7, <2>2, <2>3, CrashOf, AdvancesRefine DEF CrashInConfigure
<1>8. ASSUME NEW f \in Features, CrashInReset(f)
      PROVE  Offered(Meter)' /\ (QuotaOf!Next \/ Shares' = Shares)
  <2> DEFINE r == ResetFeature(Meter, f)
             v == ResetUsage(Meter.usage[f], Meter.config[f])
  <2>1. Due(Meter, f) /\ Crash(r) BY <1>8 DEF CrashInReset
  <2>2. WellFormed(r) /\ Meter \in Meters BY <1>1, <2>1, ResetFeatureWellFormed DEF WellFormed
  <2>3. Sound(v) /\ OfLimits(f, v) /\ CarriesOver(f, Meter.usage[f], v) /\ v # NoState
    BY <1>1, <2>1, ResetAdvances
  <2>4. r.usage = [Meter.usage EXCEPT ![f] = v] /\ r.config = Meter.config
    BY <2>2 DEF ResetFeature, Meters
  <2> HIDE DEF v, r
  <2>5. r.usage[f] = v /\ Apart(Meter, r, f) /\ r.config[f] = Meter.config[f]
    BY <2>2, <2>4 DEF Meters, Apart
  <2>6. r.config[f] \in Offers[f] \cup {NoConfig} BY <2>5 DEF Offered
  <2>7. Offered(r) BY <2>3, <2>5, <2>6, OfferedApart
  <2>8. Steps(f, Meter.usage[f], v) BY <2>1, <2>3 DEF Steps, Due, Resets, Known
  <2>9. Advances(Meter, r, f) BY <2>5, <2>7, <2>8 DEF Advances
  <2> QED BY <2>1, <2>2, <2>9, CrashOf, AdvancesRefine
<1>9. CASE Alarm
  <2> DEFINE r == AllReset(Meter, DueNow)
             s == [r EXCEPT !.alarm = NoAlarm]
  <2>1. WellFormed(r) /\ Refills(Meter, r, DueNow)
    BY <1>1, AllResetWellFormed, AllResetRefills DEF DueNow
  <2>2. r \in Meters BY <2>1 DEF WellFormed
  <2>3. Becomes(Scheduled(s)) BY <1>9 DEF Alarm
  <2> HIDE DEF r
  <2>4. s \in Meters /\ s.usage = r.usage /\ s.config = r.config BY <2>2 DEF Meters
  <2>5. WellFormed(s) BY <2>1, <2>4 DEF WellFormed
  <2>6. Scheduled(s).usage = r.usage /\ Scheduled(s).config = r.config
    BY <2>4, <2>5, ScheduledCovers
  <2> HIDE DEF s
  <2>7. usage' = r.usage /\ config' = r.config BY <2>3, <2>6 DEF Becomes
  <2>8. Offered(Meter)' BY <2>1, <2>7 DEF Refills, Offered, Meter
  <2>9. QuotaOf!Next BY <2>1, <2>7, RefillsRefine DEF DueNow
  <2> QED BY <2>8, <2>9
<1>10. CASE CrashInAlarm
  <2>1. PICK due \in SUBSET DueNow : Crash(AllReset(Meter, due)) BY <1>10 DEF CrashInAlarm
  <2> DEFINE r == AllReset(Meter, due)
  <2>2. WellFormed(r) /\ Refills(Meter, r, due)
    BY <1>1, AllResetWellFormed, AllResetRefills DEF DueNow
  <2> HIDE DEF r
  <2>3. usage' = r.usage /\ config' = r.config BY <2>1, <2>2, CrashOf DEF r
  <2>4. Offered(Meter)' BY <2>2, <2>3 DEF Refills, Offered, Meter
  <2>5. due \in SUBSET Features BY DEF DueNow
  <2>6. QuotaOf!Next BY <2>2, <2>3, <2>5, RefillsRefine
  <2> QED BY <2>4, <2>6
<1>11. CASE Tick
  <2>1. QuotaOf!Next BY <1>11, TickRefines DEF QuotaOf!Next
  <2>2. \A f \in Features : usage[f] # NoState =>
          Older(usage[f]).limit = usage[f].limit /\ Older(usage[f]).ceiling = usage[f].ceiling
    BY <1>1, StateSound, MeterFields DEF Sound, UsageState, Older
  <2>3. \A f \in Features : usage'[f] = IF usage[f] = NoState THEN NoState ELSE Older(usage[f])
    BY <1>11 DEF Tick
  <2>4. config' = config BY <1>11 DEF Tick
  <2>5. Offered(Meter)' BY <2>2, <2>3, <2>4, MeterFields DEF Offered, OfLimits, Meter
  <2> QED BY <2>1, <2>5
<1>12. CASE UNCHANGED vars
  <2>1. usage' = usage /\ config' = config BY <1>12 DEF vars
  <2>2. Offered(Meter)' BY <2>1 DEF Offered, Meter
  <2>3. Shares' = Shares BY <2>1 DEF Shares, Allotted
  <2> QED BY <2>2, <2>3
<1> QED BY <1>3, <1>4, <1>5, <1>6, <1>7, <1>8, <1>9, <1>10, <1>11, <1>12 DEF Next

(* In whatever order a meter is configured, checked, tracked and reset, and    *)
(* wherever it dies, it implements the allowances of module Quota: no unit is  *)
(* served twice, no period granted early, no more rolled over than was left.   *)
THEOREM QuotaIsKept == Spec => QuotaKept
<1>1. Init => QuotaOf!Init BY DEF Init, QuotaOf!Init, QuotaOf!Granted
<1>2. IInv /\ Offered(Meter) /\ [Next]_vars => Offered(Meter)' BY NextRefines
<1>3. Spec => []Offered(Meter) BY <1>2, InitOffered, Invariance, PTL DEF Spec
<1>4. Shares' = Shares => UNCHANGED QuotaOf!vars
  BY DEF Shares, Share, Allotted, QuotaOf!vars
<1>5. IInv /\ Offered(Meter) /\ [Next]_vars => [QuotaOf!Next]_(QuotaOf!vars)
  BY <1>4, NextRefines
<1> QED BY <1>1, <1>3, <1>5, Invariance, PTL DEF Spec, QuotaKept, QuotaOf!Spec

-----------------------------------------------------------------------------
(* TrackFlow, for any requests, plans, amounts and faults.  A request      *)
(* keeps in order what it reserved, deducted and consumed on its way.      *)
TrackPCs ==
  {"start", "reserve", "guard", "meter", "check", "recheck", "commit", "fallback", "hydrate",
   "configure", "again", "plan", "overage", "addon", "allow", "release", "done"}
TrackAnswers == {"none", "allowed", "denied", "error", "insufficient_credits", "overage_allowed"}
Coverage == [plan : Nat, bonus : Nat, addon : Nat, over : Nat]
TrackRequest ==
  [pc : TrackPCs, kind : {"track", "send", "access"}, value : Nat, addonSeen : Nat,
   bonusSeen : Nat, reserved : Nat, addonPaid : Nat, used : Nat, fits : BOOLEAN,
   parts : Coverage, metered : Nat, hydrated : BOOLEAN, unsent : SUBSET Sources,
   tries : [Sources -> Nat], answer : TrackAnswers]

(* What a request holds of the prepaid credits.                            *)
Reserves(q) ==
  \/ q.kind = "track" /\ q.pc \notin {"start", "reserve"}
  \/ q.pc \in {"commit", "fallback"}
  \/ q.pc \in {"allow", "done"} /\ q.fits
HoldsReserved(q) ==
  /\ q.pc # "release" /\ (q.pc = "done" => q.answer = "allowed") =>
       q.reserved = IF Reserves(q) THEN PrepaidCost(q.value) ELSE 0
  /\ q.pc = "done" /\ q.answer # "allowed" => q.reserved = 0

(* Which way the kinds of requests go.                                     *)
OnItsWay(q) ==
  /\ q.answer = "allowed" => q.pc = "done" /\ q.kind # "access"
  /\ q.kind = "track" => q.pc \notin {"check", "recheck", "commit", "fallback"}
  /\ q.kind = "send" =>
       /\ q.pc \notin {"meter", "again"}
       /\ q.pc \in {"reserve", "commit", "fallback"} => q.fits
       /\ q.pc \in {"plan", "overage", "addon"} => ~q.fits
  /\ q.kind = "access" => q.pc \in {"check", "hydrate", "configure", "done"}

(* What it has taken so far, and whether it configured the meter.          *)
HasTaken(q) ==
  /\ q.pc \notin {"allow", "release", "done"} => q.addonPaid = 0
  /\ q.pc \notin {"addon", "overage", "allow", "release", "done"} => q.metered = 0
  /\ q.pc \in {"start", "check", "hydrate", "configure"} => ~q.hydrated
  /\ q.kind = "track" /\ q.pc \in {"reserve", "guard", "meter"} => ~q.hydrated
  /\ q.pc \in {"again", "recheck"} => q.hydrated

Orderly(q) == q \in TrackRequest /\ HoldsReserved(q) /\ OnItsWay(q) /\ HasTaken(q)

(* The object never has another configuration than the plan's, and within  *)
(* the period nothing is reset or rolled over.                             *)
Plain(u) ==
  /\ u \in UsageState /\ u.limit = plan.config.limit /\ u.age = 0 /\ u.rollover = 0
  /\ u.limit # Unlimited => u.balance \in Nat
Metering ==
  /\ usage \in [Features -> UsageState \cup {NoState}]
  /\ config \in [Features -> {NoConfig, plan.config}]
  /\ Now(Meter) # NoState => Plain(Now(Meter)) /\ config[Feature] = plan.config

TrackTypes ==
  /\ plan \in Plans /\ credits \in Nat /\ addon \in Nat /\ faults \in Nat
  /\ req \in [Requests -> TrackRequest] /\ ledger \in [Requests -> [Sources -> Nat]]
  /\ \A r \in Requests : Orderly(req[r])
  /\ Metering /\ \A r \in Requests : req[r].hydrated => Now(Meter) # NoState

-----------------------------------------------------------------------------
LEMMA TrackConstants ==
  /\ IsFiniteSet(Requests) /\ Features = {Feature} /\ Values \subseteq Nat
  /\ {Prior, Credits0, Addon0, Bonus0, MaxFaults} \subseteq Nat
  /\ \A p \in Plans : /\ p.config \in FeatureConfig /\ p.creditSystem \in BOOLEAN
                      /\ p.config.creditCost \in Nat /\ p.config.limit \in Amount
                      /\ p.config # NoConfig /\ p.config.interval \in Nat
BY TrackAssumption, MeterAssumption DEF Plan, FeatureConfig

LEMMA PrepaidTyped == ASSUME plan \in Plans, NEW v \in Nat PROVE PrepaidCost(v) \in Nat
<1>1. plan.config.creditCost \in Nat BY TrackConstants
<1>2. \A m, n \in Nat : m * n \in Nat OBVIOUS
<1> QED BY <1>1, <1>2 DEF PrepaidCost

LEMMA RecordedTyped ==
  ASSUME ledger \in [Requests -> [Sources -> Nat]], NEW s \in Sources PROVE Recorded(s) \in Nat
<1> DEFINE f == [r \in Requests |-> ledger[r][s]]
<1>1. Recorded(s) = Total(f, Requests)
  BY DEF Recorded, Sum, Total, MapThenSumSet, MapThenFoldSet
<1>2. \A r \in Requests : f[r] \in Nat OBVIOUS
<1> HIDE DEF f
<1> QED BY <1>1, <1>2, TrackConstants, TotalType

LEMMA SplitTyped ==
  ASSUME NEW v \in Nat, NEW left \in Nat, NEW b \in Nat, NEW a \in Nat
  PROVE  Split(v, left, b, a) \in Coverage
BY DEF Split, Least, Coverage

(* The object as a call finds it: within the period, preparing it does no  *)
(* more than to store the plan's configuration.                            *)
Ready(m) ==
  /\ m = [usage |-> usage, config |-> m.config, alarm |-> alarm]
  /\ m.config \in [Features -> {NoConfig, plan.config}]
  /\ Now(Meter) # NoState => m.config[Feature] = plan.config

LEMMA NotDue == ASSUME TrackTypes PROVE MaybeReset(Meter, Feature) = Meter
<1>1. ASSUME Known(Meter, Feature) PROVE ~Due(Meter, Feature)
  <2>1. usage[Feature].age = 0 /\ config[Feature] = plan.config
    BY <1>1 DEF TrackTypes, Metering, Plain, Known, Now, Meter
  <2>2. plan.config.interval \in Nat BY TrackConstants DEF TrackTypes
  <2> QED BY <2>1, <2>2 DEF Due, Resets, Meter
<1> QED BY <1>1 DEF MaybeReset, Due, Resets

LEMMA MeterReady == ASSUME TrackTypes PROVE Ready(MaybeReset(Meter, Feature))
BY NotDue DEF Ready, Meter, TrackTypes, Metering

LEMMA PreparedReady ==
  ASSUME TrackTypes
  PROVE  Ready(Prepared(Meter, Feature, plan.config))
<1> DEFINE c == plan.config
<1>1. Feature \in Features /\ c # NoConfig BY TrackConstants DEF TrackTypes
<1>2. usage \in [Features -> UsageState \cup {NoState}] /\ config \in [Features -> {NoConfig, c}]
  BY DEF TrackTypes, Metering
<1>3. CASE usage[Feature] = NoState
  <2> DEFINE m == [usage |-> usage, config |-> [config EXCEPT ![Feature] = c], alarm |-> alarm]
  <2>1. Stored(Meter, Feature, c) = m BY <1>1, <1>2, <1>3 DEF Stored, Meter
  <2>2. SyncConfig(Meter, Feature, c) = m BY <1>3, <2>1 DEF SyncConfig, Meter
  <2>3. ~Known(m, Feature) BY <1>3 DEF Known
  <2>4. Prepared(Meter, Feature, c) = m BY <2>2, <2>3 DEF Prepared
  <2>5. m.config \in [Features -> {NoConfig, c}] BY <1>2
  <2> QED BY <1>3, <2>4, <2>5 DEF Ready, Now, Meter
<1>4. CASE usage[Feature] # NoState
  <2>1. config[Feature] = c BY <1>4 DEF TrackTypes, Metering, Now, Meter
  <2>2. ~Changed(Meter.config[Feature], c) BY <2>1 DEF Changed, Meter
  <2>3. SyncConfig(Meter, Feature, c) = Meter BY <1>4, <2>2 DEF SyncConfig, Stored, Meter
  <2>4. Prepared(Meter, Feature, c) = Meter BY <2>3, NotDue DEF Prepared
  <2> QED BY <1>2, <2>1, <2>4 DEF Ready, Meter
<1> QED BY <1>3, <1>4

(* A call that only looks leaves the usage as it was.                      *)
Looks == usage' = usage /\ Metering'
Takes(n) ==
  /\ Metering' /\ n \in Nat /\ Now(Meter) # NoState /\ Now(Meter)' # NoState
  /\ plan.config.limit # Unlimited =>
       /\ Left(Now(Meter)) \in Nat /\ Left(Now(Meter)') = Left(Now(Meter)) - n
       /\ n <= Left(Now(Meter))

LEMMA ReadyLooks ==
  ASSUME TrackTypes, NEW m, Ready(m), MeterBecomes(m), UNCHANGED plan
  PROVE  Looks
<1>1. usage' = usage /\ config' = m.config BY DEF MeterBecomes, Becomes, Ready
<1>2. Now(Meter)' = Now(Meter) BY <1>1 DEF Now, Meter
<1>3. Plain(Now(Meter)) => Plain(Now(Meter))' BY <1>2 DEF Plain
<1> QED BY <1>1, <1>2, <1>3 DEF Looks, Metering, TrackTypes, Ready

LEMMA MeterSameLooks == ASSUME TrackTypes, MeterSame, UNCHANGED plan PROVE Looks
<1>1. usage' = usage /\ config' = config BY DEF MeterSame, vars
<1>2. Now(Meter)' = Now(Meter) BY <1>1 DEF Now, Meter
<1>3. Plain(Now(Meter)) => Plain(Now(Meter))' BY <1>2 DEF Plain
<1> QED BY <1>1, <1>2, <1>3 DEF Looks, Metering, TrackTypes

LEMMA PlainTakes ==
  ASSUME plan \in Plans, NEW u, Plain(u), NEW n \in Nat, Allows(u, n)
  PROVE  /\ Plain(Consumed(u, n))
         /\ u.limit # Unlimited =>
              Left(u) \in Nat /\ Left(Consumed(u, n)) = Left(u) - n /\ n <= Left(u)
<1>1. Unlimited \notin Nat BY MeterAssumption
<1>2. /\ u \in UsageState /\ u.limit = plan.config.limit /\ u.age = 0 /\ u.rollover = 0
      /\ u.usage \in Nat /\ u.consumed \in Nat /\ u.balance \in Amount /\ u.limit \in Amount
  BY DEF Plain, UsageState
<1> DEFINE used == [u EXCEPT !.usage = u.usage + n, !.consumed = u.consumed + n]
<1>3. Consumed(u, n) = IF u.limit = Unlimited THEN used
                       ELSE IF AtLeast(u.rollover, n)
                            THEN [used EXCEPT !.rollover = Minus(u.rollover, n)]
                            ELSE [used EXCEPT !.rollover = 0,
                                              !.balance = Minus(u.balance, n - u.rollover)]
  BY <1>2 DEF Consumed, UsageState
<1>4. /\ used \in UsageState /\ used.rollover = 0 /\ used.balance = u.balance
      /\ used.limit = u.limit /\ used.age = 0
  <2>1. u.usage + n \in Nat /\ u.consumed + n \in Nat BY <1>2
  <2> QED BY <1>2, <2>1 DEF UsageState
<1>5. CASE u.limit = Unlimited
  <2>1. Consumed(u, n) = used BY <1>3, <1>5
  <2> QED BY <1>2, <1>4, <1>5, <2>1 DEF Plain, UsageState
<1>6. CASE u.limit # Unlimited
  <2>1. u.balance \in Nat /\ u.rollover # Unlimited BY <1>1, <1>2, <1>6 DEF Plain
  <2>2. Left(u) = u.balance BY <1>1, <1>2, <2>1 DEF Left, Plus
  <2>3. n <= u.balance BY <1>1, <1>6, <2>1, <2>2 DEF Allows, AtLeast
  <2>4. CASE n = 0
    <3>1. AtLeast(u.rollover, n) /\ Minus(u.rollover, n) = 0 BY <1>1, <1>2, <2>4 DEF AtLeast, Minus
    <3>2. Consumed(u, n) = [used EXCEPT !.rollover = 0] BY <1>3, <1>6, <3>1
    <3>3. [used EXCEPT !.rollover = 0] = used BY <1>4 DEF UsageState
    <3>4. Consumed(u, n) = used BY <3>2, <3>3
    <3> HIDE DEF used
    <3>5. Plain(Consumed(u, n)) BY <1>2, <1>4, <2>1, <3>4 DEF Plain
    <3>6. Left(Consumed(u, n)) = u.balance BY <1>1, <1>4, <2>1, <3>4 DEF Left, Plus
    <3> QED BY <2>1, <2>2, <2>4, <3>5, <3>6
  <2>5. CASE n # 0
    <3>1. ~AtLeast(u.rollover, n) BY <1>1, <1>2, <2>5 DEF AtLeast
    <3>2. Minus(u.balance, n - u.rollover) = u.balance - n BY <1>1, <1>2, <2>1 DEF Minus
    <3>3. Consumed(u, n) = [used EXCEPT !.rollover = 0, !.balance = u.balance - n]
      BY <1>3, <1>6, <3>1, <3>2
    <3>4. u.balance - n \in Nat BY <2>1, <2>3
    <3>5. [used EXCEPT !.rollover = 0, !.balance = u.balance - n] \in UsageState
      BY <1>4, <3>4 DEF UsageState, Amount
    <3>6. Plain(Consumed(u, n)) BY <1>2, <3>3, <3>4, <3>5 DEF Plain, UsageState
    <3>7. Left(Consumed(u, n)) = u.balance - n
      BY <1>1, <1>2, <3>3, <3>4 DEF Left, Plus, UsageState
    <3> QED BY <2>1, <2>2, <2>3, <3>6, <3>7
  <2> QED BY <2>4, <2>5
<1> QED BY <1>5, <1>6

LEMMA CostTyped == ASSUME plan \in Plans, NEW v \in Nat PROVE Cost(plan.config, v) \in Nat
<1>1. plan.config.creditCost \in Nat BY TrackConstants
<1>2. \A m, n \in Nat : m * n \in Nat OBVIOUS
<1> QED BY <1>1, <1>2 DEF Cost

LEMMA MeterTakes ==
  ASSUME TrackTypes, NEW m, Ready(m), NEW v \in Nat, MeterBecomes(Tracked(m, Feature, v)),
         UNCHANGED plan
  PROVE  IF CanTrack(m, Feature, v)
         THEN Takes(Cost(m.config[Feature], v)) /\ m.config[Feature] = plan.config
         ELSE Looks
<1>1. CASE ~CanTrack(m, Feature, v)
  <2>1. Tracked(m, Feature, v) = m BY <1>1 DEF Tracked
  <2> QED BY <1>1, <2>1, ReadyLooks
<1>2. CASE CanTrack(m, Feature, v)
  <2> DEFINE u == usage[Feature]  n == Cost(plan.config, v)
  <2>1. /\ Feature \in Features /\ u # NoState /\ m.config[Feature] = plan.config
        /\ Plain(u) /\ Allows(u, n) /\ m.usage = usage /\ u \in UsageState
    BY <1>2, TrackConstants DEF CanTrack, Known, Ready, TrackTypes, Metering, Now, Meter, Plain
  <2>2. n \in Nat BY CostTyped DEF TrackTypes
  <2>3. usage' = [usage EXCEPT ![Feature] = Consumed(u, n)] /\ config' = m.config
    BY <1>2, <2>1 DEF MeterBecomes, Becomes, Tracked, Ready
  <2>4. Plain(Consumed(u, n)) BY <2>1, <2>2, PlainTakes DEF TrackTypes
  <2>5. Now(Meter) = u /\ Now(Meter)' = Consumed(u, n)
    BY <2>1, <2>3 DEF Now, Meter, TrackTypes, Metering
  <2>6. Consumed(u, n) \in UsageState /\ Consumed(u, n) # NoState
    BY <2>4, MeterAssumption DEF Plain
  <2>7. Plain(Now(Meter))' BY <2>4, <2>5 DEF Plain
  <2>8. Metering' BY <2>1, <2>3, <2>6, <2>7 DEF Metering, TrackTypes, Ready
  <2>9. u.limit = plan.config.limit BY <2>1 DEF Plain
  <2>10. plan.config.limit # Unlimited =>
           Left(u) \in Nat /\ Left(Consumed(u, n)) = Left(u) - n /\ n <= Left(u)
    BY <2>1, <2>2, <2>9, PlainTakes DEF TrackTypes
  <2> HIDE DEF u, n
  <2>11. Takes(n) BY <2>1, <2>2, <2>5, <2>6, <2>8, <2>10 DEF Takes
  <2> QED BY <1>2, <2>1, <2>11 DEF n
<1> QED BY <1>1, <1>2

(* The usage that the ledger knows of is granted anew, or what the meter   *)
(* has is kept.                                                            *)
Grants(n) ==
  /\ Metering' /\ Now(Meter)' # NoState
  /\ IF Now(Meter) = NoState \/ plan.config.resetOnEnable
     THEN Left(Now(Meter)') = Remaining(plan.config.limit, n)
     ELSE Now(Meter)' = Now(Meter)

LEMMA GrantedPlain ==
  ASSUME plan \in Plans, NEW n \in Nat
  PROVE  Plain(Granted(plan.config, n, 0))
         /\ Left(Granted(plan.config, n, 0)) = Remaining(plan.config.limit, n)
<1> DEFINE c == plan.config  u == Granted(c, n, 0)
<1>1. c \in FeatureConfig /\ c.limit \in Amount /\ Unlimited \notin Nat
  BY TrackConstants, MeterAssumption
<1>2. u \in UsageState BY <1>1, GrantedSound DEF Sound, Amount
<1>3. /\ u.balance = Remaining(c.limit, n) /\ u.limit = c.limit
      /\ u.rollover = 0 /\ u.age = 0
  BY DEF Granted
<1>4. Remaining(c.limit, n) \in Amount /\ (c.limit # Unlimited => Remaining(c.limit, n) \in Nat)
  BY <1>1 DEF Remaining, Amount
<1> HIDE DEF u, c
<1>5. Plain(u) BY <1>2, <1>3, <1>4 DEF Plain, c
<1>6. Left(u) = Remaining(c.limit, n) BY <1>1, <1>3, <1>4 DEF Left, Plus, Amount
<1> QED BY <1>5, <1>6 DEF u, c

LEMMA MeterGrants ==
  ASSUME TrackTypes, NEW n \in Nat, UNCHANGED plan,
         MeterBecomes(ConfigureFeature(Meter, Feature, plan.config, n))
  PROVE  Grants(n)
<1> DEFINE c == plan.config
           kept == usage[Feature] # NoState /\ ~c.resetOnEnable
           u == IF kept THEN usage[Feature] ELSE Granted(c, n, 0)
           stored == Configured(Meter, Feature, c, n)
<1>1. /\ Feature \in Features /\ c # NoConfig /\ usage \in [Features -> UsageState \cup {NoState}]
      /\ config \in [Features -> {NoConfig, c}]
  BY TrackConstants DEF TrackTypes, Metering
<1>2. stored = [usage |-> [usage EXCEPT ![Feature] = u], config |-> [config EXCEPT ![Feature] = c],
                alarm |-> alarm]
  <2>1. u = IF usage[Feature] = NoState \/ c.resetOnEnable THEN Granted(c, n, 0) ELSE usage[Feature]
    OBVIOUS
  <2>2. Meter.usage[Feature] = usage[Feature] BY DEF Meter
  <2> HIDE DEF u
  <2>3. stored = [Meter EXCEPT !.config[Feature] = c, !.usage[Feature] = u]
    BY <2>1, <2>2 DEF Configured
  <2> QED BY <2>3 DEF Meter
<1>3. usage' = [usage EXCEPT ![Feature] = u] /\ config' = [config EXCEPT ![Feature] = c]
  <2>1. ConfigureFeature(Meter, Feature, c, n).usage = stored.usage
        /\ ConfigureFeature(Meter, Feature, c, n).config = stored.config
    BY <1>2 DEF ConfigureFeature, Scheduled
  <2> QED BY <1>2, <2>1 DEF MeterBecomes, Becomes
<1>4. Plain(u)
  <2>1. CASE kept BY <2>1 DEF TrackTypes, Metering, Now, Meter
  <2>2. CASE ~kept BY <2>2, GrantedPlain DEF TrackTypes
  <2> QED BY <2>1, <2>2
<1>5. u \in UsageState /\ u # NoState BY <1>4, MeterAssumption DEF Plain
<1>6. Now(Meter)' = u /\ Now(Meter) = usage[Feature] BY <1>1, <1>3 DEF Now, Meter
<1>7. ~kept => Left(u) = Remaining(c.limit, n) BY GrantedPlain DEF TrackTypes
<1>8. Plain(Now(Meter))' BY <1>4, <1>6 DEF Plain
<1>9. Metering' BY <1>1, <1>3, <1>5, <1>8 DEF Metering
<1>10. CASE kept BY <1>5, <1>6, <1>9, <1>10 DEF Grants
<1>11. CASE ~kept
  <2> HIDE DEF u
  <2> QED BY <1>5, <1>6, <1>7, <1>9, <1>11 DEF Grants
<1> QED BY <1>10, <1>11

-----------------------------------------------------------------------------
(* What a step makes of a request: it goes on as q2, and what it gains of  *)
(* the credits they lose, or a failed call loses more.                     *)
Taken(q) == IF q.answer = "allowed" \/ q.pc = "allow" THEN q.addonPaid ELSE 0
Moves(r, q2) ==
  /\ Orderly(q2) /\ req' = [req EXCEPT ![r] = q2] /\ UNCHANGED plan
  /\ credits' \in Nat /\ addon' \in Nat /\ faults' \in Nat /\ faults <= faults'
  /\ credits' + q2.reserved <= credits + req[r].reserved
  /\ addon' + Taken(q2) <= addon + Taken(req[r])
  /\ faults' = 0 => /\ credits' + q2.reserved = credits + req[r].reserved
                    /\ addon' + Taken(q2) = addon + Taken(req[r])

(* And of the meter: it looks, takes what it records, or configures, and   *)
(* it configures only what the meter did not know.                         *)
MovesMeter(r, q2) ==
  LET q == req[r]
  IN  /\ \/ /\ Looks /\ q2.metered = q.metered
         \/ /\ q.metered = 0 /\ Takes(q2.metered)
         \/ /\ Grants(q.used) /\ q.pc = "configure" /\ q2.hydrated /\ q2.metered = q.metered
      /\ q2.hydrated = q.hydrated \/ (q2.hydrated /\ q.pc = "configure" /\ Now(Meter)' # NoState)
      /\ q.hydrated \/ q2.hydrated => q2.used = q.used
      /\ q2.pc \in {"hydrate", "configure"} =>
           q.pc \in {"hydrate", q2.pc} \/ Now(Meter) = NoState
Goes(r) == \E q2 : Moves(r, q2) /\ MovesMeter(r, q2)

LEMMA RequestFields ==
  ASSUME NEW q \in TrackRequest
  PROVE  /\ q.pc \in TrackPCs /\ q.kind \in {"track", "send", "access"} /\ q.value \in Nat
         /\ q.addonSeen \in Nat /\ q.bonusSeen \in Nat /\ q.reserved \in Nat
         /\ q.addonPaid \in Nat /\ q.used \in Nat /\ q.fits \in BOOLEAN /\ q.parts \in Coverage
         /\ q.parts.plan \in Nat /\ q.parts.addon \in Nat /\ q.parts.over \in Nat
         /\ q.metered \in Nat /\ q.hydrated \in BOOLEAN /\ q.answer \in TrackAnswers
BY DEF TrackRequest, Coverage

LEMMA RequestOrderly ==
  ASSUME TrackTypes, NEW r \in Requests PROVE Orderly(req[r]) /\ req[r] \in TrackRequest
BY DEF TrackTypes, Orderly

LEMMA FailedOrderly ==
  ASSUME NEW q, Orderly(q)
  PROVE  /\ Orderly(Failed(q)) /\ Failed(q).reserved \in Nat /\ Failed(q).reserved <= q.reserved
         /\ Taken(Failed(q)) = 0 /\ Taken(q) \in Nat
         /\ Failed(q).metered = q.metered /\ Failed(q).hydrated = q.hydrated
         /\ Failed(q).used = q.used /\ Failed(q).pc \in {"release", "done"}
<1>1. q \in TrackRequest BY DEF Orderly
<1>2. /\ q.kind \in {"track", "send", "access"} /\ q.reserved \in Nat /\ q.addonPaid \in Nat
      /\ q.hydrated \in BOOLEAN
  BY <1>1, RequestFields
<1>3. CASE q.kind = "track"
  <2> DEFINE f == [q EXCEPT !.pc = "release", !.answer = "error"]
  <2>1. Failed(q) = f BY <1>3 DEF Failed
  <2>2. f \in TrackRequest BY <1>1 DEF TrackRequest, TrackPCs, TrackAnswers
  <2>3. /\ f.pc = "release" /\ f.answer = "error" /\ f.kind = "track" /\ f.reserved = q.reserved
        /\ f.metered = q.metered /\ f.hydrated = q.hydrated /\ f.used = q.used
    BY <1>1, <1>3 DEF TrackRequest
  <2> HIDE DEF f
  <2>4. Orderly(f) BY <2>2, <2>3 DEF Orderly, HoldsReserved, OnItsWay, HasTaken
  <2> QED BY <1>2, <2>1, <2>3, <2>4 DEF Taken
<1>4. CASE q.kind # "track"
  <2> DEFINE f == [q EXCEPT !.pc = "done", !.answer = "error", !.reserved = 0]
  <2>1. Failed(q) = f BY <1>4 DEF Failed
  <2>2. f \in TrackRequest BY <1>1 DEF TrackRequest, TrackPCs, TrackAnswers
  <2>3. /\ f.pc = "done" /\ f.answer = "error" /\ f.kind = q.kind /\ f.reserved = 0
        /\ f.metered = q.metered /\ f.hydrated = q.hydrated /\ f.used = q.used
    BY <1>1, <1>4 DEF TrackRequest
  <2> HIDE DEF f
  <2>4. Orderly(f) BY <1>4, <2>2, <2>3 DEF Orderly, HoldsReserved, OnItsWay, HasTaken
  <2> QED BY <1>2, <2>1, <2>3, <2>4 DEF Taken
<1> QED BY <1>3, <1>4

(* A reply that is lost leaves what the meter has done, and loses what the *)
(* request had paid.                                                       *)
LEMMA ReplyGoes ==
  ASSUME TrackTypes, NEW r \in Requests, NEW next, Orderly(next), Reply(r, next),
         credits' \in Nat, addon' \in Nat,
         credits' + next.reserved = credits + req[r].reserved,
         addon' + Taken(next) = addon + Taken(req[r]),
         MovesMeter(r, next)
  PROVE  Goes(r)
<1>1. faults \in Nat /\ UNCHANGED plan BY DEF TrackTypes, Reply, Calm
<1>2. next.reserved \in Nat /\ Taken(next) \in Nat
  BY FailedOrderly, RequestFields DEF Orderly
<1>3. req[r].reserved \in Nat /\ Taken(req[r]) \in Nat /\ credits \in Nat /\ addon \in Nat
  BY RequestOrderly, FailedOrderly, RequestFields DEF TrackTypes
<1>4. CASE req' = [req EXCEPT ![r] = next] /\ UNCHANGED faults
  <2>1. Moves(r, next) BY <1>1, <1>2, <1>3, <1>4 DEF Moves
  <2> QED BY <2>1 DEF Goes
<1>5. CASE faults' = faults + 1 /\ req' = [req EXCEPT ![r] = Failed(next)]
  <2> DEFINE f == Failed(next)
  <2>1. /\ Orderly(f) /\ f.reserved \in Nat /\ f.reserved <= next.reserved /\ Taken(f) = 0
        /\ f.metered = next.metered /\ f.hydrated = next.hydrated /\ f.used = next.used
        /\ f.pc \in {"release", "done"}
    BY FailedOrderly
  <2> HIDE DEF f
  <2>2. /\ credits' + f.reserved <= credits + req[r].reserved
        /\ addon' + Taken(f) <= addon + Taken(req[r])
        /\ faults' # 0 /\ faults' \in Nat /\ faults <= faults'
    BY <1>1, <1>2, <1>3, <1>5, <2>1
  <2>3. Moves(r, f) BY <1>1, <1>5, <2>1, <2>2 DEF Moves, f
  <2>4. MovesMeter(r, f) BY <2>1 DEF MovesMeter
  <2> QED BY <2>3, <2>4 DEF Goes
<1> QED BY <1>4, <1>5 DEF Reply

(* A step that does not ask the meter, nor takes add-on credits.           *)
Quietly(r, next) ==
  /\ Orderly(next) /\ req' = [req EXCEPT ![r] = next]
  /\ MeterSame /\ UNCHANGED <<plan, addon>>
  /\ credits' \in Nat /\ faults' \in Nat /\ faults <= faults'
  /\ credits' + next.reserved <= credits + req[r].reserved
  /\ faults' = 0 => credits' + next.reserved = credits + req[r].reserved
  /\ Taken(next) <= Taken(req[r]) /\ (faults' = 0 => Taken(next) = Taken(req[r]))
  /\ next.metered = req[r].metered /\ next.hydrated = req[r].hydrated
  /\ next.used = req[r].used \/ ~next.hydrated
  /\ next.pc \in {"hydrate", "configure"} => req[r].pc \in {"hydrate", next.pc}

LEMMA QuietGoes ==
  ASSUME TrackTypes, NEW r \in Requests, NEW next, Quietly(r, next)
  PROVE  Goes(r)
<1> USE DEF Quietly
<1>1. Looks BY MeterSameLooks
<1>2. MovesMeter(r, next) BY <1>1 DEF MovesMeter
<1>3. addon \in Nat /\ Taken(next) \in Nat /\ Taken(req[r]) \in Nat
  BY RequestOrderly, FailedOrderly DEF TrackTypes
<1>4. Moves(r, next) BY <1>3 DEF Moves
<1> QED BY <1>2, <1>4 DEF Goes

-----------------------------------------------------------------------------
LEMMA StartGoes ==
  ASSUME TrackTypes, NEW r \in Requests, NEW kind \in {"track", "send", "access"},
         NEW v \in Nat, Start(r, kind, v)
  PROVE  Goes(r)
<1> DEFINE q == req[r]
           seen == IF plan.creditSystem THEN addon ELSE 0
           left == IF Bonus0 > Recorded("bonus") THEN Bonus0 - Recorded("bonus") ELSE 0
           pc == IF kind = "track" THEN "reserve" ELSE "check"
           next == [q EXCEPT !.pc = pc, !.kind = kind, !.value = v, !.addonSeen = seen,
                             !.bonusSeen = left]
<1>1. q \in TrackRequest /\ Orderly(q) /\ q.pc = "start" BY RequestOrderly DEF Start, At
<1>2. /\ req' = [req EXCEPT ![r] = next] /\ MeterSame /\ MoneySame /\ UNCHANGED <<plan, faults>>
  BY DEF Start, Quiet, Calm
<1>3. seen \in Nat /\ left \in Nat
  <2>1. Recorded("bonus") \in Nat BY RecordedTyped DEF TrackTypes, Sources
  <2> QED BY <2>1, TrackConstants DEF TrackTypes
<1>4. pc \in {"reserve", "check"} OBVIOUS
<1> HIDE DEF seen, left
<1>5. next \in TrackRequest BY <1>1, <1>3 DEF TrackRequest, TrackPCs
<1>6. /\ next.pc = pc /\ next.kind = kind /\ next.reserved = q.reserved
      /\ next.answer = q.answer /\ next.addonPaid = q.addonPaid /\ next.metered = q.metered
      /\ next.hydrated = q.hydrated /\ next.used = q.used
  BY <1>1 DEF TrackRequest
<1>7. /\ q.reserved = 0 /\ q.answer # "allowed" /\ ~q.hydrated /\ q.metered = 0 /\ q.addonPaid = 0
  BY <1>1 DEF Orderly, HoldsReserved, OnItsWay, HasTaken, Reserves
<1> HIDE DEF next, q
<1>8. Orderly(next)
  BY <1>5, <1>6, <1>7 DEF Orderly, HoldsReserved, OnItsWay, HasTaken, Reserves
<1>9. Taken(next) = 0 /\ Taken(q) = 0 BY <1>1, <1>6, <1>7 DEF Taken
<1>10. q.reserved \in Nat /\ credits \in Nat /\ faults \in Nat
  BY <1>1, RequestFields DEF TrackTypes
<1>11. Quietly(r, next)
  BY <1>1, <1>2, <1>4, <1>6, <1>7, <1>8, <1>9, <1>10 DEF q, MoneySame, Quietly
<1> QED BY <1>11, QuietGoes

LEMMA ReserveGoes ==
  ASSUME TrackTypes, NEW r \in Requests, Reserve(r) PROVE Goes(r)
<1> DEFINE q == req[r]  cost == PrepaidCost(q.value)
           pc == IF q.kind = "send" THEN "commit" ELSE IF plan.usageBased THEN "guard" ELSE "meter"
           paid == [q EXCEPT !.reserved = cost, !.pc = pc]
           poor == [q EXCEPT !.pc = "done", !.answer = "insufficient_credits"]
<1>1. q \in TrackRequest /\ Orderly(q) /\ q.pc = "reserve" BY RequestOrderly DEF Reserve, At
<1>2. MeterSame /\ UNCHANGED <<plan, faults, addon>> BY DEF Reserve, Quiet, Calm
<1>3. cost \in Nat /\ credits \in Nat /\ faults \in Nat
  BY <1>1, PrepaidTyped, RequestFields DEF TrackTypes
<1>4. /\ q.reserved = 0 /\ q.answer # "allowed" /\ q.metered = 0 /\ q.addonPaid = 0
      /\ q.kind # "access" /\ (q.kind = "send" => q.fits) /\ (q.kind = "track" => ~q.hydrated)
      /\ q.kind \in {"track", "send", "access"} /\ Taken(q) = 0
  BY <1>1, RequestFields DEF Orderly, HoldsReserved, OnItsWay, HasTaken, Reserves, Taken
<1>7. req[r] = q OBVIOUS
<1>5. CASE credits >= cost /\ credits' = credits - cost
           /\ req' = [req EXCEPT ![r].reserved = cost, ![r].pc = pc]
  <2>1. req' = [req EXCEPT ![r] = paid] BY <1>5 DEF TrackTypes
  <2>2. paid \in TrackRequest BY <1>1, <1>3 DEF TrackRequest, TrackPCs
  <2>3. /\ paid.pc = pc /\ paid.kind = q.kind /\ paid.reserved = cost /\ paid.value = q.value
        /\ paid.answer = q.answer /\ paid.addonPaid = q.addonPaid /\ paid.metered = q.metered
        /\ paid.hydrated = q.hydrated /\ paid.used = q.used /\ paid.fits = q.fits
    BY <1>1 DEF TrackRequest
  <2>4. pc \in {"commit", "guard", "meter"} /\ (pc = "commit" <=> q.kind = "send") OBVIOUS
  <2> HIDE DEF paid, pc
  <2>5. PrepaidCost(paid.value) = cost BY <2>3
  <2> HIDE DEF q, cost
  <2>6. Orderly(paid)
    BY <1>4, <2>2, <2>3, <2>4, <2>5 DEF Orderly, HoldsReserved, OnItsWay, HasTaken, Reserves
  <2>7. Taken(paid) = 0 BY <1>4, <2>3, <2>4 DEF Taken
  <2>8. /\ credits' \in Nat /\ faults' \in Nat /\ faults <= faults'
        /\ credits' + paid.reserved <= credits + q.reserved
        /\ credits' + paid.reserved = credits + q.reserved
    BY <1>2, <1>3, <1>4, <1>5, <2>3
  <2>9. Taken(paid) <= Taken(q) /\ Taken(paid) = Taken(q) BY <1>4, <2>7
  <2>10. Quietly(r, paid) BY <1>2, <1>7, <2>1, <2>3, <2>4, <2>6, <2>8, <2>9 DEF Quietly
  <2> QED BY <2>10, QuietGoes
<1>6. CASE UNCHANGED credits
           /\ req' = [req EXCEPT ![r].pc = "done", ![r].answer = "insufficient_credits"]
  <2>1. req' = [req EXCEPT ![r] = poor] BY <1>6 DEF TrackTypes
  <2>2. poor \in TrackRequest BY <1>1 DEF TrackRequest, TrackPCs, TrackAnswers
  <2>3. /\ poor.pc = "done" /\ poor.kind = q.kind /\ poor.reserved = q.reserved
        /\ poor.answer = "insufficient_credits" /\ poor.addonPaid = q.addonPaid
        /\ poor.metered = q.metered /\ poor.hydrated = q.hydrated /\ poor.used = q.used
    BY <1>1 DEF TrackRequest
  <2> HIDE DEF poor, q
  <2>4. Orderly(poor)
    BY <1>4, <2>2, <2>3 DEF Orderly, HoldsReserved, OnItsWay, HasTaken, Reserves
  <2>5. Taken(poor) = 0 BY <2>3 DEF Taken
  <2>6. /\ credits' \in Nat /\ faults' \in Nat /\ faults <= faults'
        /\ credits' + poor.reserved <= credits + q.reserved
        /\ credits' + poor.reserved = credits + q.reserved
    BY <1>2, <1>3, <1>4, <1>6, <2>3
  <2>7. Taken(poor) <= Taken(q) /\ Taken(poor) = Taken(q) BY <1>4, <2>5
  <2>8. Quietly(r, poor) BY <1>2, <1>7, <2>1, <2>3, <2>4, <2>6, <2>7 DEF Quietly
  <2> QED BY <2>8, QuietGoes
<1> QED BY <1>5, <1>6 DEF Reserve

(* A step that only moves the request on.                                  *)
LEMMA StepsOn ==
  ASSUME TrackTypes, NEW r \in Requests, NEW q, q = req[r], NEW next, Orderly(next),
         req' = [req EXCEPT ![r] = next], MeterSame, MoneySame, UNCHANGED plan,
         faults' \in {faults, faults + 1}, next.reserved = q.reserved, Taken(next) = Taken(q),
         next.metered = q.metered, next.hydrated = q.hydrated,
         next.used = q.used \/ ~next.hydrated,
         next.pc \in {"hydrate", "configure"} => q.pc \in {"hydrate", next.pc}
  PROVE  Goes(r)
<1>1. q \in TrackRequest /\ q.reserved \in Nat /\ Taken(q) \in Nat /\ credits \in Nat /\ faults \in Nat
  BY RequestOrderly, RequestFields, FailedOrderly DEF TrackTypes
<1>2. /\ credits' \in Nat /\ faults' \in Nat /\ faults <= faults'
      /\ credits' + next.reserved <= credits + q.reserved
      /\ credits' + next.reserved = credits + q.reserved
  BY <1>1 DEF MoneySame
<1>3. Taken(next) <= Taken(q) BY <1>1
<1>4. addon' = addon BY DEF MoneySame
<1>5. Quietly(r, next) BY <1>2, <1>3, <1>4 DEF Quietly
<1> QED BY <1>5, QuietGoes

LEMMA Onward ==
  ASSUME NEW q \in TrackRequest, NEW pc \in TrackPCs, NEW next, next = [q EXCEPT !.pc = pc]
  PROVE  /\ next \in TrackRequest /\ next.pc = pc
         /\ next.kind = q.kind /\ next.value = q.value /\ next.reserved = q.reserved
         /\ next.addonPaid = q.addonPaid /\ next.used = q.used /\ next.fits = q.fits
         /\ next.metered = q.metered /\ next.hydrated = q.hydrated /\ next.answer = q.answer
         /\ next.parts = q.parts
BY DEF TrackRequest

LEMMA AfterPlanIn == \A parts : AfterPlan(parts) \in {"addon", "allow", "overage", "release"}
BY DEF AfterPlan

LEMMA AfterCheckIn ==
  ASSUME NEW q
  PROVE  /\ q.fits => AfterCheck(q) = "reserve"
         /\ ~q.fits => AfterCheck(q) \in {"plan", "addon", "allow", "overage", "release"}
BY AfterPlanIn DEF AfterCheck

LEMMA GuardGoes ==
  ASSUME TrackTypes, NEW r \in Requests, Guard(r) PROVE Goes(r)
<1> DEFINE q == req[r]
<1>1. q \in TrackRequest /\ Orderly(q) /\ q.pc = "guard" BY RequestOrderly DEF Guard, At
<1>2. MeterSame /\ MoneySame /\ UNCHANGED <<plan, faults>> BY DEF Guard, Quiet, Calm
<1>3. PICK pc : /\ req' = [req EXCEPT ![r].pc = pc]
                /\ pc \in {IF q.kind = "send" THEN AfterCheck(q) ELSE "meter", "release"}
  BY DEF Guard, Goto
<1>4. /\ q.kind = "send" /\ q.fits => pc \in {"reserve", "release"}
      /\ q.kind = "send" /\ ~q.fits => pc \in {"plan", "addon", "allow", "overage", "release"}
      /\ q.kind # "send" => pc \in {"meter", "release"}
  BY <1>3, AfterCheckIn
<1>5. q.kind \in {"track", "send", "access"} /\ q.fits \in BOOLEAN BY <1>1, RequestFields
<1>6. pc \in TrackPCs BY <1>4, <1>5 DEF TrackPCs
<1> DEFINE next == [q EXCEPT !.pc = pc]
<1>7. req' = [req EXCEPT ![r] = next] BY <1>3 DEF TrackTypes
<1>8. /\ next \in TrackRequest /\ next.pc = pc
      /\ next.kind = q.kind /\ next.value = q.value /\ next.reserved = q.reserved
      /\ next.addonPaid = q.addonPaid /\ next.used = q.used /\ next.fits = q.fits
      /\ next.metered = q.metered /\ next.hydrated = q.hydrated /\ next.answer = q.answer
  BY <1>1, <1>6, Onward
<1>9. /\ q.reserved = IF q.kind = "track" THEN PrepaidCost(q.value) ELSE 0
      /\ q.answer # "allowed" /\ q.metered = 0 /\ q.addonPaid = 0 /\ Taken(q) = 0
      /\ (q.kind = "track" => ~q.hydrated) /\ q.kind # "access"
  BY <1>1 DEF Orderly, HoldsReserved, OnItsWay, HasTaken, Reserves, Taken
<1> HIDE DEF next, q
<1>10. Orderly(next)
  <2>1. HoldsReserved(next) BY <1>4, <1>5, <1>8, <1>9 DEF HoldsReserved, Reserves
  <2>2. OnItsWay(next) BY <1>4, <1>5, <1>8, <1>9 DEF OnItsWay
  <2>3. HasTaken(next) BY <1>4, <1>5, <1>8, <1>9 DEF HasTaken
  <2> QED BY <1>8, <2>1, <2>2, <2>3 DEF Orderly
<1>11. Taken(next) = 0 BY <1>8, <1>9 DEF Taken
<1>12. next.pc \notin {"hydrate", "configure"} BY <1>4, <1>5, <1>8
<1>13. req[r] = q BY DEF q
<1> QED BY <1>2, <1>7, <1>8, <1>9, <1>10, <1>11, <1>12, <1>13, StepsOn

(* What the calls find: a feature that is not known, one that allows the   *)
(* amount, or one with less than that left.                                *)
LEMMA ReadyFinds ==
  ASSUME TrackTypes, NEW m, Ready(m), NEW v \in Nat
  PROVE  /\ ~Known(m, Feature) <=> Now(Meter) = NoState
         /\ Known(m, Feature) /\ ~CanTrack(m, Feature, v) => Left(Now(m)) \in Nat
         /\ CanTrack(m, Feature, v) => Known(m, Feature)
<1>1. m.usage = usage /\ plan.config # NoConfig /\ Unlimited \notin Nat
  BY TrackConstants, MeterAssumption DEF Ready, TrackTypes
<1>2. Now(m) = usage[Feature] /\ Now(Meter) = usage[Feature] BY <1>1 DEF Now, Meter
<1>3. ~Known(m, Feature) <=> Now(Meter) = NoState BY <1>1, <1>2 DEF Known, Ready
<1>4. ASSUME Known(m, Feature), ~CanTrack(m, Feature, v) PROVE Left(Now(m)) \in Nat
  <2>1. Plain(Now(m)) BY <1>2, <1>3, <1>4 DEF TrackTypes, Metering
  <2>2. Now(m).limit # Unlimited BY <1>1, <1>2, <1>4 DEF CanTrack, Allows
  <2>3. Now(m).balance \in Nat /\ Now(m).rollover = 0 BY <2>1, <2>2 DEF Plain
  <2> HIDE DEF Now
  <2> QED BY <1>1, <2>3 DEF Left, Plus
<1> QED BY <1>3, <1>4 DEF CanTrack

LEMMA LooksOn ==
  ASSUME TrackTypes, NEW r \in Requests, NEW next, Looks, next.metered = req[r].metered,
         next.hydrated = req[r].hydrated, next.used = req[r].used,
         next.pc \in {"hydrate", "configure"} => Now(Meter) = NoState
  PROVE  MovesMeter(r, next)
BY DEF MovesMeter

LEMMA AnsweredGoes ==
  ASSUME TrackTypes, NEW r \in Requests, NEW q, q = req[r], q.pc \in {"meter", "again"},
         NEW m, Ready(m), MeterBecomes(Tracked(m, Feature, q.value)), MoneySame,
         Reply(r, Answered(r, m, q.value))
  PROVE  Goes(r)
<1> DEFINE v == q.value  next == Answered(r, m, v)
<1>1. q \in TrackRequest /\ Orderly(q) /\ UNCHANGED plan
  BY RequestOrderly DEF Reply, Calm
<1>2. /\ v \in Nat /\ q.addonSeen \in Nat /\ q.bonusSeen \in Nat /\ q.reserved \in Nat
      /\ q.kind \in {"track", "send", "access"} /\ credits \in Nat /\ addon \in Nat
  BY <1>1, RequestFields DEF TrackTypes
<1>3. /\ q.kind = "track" /\ q.reserved = PrepaidCost(q.value) /\ q.answer # "allowed"
      /\ q.metered = 0 /\ q.addonPaid = 0 /\ Taken(q) = 0
      /\ q.hydrated => Now(Meter) # NoState
      /\ q.pc = "again" => q.hydrated
  BY <1>1, <1>2 DEF Orderly, HoldsReserved, OnItsWay, HasTaken, Reserves, Taken, TrackTypes
<1>4. credits' = credits /\ addon' = addon BY DEF MoneySame
<1>5. ASSUME Orderly(next), next.reserved = q.reserved, Taken(next) = 0, MovesMeter(r, next)
      PROVE  Goes(r)
  <2>1. credits' + next.reserved = credits + req[r].reserved /\ credits' \in Nat
        /\ addon' + Taken(next) = addon + Taken(req[r]) /\ addon' \in Nat
    BY <1>2, <1>3, <1>4, <1>5
  <2> HIDE DEF next
  <2> QED BY <1>5, <2>1, ReplyGoes DEF next
<1>6. CASE ~Known(m, Feature)
  <2>1. next = [q EXCEPT !.pc = "hydrate"] BY <1>6 DEF Answered
  <2>2. Looks BY <1>1, <1>2, <1>6, MeterTakes, ReadyFinds
  <2>3. Now(Meter) = NoState BY <1>2, <1>6, ReadyFinds
  <2> HIDE DEF next
  <2>4. /\ next \in TrackRequest /\ next.pc = "hydrate"
        /\ next.kind = q.kind /\ next.value = q.value /\ next.reserved = q.reserved
        /\ next.addonPaid = q.addonPaid /\ next.used = q.used /\ next.fits = q.fits
        /\ next.metered = q.metered /\ next.hydrated = q.hydrated /\ next.answer = q.answer
    BY <1>1, <2>1, Onward DEF TrackPCs
  <2>5. Orderly(next)
    BY <1>3, <2>3, <2>4 DEF Orderly, HoldsReserved, OnItsWay, HasTaken, Reserves
  <2>6. MovesMeter(r, next) BY <2>2, <2>3, <2>4, LooksOn
  <2>7. Taken(next) = 0 BY <1>3, <2>4 DEF Taken
  <2> QED BY <1>5, <2>4, <2>5, <2>6, <2>7
<1>7. CASE CanTrack(m, Feature, v)
  <2> DEFINE n == Cost(m.config[Feature], v)  parts == [NoParts EXCEPT !.plan = v]
  <2>1. next = [q EXCEPT !.pc = "allow", !.metered = n, !.parts = parts]
    BY <1>2, <1>7, ReadyFinds DEF Answered
  <2>2. Takes(n) BY <1>1, <1>2, <1>7, MeterTakes
  <2>3. n \in Nat BY <2>2 DEF Takes
  <2>4. parts \in Coverage BY <1>2 DEF NoParts, Coverage
  <2> HIDE DEF next, n, parts
  <2>5. next \in TrackRequest BY <1>1, <2>1, <2>3, <2>4 DEF TrackRequest, TrackPCs
  <2>6. /\ next.pc = "allow" /\ next.kind = q.kind /\ next.value = q.value
        /\ next.reserved = q.reserved /\ next.addonPaid = q.addonPaid /\ next.used = q.used
        /\ next.metered = n /\ next.hydrated = q.hydrated /\ next.answer = q.answer
    BY <1>1, <2>1 DEF TrackRequest
  <2>7. Orderly(next)
    BY <1>3, <2>5, <2>6 DEF Orderly, HoldsReserved, OnItsWay, HasTaken, Reserves
  <2>8. MovesMeter(r, next) BY <1>3, <2>2, <2>6 DEF MovesMeter
  <2>9. Taken(next) = 0 BY <1>3, <2>6 DEF Taken
  <2> QED BY <1>5, <2>6, <2>7, <2>8, <2>9
<1>8. CASE Known(m, Feature) /\ ~CanTrack(m, Feature, v)
  <2> DEFINE parts == Split(v, Left(Now(m)), q.bonusSeen, q.addonSeen)
             pc == IF parts.plan > 0 THEN "plan" ELSE AfterPlan(parts)
  <2>1. next = [q EXCEPT !.parts = parts, !.pc = pc] BY <1>8 DEF Answered
  <2>2. Looks BY <1>1, <1>2, <1>8, MeterTakes
  <2>3. parts \in Coverage BY <1>2, <1>8, ReadyFinds, SplitTyped
  <2>4. pc \in {"plan", "addon", "allow", "overage", "release"} BY AfterPlanIn
  <2> HIDE DEF next, pc, parts
  <2>5. next \in TrackRequest BY <1>1, <2>1, <2>3, <2>4 DEF TrackRequest, TrackPCs
  <2>6. /\ next.pc = pc /\ next.kind = q.kind /\ next.value = q.value
        /\ next.reserved = q.reserved /\ next.addonPaid = q.addonPaid /\ next.used = q.used
        /\ next.metered = q.metered /\ next.hydrated = q.hydrated /\ next.answer = q.answer
    BY <1>1, <2>1 DEF TrackRequest
  <2>7. Orderly(next)
    BY <1>3, <2>4, <2>5, <2>6 DEF Orderly, HoldsReserved, OnItsWay, HasTaken, Reserves
  <2>8. MovesMeter(r, next) BY <2>2, <2>4, <2>6, LooksOn
  <2>9. Taken(next) = 0 BY <1>3, <2>6 DEF Taken
  <2> QED BY <1>5, <2>6, <2>7, <2>8, <2>9
<1> QED BY <1>6, <1>7, <1>8

LEMMA TrackMeterGoes ==
  ASSUME TrackTypes, NEW r \in Requests, TrackMeter(r) \/ TrackAgain(r) PROVE Goes(r)
<1>1. CASE TrackMeter(r)
  <2>1. PICK m \in {Prepared(Meter, Feature, plan.config)} :
          MeterBecomes(Tracked(m, Feature, req[r].value)) /\ Reply(r, Answered(r, m, req[r].value))
    BY <1>1 DEF TrackMeter
  <2> QED BY <1>1, <2>1, PreparedReady, AnsweredGoes DEF TrackMeter, At
<1>2. CASE TrackAgain(r)
  <2>1. PICK m \in {MaybeReset(Meter, Feature)} :
          MeterBecomes(Tracked(m, Feature, req[r].value)) /\ Reply(r, Answered(r, m, req[r].value))
    BY <1>2 DEF TrackAgain
  <2> QED BY <1>2, <2>1, MeterReady, AnsweredGoes DEF TrackAgain, At
<1> QED BY <1>1, <1>2

LEMMA LookedGoes ==
  ASSUME TrackTypes, NEW r \in Requests, NEW q, q = req[r], q.pc \in {"check", "recheck"},
         NEW m, Ready(m), MeterBecomes(m), MoneySame, Reply(r, Looked(r, m))
  PROVE  Goes(r)
<1> DEFINE v == q.value  next == Looked(r, m)
<1>1. q \in TrackRequest /\ Orderly(q) /\ UNCHANGED plan
  BY RequestOrderly DEF Reply, Calm
<1>2. /\ v \in Nat /\ q.addonSeen \in Nat /\ q.bonusSeen \in Nat /\ q.reserved \in Nat
      /\ q.kind \in {"track", "send", "access"} /\ credits \in Nat /\ addon \in Nat
  BY <1>1, RequestFields DEF TrackTypes
<1>3. /\ q.kind # "track" /\ q.reserved = 0 /\ q.answer # "allowed"
      /\ q.metered = 0 /\ q.addonPaid = 0 /\ Taken(q) = 0
      /\ q.hydrated => Now(Meter) # NoState
      /\ q.pc = "recheck" => q.hydrated /\ q.kind = "send"
      /\ q.pc = "check" => ~q.hydrated
  BY <1>1, <1>2 DEF Orderly, HoldsReserved, OnItsWay, HasTaken, Reserves, Taken, TrackTypes
<1>4. credits' = credits /\ addon' = addon /\ Looks BY <1>1, ReadyLooks DEF MoneySame
<1>5. ASSUME Orderly(next), next.reserved = q.reserved, Taken(next) = 0, MovesMeter(r, next)
      PROVE  Goes(r)
  <2>1. credits' + next.reserved = credits + req[r].reserved /\ credits' \in Nat
        /\ addon' + Taken(next) = addon + Taken(req[r]) /\ addon' \in Nat
    BY <1>2, <1>3, <1>4, <1>5
  <2> HIDE DEF next
  <2> QED BY <1>5, <2>1, ReplyGoes DEF next
<1>6. ASSUME ~Known(m, Feature) \/ q.kind = "access"
      PROVE  Goes(r)
  <2> DEFINE pc == IF ~Known(m, Feature) THEN "hydrate" ELSE "done"
  <2>1. next = [q EXCEPT !.pc = pc] BY <1>6 DEF Looked
  <2>2. pc = "hydrate" => Now(Meter) = NoState BY <1>2, ReadyFinds
  <2>3. pc \in {"hydrate", "done"} /\ (pc = "done" => q.kind = "access") BY <1>6
  <2> HIDE DEF next, pc
  <2>4. /\ next \in TrackRequest /\ next.pc = pc
        /\ next.kind = q.kind /\ next.value = q.value /\ next.reserved = q.reserved
        /\ next.addonPaid = q.addonPaid /\ next.used = q.used /\ next.fits = q.fits
        /\ next.metered = q.metered /\ next.hydrated = q.hydrated /\ next.answer = q.answer
    BY <1>1, <2>1, <2>3, Onward DEF TrackPCs
  <2>5. Orderly(next)
    BY <1>2, <1>3, <2>2, <2>3, <2>4 DEF Orderly, HoldsReserved, OnItsWay, HasTaken, Reserves
  <2>6. MovesMeter(r, next) BY <1>4, <2>2, <2>3, <2>4, LooksOn
  <2>7. Taken(next) = 0 BY <1>3, <2>3, <2>4 DEF Taken
  <2> QED BY <1>5, <2>4, <2>5, <2>6, <2>7
<1>7. CASE Known(m, Feature) /\ q.kind # "access"
  <2> DEFINE fits == CanTrack(m, Feature, v)
             parts == IF fits THEN [NoParts EXCEPT !.plan = v]
                      ELSE Split(v, Left(Now(m)), q.bonusSeen, q.addonSeen)
             seen == [q EXCEPT !.fits = fits, !.parts = parts]
             pc == IF plan.usageBased THEN "guard" ELSE AfterCheck(seen)
  <2>1. next = [seen EXCEPT !.pc = pc] BY <1>7 DEF Looked
  <2>2. fits \in BOOLEAN BY DEF CanTrack, Allows, AtLeast
  <2>3. parts \in Coverage
    <3>1. [NoParts EXCEPT !.plan = v] \in Coverage BY <1>2 DEF NoParts, Coverage
    <3> QED BY <1>2, <1>7, <3>1, ReadyFinds, SplitTyped
  <2> HIDE DEF fits, parts
  <2>4. seen \in TrackRequest /\ seen.fits = fits BY <1>1, <2>2, <2>3 DEF TrackRequest
  <2>5. /\ fits => pc \in {"guard", "reserve"}
        /\ ~fits => pc \in {"guard", "plan", "addon", "allow", "overage", "release"}
    <3> HIDE DEF seen
    <3> QED BY <2>4, AfterCheckIn
  <2>6. next = [q EXCEPT !.fits = fits, !.parts = parts, !.pc = pc] BY <1>1, <2>1 DEF TrackRequest
  <2> HIDE DEF next, pc, seen
  <2>7. next \in TrackRequest BY <1>1, <2>2, <2>3, <2>5, <2>6 DEF TrackRequest, TrackPCs
  <2>8. /\ next.pc = pc /\ next.kind = q.kind /\ next.value = q.value /\ next.fits = fits
        /\ next.reserved = q.reserved /\ next.addonPaid = q.addonPaid /\ next.used = q.used
        /\ next.metered = q.metered /\ next.hydrated = q.hydrated /\ next.answer = q.answer
    BY <1>1, <2>6 DEF TrackRequest
  <2>9. Orderly(next)
    BY <1>2, <1>3, <1>7, <2>2, <2>5, <2>7, <2>8
       DEF Orderly, HoldsReserved, OnItsWay, HasTaken, Reserves
  <2>10. MovesMeter(r, next) BY <1>4, <2>2, <2>5, <2>8, LooksOn
  <2>11. Taken(next) = 0 BY <1>3, <2>8 DEF Taken
  <2> QED BY <1>5, <2>8, <2>9, <2>10, <2>11
<1> QED BY <1>6, <1>7

LEMMA CheckMeterGoes ==
  ASSUME TrackTypes, NEW r \in Requests, CheckMeter(r) \/ CheckAgain(r) PROVE Goes(r)
<1>1. CASE CheckMeter(r)
  <2>1. PICK m \in {Prepared(Meter, Feature, plan.config)} :
          MeterBecomes(m) /\ Reply(r, Looked(r, m))
    BY <1>1 DEF CheckMeter
  <2> QED BY <1>1, <2>1, PreparedReady, LookedGoes DEF CheckMeter, At
<1>2. CASE CheckAgain(r)
  <2>1. PICK m \in {MaybeReset(Meter, Feature)} : MeterBecomes(m) /\ Reply(r, Looked(r, m))
    BY <1>2 DEF CheckAgain
  <2> QED BY <1>2, <2>1, MeterReady, LookedGoes DEF CheckAgain, At
<1> QED BY <1>1, <1>2

LEMMA CommitGoes == ASSUME TrackTypes, NEW r \in Requests, Commit(r) PROVE Goes(r)
<1> DEFINE q == req[r]  v == q.value
<1>1. q \in TrackRequest /\ Orderly(q) /\ q.pc = "commit" BY RequestOrderly DEF Commit, At
<1>2. PICK m \in {Prepared(Meter, Feature, plan.config)} :
        /\ MeterBecomes(Tracked(m, Feature, v))
        /\ Reply(r, IF CanTrack(m, Feature, v)
                    THEN [q EXCEPT !.pc = "allow", !.metered = Cost(m.config[Feature], v)]
                    ELSE [q EXCEPT !.pc = IF plan.creditSystem THEN "fallback" ELSE "release"])
  BY DEF Commit
<1>3. UNCHANGED plan /\ credits' = credits /\ addon' = addon BY <1>2 DEF Commit, Reply, Calm, MoneySame
<1>4. /\ v \in Nat /\ q.reserved \in Nat /\ q.kind \in {"track", "send", "access"}
      /\ credits \in Nat /\ addon \in Nat
  BY <1>1, RequestFields DEF TrackTypes
<1>5. /\ q.kind = "send" /\ q.fits /\ q.reserved = PrepaidCost(q.value) /\ q.answer # "allowed"
      /\ q.metered = 0 /\ q.addonPaid = 0 /\ Taken(q) = 0
  BY <1>1, <1>4 DEF Orderly, HoldsReserved, OnItsWay, HasTaken, Reserves, Taken
<1>6. ASSUME NEW next, Orderly(next), next.reserved = q.reserved, Taken(next) = 0,
             MovesMeter(r, next), Reply(r, next)
      PROVE  Goes(r)
  <2>1. credits' + next.reserved = credits + req[r].reserved /\ credits' \in Nat
        /\ addon' + Taken(next) = addon + Taken(req[r]) /\ addon' \in Nat
    BY <1>3, <1>4, <1>5, <1>6
  <2> QED BY <1>6, <2>1, ReplyGoes
<1>7. Ready(m) BY <1>2, PreparedReady
<1>8. CASE CanTrack(m, Feature, v)
  <2> DEFINE n == Cost(m.config[Feature], v)  next == [q EXCEPT !.pc = "allow", !.metered = n]
  <2>1. Reply(r, next) BY <1>2, <1>8
  <2>2. Takes(n) BY <1>2, <1>3, <1>4, <1>7, <1>8, MeterTakes
  <2>3. n \in Nat BY <2>2 DEF Takes
  <2> HIDE DEF n
  <2>4. next \in TrackRequest BY <1>1, <2>3 DEF TrackRequest, TrackPCs
  <2>5. /\ next.pc = "allow" /\ next.kind = q.kind /\ next.value = q.value /\ next.fits = q.fits
        /\ next.reserved = q.reserved /\ next.addonPaid = q.addonPaid /\ next.used = q.used
        /\ next.metered = n /\ next.hydrated = q.hydrated /\ next.answer = q.answer
    BY <1>1 DEF TrackRequest
  <2>6. req[r] = q OBVIOUS
  <2> HIDE DEF next, q
  <2>7. Orderly(next)
    BY <1>5, <2>4, <2>5 DEF Orderly, HoldsReserved, OnItsWay, HasTaken, Reserves
  <2>8. MovesMeter(r, next) BY <1>5, <2>2, <2>5, <2>6 DEF MovesMeter
  <2>9. Taken(next) = 0 BY <1>5, <2>5 DEF Taken
  <2> QED BY <1>6, <2>1, <2>5, <2>7, <2>8, <2>9
<1>9. CASE ~CanTrack(m, Feature, v)
  <2> DEFINE pc == IF plan.creditSystem THEN "fallback" ELSE "release"
             next == [q EXCEPT !.pc = pc]
  <2>1. Reply(r, next) BY <1>2, <1>9
  <2>2. Looks BY <1>2, <1>3, <1>4, <1>7, <1>9, MeterTakes
  <2>3. pc \in {"fallback", "release"} OBVIOUS
  <2> HIDE DEF pc
  <2>4. /\ next \in TrackRequest /\ next.pc = pc
        /\ next.kind = q.kind /\ next.value = q.value /\ next.reserved = q.reserved
        /\ next.addonPaid = q.addonPaid /\ next.used = q.used /\ next.fits = q.fits
        /\ next.metered = q.metered /\ next.hydrated = q.hydrated /\ next.answer = q.answer
    BY <1>1, <2>3, Onward DEF TrackPCs
  <2> HIDE DEF next
  <2>6. MovesMeter(r, next) BY <2>2, <2>3, <2>4, LooksOn
  <2> HIDE DEF q
  <2>7. Orderly(next)
    BY <1>5, <2>3, <2>4 DEF Orderly, HoldsReserved, OnItsWay, HasTaken, Reserves
  <2>9. Taken(next) = 0 BY <1>5, <2>3, <2>4 DEF Taken
  <2> QED BY <1>6, <2>1, <2>4, <2>6, <2>7, <2>9
<1> QED BY <1>8, <1>9

(* Add-on credits pay, or there are not enough of them.                    *)
LEMMA PaysGoes ==
  ASSUME TrackTypes, NEW r \in Requests, NEW q, q = req[r], q.pc \in {"fallback", "addon"},
         NEW n \in Nat, MeterSame, UNCHANGED credits,
         \/ /\ addon >= n /\ addon' = addon - n
            /\ Reply(r, [q EXCEPT !.pc = "allow", !.addonPaid = n])
         \/ /\ Reply(r, [q EXCEPT !.pc = "release"]) /\ UNCHANGED addon
  PROVE  Goes(r)
<1>1. q \in TrackRequest /\ Orderly(q) /\ UNCHANGED plan
  BY RequestOrderly DEF Reply, Calm
<1>2. /\ q.reserved \in Nat /\ q.kind \in {"track", "send", "access"} /\ q.fits \in BOOLEAN
      /\ credits \in Nat /\ addon \in Nat
  BY <1>1, RequestFields DEF TrackTypes
<1>3. /\ q.kind # "access" /\ q.answer # "allowed" /\ q.addonPaid = 0 /\ Taken(q) = 0
      /\ (q.pc = "fallback" => q.kind = "send" /\ q.fits /\ q.metered = 0)
      /\ (q.kind = "send" /\ q.pc = "addon" => ~q.fits)
      /\ q.reserved = IF q.kind = "track" \/ q.fits THEN PrepaidCost(q.value) ELSE 0
  BY <1>1, <1>2 DEF Orderly, HoldsReserved, OnItsWay, HasTaken, Reserves, Taken
<1>4. Looks BY <1>1, MeterSameLooks
<1>5. ASSUME NEW next, Orderly(next), next.reserved = q.reserved, next.metered = q.metered,
             next.hydrated = q.hydrated, next.used = q.used, next.pc \in {"allow", "release"},
             addon' + Taken(next) = addon, addon' \in Nat, Reply(r, next)
      PROVE  Goes(r)
  <2>1. MovesMeter(r, next) BY <1>4, <1>5, LooksOn
  <2>2. /\ credits' + next.reserved = credits + req[r].reserved /\ credits' \in Nat
        /\ addon' + Taken(next) = addon + Taken(req[r])
    BY <1>2, <1>3, <1>5
  <2> QED BY <1>5, <2>1, <2>2, ReplyGoes
<1>6. CASE addon >= n /\ addon' = addon - n /\ Reply(r, [q EXCEPT !.pc = "allow", !.addonPaid = n])
  <2> DEFINE next == [q EXCEPT !.pc = "allow", !.addonPaid = n]
  <2>1. next \in TrackRequest BY <1>1 DEF TrackRequest, TrackPCs
  <2>2. /\ next.pc = "allow" /\ next.kind = q.kind /\ next.value = q.value /\ next.fits = q.fits
        /\ next.reserved = q.reserved /\ next.addonPaid = n /\ next.used = q.used
        /\ next.metered = q.metered /\ next.hydrated = q.hydrated /\ next.answer = q.answer
    BY <1>1 DEF TrackRequest
  <2>3. Reply(r, next) BY <1>6
  <2> HIDE DEF next
  <2>4. Orderly(next)
    BY <1>3, <2>1, <2>2 DEF Orderly, HoldsReserved, OnItsWay, HasTaken, Reserves
  <2>5. Taken(next) = n BY <2>2 DEF Taken
  <2>6. addon' + Taken(next) = addon /\ addon' \in Nat BY <1>2, <1>6, <2>5
  <2> QED BY <1>5, <2>2, <2>3, <2>4, <2>6
<1>7. CASE Reply(r, [q EXCEPT !.pc = "release"]) /\ UNCHANGED addon
  <2> DEFINE next == [q EXCEPT !.pc = "release"]
  <2>1. /\ next \in TrackRequest /\ next.pc = "release"
        /\ next.kind = q.kind /\ next.value = q.value /\ next.reserved = q.reserved
        /\ next.addonPaid = q.addonPaid /\ next.used = q.used /\ next.fits = q.fits
        /\ next.metered = q.metered /\ next.hydrated = q.hydrated /\ next.answer = q.answer
    BY <1>1, Onward DEF TrackPCs
  <2>2. Reply(r, next) BY <1>7
  <2> HIDE DEF next
  <2>3. Orderly(next)
    BY <1>3, <2>1 DEF Orderly, HoldsReserved, OnItsWay, HasTaken, Reserves
  <2>4. Taken(next) = 0 BY <1>3, <2>1 DEF Taken
  <2>5. addon' + Taken(next) = addon /\ addon' \in Nat BY <1>2, <1>7, <2>4
  <2> QED BY <1>5, <2>1, <2>2, <2>3, <2>5
<1> QED BY <1>6, <1>7

LEMMA DeductGoes ==
  ASSUME TrackTypes, NEW r \in Requests, Fallback(r) \/ DeductAddon(r) PROVE Goes(r)
<1>1. req[r].value \in Nat /\ req[r].parts.addon \in Nat BY RequestOrderly, RequestFields
<1>2. CASE Fallback(r) BY <1>1, <1>2, PaysGoes DEF Fallback, At
<1>3. CASE DeductAddon(r) BY <1>1, <1>3, PaysGoes DEF DeductAddon, At
<1> QED BY <1>2, <1>3

(* What a request gets from the ledger before it configures the meter.     *)
LEMMA SumLedgerGoes ==
  ASSUME TrackTypes, NEW r \in Requests, SumLedger(r) \/ LedgerUnavailable(r) PROVE Goes(r)
<1> DEFINE q == req[r]
<1>1. /\ q \in TrackRequest /\ Orderly(q) /\ q.pc = "hydrate" /\ req[r] = q
      /\ q.kind \in {"track", "send", "access"} /\ q.used \in Nat
  BY RequestOrderly, RequestFields DEF SumLedger, LedgerUnavailable, At
<1>2. MeterSame /\ MoneySame /\ UNCHANGED plan /\ faults' \in {faults, faults + 1}
  BY DEF SumLedger, LedgerUnavailable, Quiet, Calm
<1>3. Prior + Recorded("plan") \in Nat
  <2>1. Recorded("plan") \in Nat BY RecordedTyped DEF TrackTypes, Sources
  <2> QED BY <2>1, TrackConstants
<1>4. PICK used \in Nat, pc \in {"configure", "release"} :
        /\ req' = [req EXCEPT ![r] = [q EXCEPT !.used = used, !.pc = pc]]
        /\ pc = "release" => q.kind # "access"
  <2>1. CASE SumLedger(r) BY <1>1, <1>3, <2>1 DEF SumLedger, TrackTypes
  <2>2. CASE LedgerUnavailable(r)
    <3> DEFINE pc == IF q.kind = "access" THEN "configure" ELSE "release"
    <3>1. req' = [req EXCEPT ![r] = [q EXCEPT !.pc = pc]]
      BY <2>2 DEF LedgerUnavailable, Goto, TrackTypes
    <3>2. [q EXCEPT !.used = q.used, !.pc = pc] = [q EXCEPT !.pc = pc]
      BY <1>1 DEF TrackRequest
    <3> QED BY <1>1, <3>1, <3>2
  <2> QED BY <2>1, <2>2
<1> DEFINE next == [q EXCEPT !.used = used, !.pc = pc]
<1>5. next \in TrackRequest BY <1>1, <1>4 DEF TrackRequest, TrackPCs
<1>6. /\ next.pc = pc /\ next.kind = q.kind /\ next.value = q.value /\ next.fits = q.fits
      /\ next.reserved = q.reserved /\ next.addonPaid = q.addonPaid
      /\ next.metered = q.metered /\ next.hydrated = q.hydrated /\ next.answer = q.answer
  BY <1>1 DEF TrackRequest
<1>7. /\ q.answer # "allowed" /\ q.metered = 0 /\ q.addonPaid = 0 /\ ~q.hydrated /\ Taken(q) = 0
      /\ q.reserved = IF q.kind = "track" THEN PrepaidCost(q.value) ELSE 0
  BY <1>1 DEF Orderly, HoldsReserved, OnItsWay, HasTaken, Reserves, Taken
<1>8. req' = [req EXCEPT ![r] = next] BY <1>4
<1> HIDE DEF next, q
<1>9. Orderly(next)
  BY <1>4, <1>5, <1>6, <1>7 DEF Orderly, HoldsReserved, OnItsWay, HasTaken, Reserves
<1>10. Taken(next) = 0 BY <1>4, <1>6, <1>7 DEF Taken
<1> QED BY <1>1, <1>2, <1>6, <1>7, <1>8, <1>9, <1>10, StepsOn

LEMMA HydrateGoes == ASSUME TrackTypes, NEW r \in Requests, Hydrate(r) PROVE Goes(r)
<1> DEFINE q == req[r]
           pc == CASE q.kind = "track" -> "again" [] q.kind = "send" -> "recheck" [] OTHER -> "done"
           next == [q EXCEPT !.hydrated = TRUE, !.pc = pc]
<1>1. q \in TrackRequest /\ Orderly(q) /\ q.pc = "configure" BY RequestOrderly DEF Hydrate, At
<1>2. /\ MeterBecomes(ConfigureFeature(Meter, Feature, plan.config, q.used))
      /\ Reply(r, next) /\ UNCHANGED plan /\ credits' = credits /\ addon' = addon
  BY DEF Hydrate, Reply, Calm, MoneySame
<1>3. /\ q.used \in Nat /\ q.kind \in {"track", "send", "access"} /\ q.reserved \in Nat
      /\ credits \in Nat /\ addon \in Nat
  BY <1>1, RequestFields DEF TrackTypes
<1>4. Grants(q.used) BY <1>2, <1>3, MeterGrants
<1>5. /\ pc \in {"again", "recheck", "done"} /\ (pc = "again" <=> q.kind = "track")
      /\ (pc = "recheck" <=> q.kind = "send")
  BY <1>3
<1> HIDE DEF pc
<1>6. next \in TrackRequest BY <1>1, <1>5 DEF TrackRequest, TrackPCs
<1>7. /\ next.pc = pc /\ next.kind = q.kind /\ next.value = q.value /\ next.fits = q.fits
      /\ next.reserved = q.reserved /\ next.addonPaid = q.addonPaid /\ next.used = q.used
      /\ next.metered = q.metered /\ next.hydrated /\ next.answer = q.answer
  BY <1>1 DEF TrackRequest
<1>8. /\ q.answer # "allowed" /\ q.metered = 0 /\ q.addonPaid = 0 /\ ~q.hydrated /\ Taken(q) = 0
      /\ q.reserved = IF q.kind = "track" THEN PrepaidCost(q.value) ELSE 0
  BY <1>1 DEF Orderly, HoldsReserved, OnItsWay, HasTaken, Reserves, Taken
<1>9. req[r] = q OBVIOUS
<1> HIDE DEF next, q
<1>10. Orderly(next)
  BY <1>3, <1>5, <1>6, <1>7, <1>8 DEF Orderly, HoldsReserved, OnItsWay, HasTaken, Reserves
<1>11. Taken(next) = 0 BY <1>5, <1>7, <1>8 DEF Taken
<1>12. MovesMeter(r, next)
  BY <1>1, <1>4, <1>5, <1>7, <1>9 DEF MovesMeter, Grants
<1>13. credits' + next.reserved = credits + req[r].reserved /\ credits' \in Nat
       /\ addon' + Taken(next) = addon + Taken(req[r]) /\ addon' \in Nat
  BY <1>2, <1>3, <1>7, <1>8, <1>9, <1>11
<1> QED BY <1>2, <1>10, <1>12, <1>13, ReplyGoes

LEMMA TrackPlanGoes == ASSUME TrackTypes, NEW r \in Requests, TrackPlan(r) PROVE Goes(r)
<1> DEFINE q == req[r]  v == q.parts.plan
<1>1. q \in TrackRequest /\ Orderly(q) /\ q.pc = "plan" BY RequestOrderly DEF TrackPlan, At
<1>2. PICK m \in {Prepared(Meter, Feature, plan.config)} :
        /\ MeterBecomes(Tracked(m, Feature, v))
        /\ Reply(r, IF CanTrack(m, Feature, v)
                    THEN [q EXCEPT !.pc = AfterPlan(q.parts), !.metered = Cost(m.config[Feature], v)]
                    ELSE [q EXCEPT !.pc = "release"])
  BY DEF TrackPlan
<1>3. UNCHANGED plan /\ credits' = credits /\ addon' = addon
  BY <1>2 DEF TrackPlan, Reply, Calm, MoneySame
<1>4. /\ v \in Nat /\ q.reserved \in Nat /\ q.kind \in {"track", "send", "access"}
      /\ credits \in Nat /\ addon \in Nat /\ q.fits \in BOOLEAN
  BY <1>1, RequestFields DEF TrackTypes
<1>5. /\ q.kind # "access" /\ (q.kind = "send" => ~q.fits) /\ q.answer # "allowed"
      /\ q.reserved = IF q.kind = "track" THEN PrepaidCost(q.value) ELSE 0
      /\ q.metered = 0 /\ q.addonPaid = 0 /\ Taken(q) = 0
  BY <1>1, <1>4 DEF Orderly, HoldsReserved, OnItsWay, HasTaken, Reserves, Taken
<1>6. Ready(m) BY <1>2, PreparedReady
<1>7. PICK pc \in {"addon", "allow", "overage", "release"}, n \in Nat :
        /\ Reply(r, [q EXCEPT !.pc = pc, !.metered = n])
        /\ Takes(n) \/ (Looks /\ n = 0)
  <2>1. CASE CanTrack(m, Feature, v)
    <3>1. Takes(Cost(m.config[Feature], v)) BY <1>2, <1>3, <1>4, <1>6, <2>1, MeterTakes
    <3>2. Cost(m.config[Feature], v) \in Nat BY <3>1 DEF Takes
    <3> QED BY <1>2, <2>1, <3>1, <3>2, AfterPlanIn
  <2>2. CASE ~CanTrack(m, Feature, v)
    <3>1. Looks BY <1>2, <1>3, <1>4, <1>6, <2>2, MeterTakes
    <3>2. [q EXCEPT !.pc = "release", !.metered = 0] = [q EXCEPT !.pc = "release"]
      BY <1>1, <1>5 DEF TrackRequest
    <3> QED BY <1>2, <2>2, <3>1, <3>2
  <2> QED BY <2>1, <2>2
<1> DEFINE next == [q EXCEPT !.pc = pc, !.metered = n]
<1>8. next \in TrackRequest BY <1>1, <1>7 DEF TrackRequest, TrackPCs
<1>9. /\ next.pc = pc /\ next.kind = q.kind /\ next.value = q.value /\ next.fits = q.fits
      /\ next.reserved = q.reserved /\ next.addonPaid = q.addonPaid /\ next.used = q.used
      /\ next.metered = n /\ next.hydrated = q.hydrated /\ next.answer = q.answer
  BY <1>1 DEF TrackRequest
<1>10. req[r] = q /\ Reply(r, next) BY <1>7
<1> HIDE DEF next, q
<1>11. Orderly(next)
  BY <1>4, <1>5, <1>7, <1>8, <1>9 DEF Orderly, HoldsReserved, OnItsWay, HasTaken, Reserves
<1>12. Taken(next) = 0 BY <1>5, <1>9 DEF Taken
<1>13. MovesMeter(r, next) BY <1>5, <1>7, <1>9, <1>10 DEF MovesMeter
<1>14. credits' + next.reserved = credits + req[r].reserved /\ credits' \in Nat
       /\ addon' + Taken(next) = addon + Taken(req[r]) /\ addon' \in Nat
  BY <1>3, <1>4, <1>5, <1>9, <1>10, <1>12
<1> QED BY <1>10, <1>11, <1>13, <1>14, ReplyGoes

LEMMA GuardOverageGoes == ASSUME TrackTypes, NEW r \in Requests, GuardOverage(r) PROVE Goes(r)
<1> DEFINE q == req[r]
<1>1. q \in TrackRequest /\ Orderly(q) /\ q.pc = "overage" BY RequestOrderly DEF GuardOverage, At
<1>2. MeterSame /\ MoneySame /\ UNCHANGED <<plan, faults>> BY DEF GuardOverage, Quiet, Calm
<1>3. PICK pc \in {"addon", "allow", "release", "done"}, answer \in TrackAnswers :
        /\ req' = [req EXCEPT ![r] = [q EXCEPT !.pc = pc, !.answer = answer]]
        /\ answer = IF pc = "done" THEN "overage_allowed" ELSE q.answer
        /\ pc = "done" => q.kind = "send"
  <2>1. \A to : [req EXCEPT ![r].pc = to] = [req EXCEPT ![r] = [q EXCEPT !.pc = to, !.answer = q.answer]]
    <3>1. \A to : [q EXCEPT !.pc = to, !.answer = q.answer] = [q EXCEPT !.pc = to]
      BY <1>1 DEF TrackRequest
    <3> QED BY <3>1 DEF TrackTypes
  <2>2. q.answer \in TrackAnswers BY <1>1, RequestFields
  <2>3. CASE \E to \in {"addon", "allow", "release"} : Goto(r, to)
    BY <2>1, <2>2, <2>3 DEF Goto
  <2>4. CASE q.kind = "send"
             /\ req' = [req EXCEPT ![r].pc = "done", ![r].answer = "overage_allowed"]
    BY <2>4 DEF TrackTypes, TrackAnswers
  <2> QED BY <2>3, <2>4 DEF GuardOverage
<1> DEFINE next == [q EXCEPT !.pc = pc, !.answer = answer]
<1>4. next \in TrackRequest BY <1>1, <1>3 DEF TrackRequest, TrackPCs
<1>5. /\ next.pc = pc /\ next.kind = q.kind /\ next.value = q.value /\ next.fits = q.fits
      /\ next.reserved = q.reserved /\ next.addonPaid = q.addonPaid /\ next.used = q.used
      /\ next.metered = q.metered /\ next.hydrated = q.hydrated /\ next.answer = answer
  BY <1>1 DEF TrackRequest
<1>6. q.kind \in {"track", "send", "access"} /\ q.fits \in BOOLEAN BY <1>1, RequestFields
<1>7. /\ q.kind # "access" /\ (q.kind = "send" => ~q.fits) /\ q.answer # "allowed"
      /\ q.reserved = IF q.kind = "track" THEN PrepaidCost(q.value) ELSE 0
      /\ q.addonPaid = 0 /\ Taken(q) = 0
  BY <1>1, <1>6 DEF Orderly, HoldsReserved, OnItsWay, HasTaken, Reserves, Taken
<1>8. req' = [req EXCEPT ![r] = next] /\ req[r] = q BY <1>3
<1> HIDE DEF next, q
<1>9. Orderly(next)
  BY <1>3, <1>4, <1>5, <1>6, <1>7 DEF Orderly, HoldsReserved, OnItsWay, HasTaken, Reserves
<1>10. Taken(next) = 0 BY <1>3, <1>5, <1>7 DEF Taken
<1>11. next.pc \notin {"hydrate", "configure"} /\ Taken(next) = Taken(q)
  BY <1>3, <1>5, <1>7, <1>10
<1> QED BY <1>2, <1>5, <1>8, <1>9, <1>11, StepsOn

LEMMA AllowGoes == ASSUME TrackTypes, NEW r \in Requests, Allow(r) PROVE Goes(r)
<1> DEFINE q == req[r]
           parts == [q.parts EXCEPT !.plan = @ + q.parts.over, !.over = 0]
           unsent == {s \in Sources : parts[s] > 0}
           next == [q EXCEPT !.pc = "done", !.answer = "allowed", !.parts = parts,
                             !.unsent = unsent]
<1>1. q \in TrackRequest /\ Orderly(q) /\ q.pc = "allow" BY RequestOrderly DEF Allow, At
<1>2. /\ MeterSame /\ MoneySame /\ UNCHANGED <<plan, faults>>
      /\ req' = [req EXCEPT ![r] = next]
  BY DEF Allow, Quiet, Calm
<1>3. parts \in Coverage /\ unsent \in SUBSET Sources
  <2>1. q.parts \in Coverage BY <1>1, RequestFields
  <2>2. q.parts.plan + q.parts.over \in Nat BY <1>1, RequestFields
  <2>3. parts \in Coverage BY <2>1, <2>2 DEF Coverage
  <2> QED BY <2>3
<1> HIDE DEF parts, unsent
<1>4. next \in TrackRequest BY <1>1, <1>3 DEF TrackRequest, TrackPCs, TrackAnswers
<1>5. /\ next.pc = "done" /\ next.kind = q.kind /\ next.value = q.value /\ next.fits = q.fits
      /\ next.reserved = q.reserved /\ next.addonPaid = q.addonPaid /\ next.used = q.used
      /\ next.metered = q.metered /\ next.hydrated = q.hydrated /\ next.answer = "allowed"
  BY <1>1 DEF TrackRequest
<1>6. /\ q.kind # "access" /\ Taken(q) = q.addonPaid
      /\ q.reserved = IF q.kind = "track" \/ q.fits THEN PrepaidCost(q.value) ELSE 0
  BY <1>1 DEF Orderly, HoldsReserved, OnItsWay, HasTaken, Reserves, Taken
<1>7. req[r] = q OBVIOUS
<1> HIDE DEF next, q
<1>8. Orderly(next)
  BY <1>4, <1>5, <1>6 DEF Orderly, HoldsReserved, OnItsWay, HasTaken, Reserves
<1>9. Taken(next) = Taken(q) BY <1>5, <1>6 DEF Taken
<1> QED BY <1>2, <1>5, <1>7, <1>8, <1>9, StepsOn

(* A request ends, with its reservation released or lost.                  *)
LEMMA EndsGoes ==
  ASSUME TrackTypes, NEW r \in Requests, NEW q, q = req[r], q.pc \in {"release", "reserve"},
         NEW answer \in TrackAnswers, answer # "allowed",
         req' = [req EXCEPT ![r] = [q EXCEPT !.pc = "done", !.reserved = 0, !.answer = answer]],
         MeterSame, UNCHANGED <<plan, addon>>, faults' \in {faults, faults + 1},
         credits' \in Nat, credits' <= credits + q.reserved,
         faults' = 0 => credits' = credits + q.reserved
  PROVE  Goes(r)
<1> DEFINE next == [q EXCEPT !.pc = "done", !.reserved = 0, !.answer = answer]
<1>1. q \in TrackRequest /\ Orderly(q) BY RequestOrderly
<1>2. next \in TrackRequest BY <1>1 DEF TrackRequest, TrackPCs
<1>3. /\ next.pc = "done" /\ next.kind = q.kind /\ next.reserved = 0 /\ next.used = q.used
      /\ next.metered = q.metered /\ next.hydrated = q.hydrated /\ next.answer = answer
  BY <1>1 DEF TrackRequest
<1>4. req' = [req EXCEPT ![r] = next] OBVIOUS
<1> HIDE DEF next
<1>5. Orderly(next)
  BY <1>1, <1>2, <1>3 DEF Orderly, HoldsReserved, OnItsWay, HasTaken, Reserves
<1>6. Taken(next) = 0 /\ Taken(q) = 0
  BY <1>1, <1>3 DEF Taken, Orderly, OnItsWay
<1>7. /\ faults' \in Nat /\ faults <= faults'
      /\ credits' + next.reserved <= credits + q.reserved
      /\ faults' = 0 => credits' + next.reserved = credits + q.reserved
      /\ Taken(next) <= Taken(q)
  BY <1>3, <1>6 DEF TrackTypes
<1>8. Quietly(r, next) BY <1>3, <1>4, <1>5, <1>6, <1>7 DEF Quietly
<1> QED BY <1>8, QuietGoes

LEMMA ReleaseGoes ==
  ASSUME TrackTypes, NEW r \in Requests, Release(r) \/ ReleaseRaises(r) PROVE Goes(r)
<1> DEFINE q == req[r]
<1>1. q \in TrackRequest /\ Orderly(q) /\ q.pc = "release"
  BY RequestOrderly DEF Release, ReleaseRaises, At
<1>2. q.reserved \in Nat /\ credits \in Nat /\ faults \in Nat /\ q.answer \in TrackAnswers
  BY <1>1, RequestFields DEF TrackTypes
<1>3. q.answer # "allowed" BY <1>1 DEF Orderly, OnItsWay
<1>4. CASE Release(r)
  <2> DEFINE answer == IF q.answer = "none" THEN "denied" ELSE q.answer
  <2>1. answer \in TrackAnswers /\ answer # "allowed" BY <1>2, <1>3 DEF TrackAnswers
  <2>2. Ended(q) = [q EXCEPT !.pc = "done", !.reserved = 0, !.answer = answer] BY DEF Ended
  <2>3. req' = [req EXCEPT ![r] = [q EXCEPT !.pc = "done", !.reserved = 0, !.answer = answer]]
    BY <1>4, <2>2 DEF Release
  <2>4. /\ MeterSame /\ UNCHANGED <<plan, addon, faults>> /\ credits' = credits + q.reserved
    BY <1>4 DEF Release, Quiet, Calm
  <2>5. credits' \in Nat /\ credits' <= credits + q.reserved BY <1>2, <2>4
  <2> HIDE DEF answer
  <2> QED BY <1>1, <2>1, <2>3, <2>4, <2>5, EndsGoes
<1>5. CASE ReleaseRaises(r)
  <2>1. [Ended(q) EXCEPT !.answer = "error"]
          = [q EXCEPT !.pc = "done", !.reserved = 0, !.answer = "error"]
    BY <1>1 DEF Ended, TrackRequest
  <2>2. req' = [req EXCEPT ![r] = [q EXCEPT !.pc = "done", !.reserved = 0, !.answer = "error"]]
    BY <1>5, <2>1 DEF ReleaseRaises
  <2>3. /\ MeterSame /\ UNCHANGED <<plan, addon>> /\ faults' = faults + 1
        /\ credits' \in {credits, credits + q.reserved}
    BY <1>5 DEF ReleaseRaises, Calm
  <2>4. credits' \in Nat /\ credits' <= credits + q.reserved /\ faults' # 0 BY <1>2, <2>3
  <2>5. "error" \in TrackAnswers BY DEF TrackAnswers
  <2> QED BY <1>1, <2>2, <2>3, <2>4, <2>5, EndsGoes
<1> QED BY <1>4, <1>5

LEMMA ReserveRaisesGoes ==
  ASSUME TrackTypes, NEW r \in Requests, ReserveRaises(r) PROVE Goes(r)
<1> DEFINE q == req[r]  cost == PrepaidCost(q.value)
<1>1. q \in TrackRequest /\ Orderly(q) /\ q.pc = "reserve"
  BY RequestOrderly DEF ReserveRaises, At
<1>2. cost \in Nat /\ credits \in Nat /\ faults \in Nat
  BY <1>1, PrepaidTyped, RequestFields DEF TrackTypes
<1>3. q.reserved = 0
  BY <1>1 DEF Orderly, HoldsReserved, OnItsWay, HasTaken, Reserves
<1>4. /\ MeterSame /\ UNCHANGED <<plan, addon>> /\ faults' = faults + 1
      /\ credits' \in {credits} \cup {c \in {credits - cost} : c >= 0}
      /\ req' = [req EXCEPT ![r].pc = "done", ![r].answer = "error"]
  BY DEF ReserveRaises, Calm
<1>5. [q EXCEPT !.pc = "done", !.reserved = 0, !.answer = "error"]
        = [q EXCEPT !.pc = "done", !.answer = "error"]
  BY <1>1, <1>3 DEF TrackRequest
<1>6. req' = [req EXCEPT ![r] = [q EXCEPT !.pc = "done", !.reserved = 0, !.answer = "error"]]
  BY <1>4, <1>5 DEF TrackTypes
<1>7. credits' \in Nat /\ credits' <= credits + q.reserved /\ faults' # 0
  BY <1>2, <1>3, <1>4
<1>8. "error" \in TrackAnswers BY DEF TrackAnswers
<1> QED BY <1>1, <1>4, <1>6, <1>7, <1>8, EndsGoes

LEMMA RaiseGoes == ASSUME TrackTypes, NEW r \in Requests, Raise(r) PROVE Goes(r)
<1> DEFINE q == req[r]  f == Failed(q)
<1>1. Orderly(q) /\ q \in TrackRequest BY RequestOrderly
<1>2. /\ Orderly(f) /\ f.reserved \in Nat /\ f.reserved <= q.reserved /\ Taken(f) = 0
      /\ Taken(q) \in Nat /\ f.metered = q.metered /\ f.hydrated = q.hydrated
      /\ f.used = q.used /\ f.pc \in {"release", "done"}
  BY <1>1, FailedOrderly
<1>3. /\ MeterSame /\ UNCHANGED <<plan, credits, addon>> /\ faults' = faults + 1
      /\ req' = [req EXCEPT ![r] = f]
  BY DEF Raise, MoneySame, Calm
<1>4. q.reserved \in Nat /\ credits \in Nat /\ faults \in Nat
  BY <1>1, RequestFields DEF TrackTypes
<1> HIDE DEF f
<1>5. /\ credits' \in Nat /\ faults' \in Nat /\ faults <= faults' /\ faults' # 0
      /\ credits' + f.reserved <= credits + q.reserved /\ Taken(f) <= Taken(q)
  BY <1>2, <1>3, <1>4
<1>6. Quietly(r, f) BY <1>2, <1>3, <1>5 DEF Quietly
<1> QED BY <1>6, QuietGoes

(* The appends of a request that was answered.                             *)
LEMMA AppendGoes ==
  ASSUME TrackTypes, NEW r \in Requests, NEW s \in Sources, Append(r, s) \/ AppendRaises(r, s)
  PROVE  Goes(r)
<1> DEFINE q == req[r]
<1>1. q \in TrackRequest /\ Orderly(q) BY RequestOrderly
<1>2. q.unsent \in SUBSET Sources /\ q.tries \in [Sources -> Nat] BY <1>1 DEF TrackRequest
<1>3. PICK unsent \in SUBSET Sources, tries \in [Sources -> Nat] :
        req' = [req EXCEPT ![r] = [q EXCEPT !.unsent = unsent, !.tries = tries]]
  <2>1. CASE Append(r, s)
    <3>1. req' = [req EXCEPT ![r] = [q EXCEPT !.unsent = q.unsent \ {s}]]
      BY <2>1 DEF Append, TrackTypes
    <3>2. [q EXCEPT !.unsent = q.unsent \ {s}]
            = [q EXCEPT !.unsent = q.unsent \ {s}, !.tries = q.tries]
      BY <1>1 DEF TrackRequest
    <3> QED BY <1>2, <3>1, <3>2
  <2>2. CASE AppendRaises(r, s)
    <3> DEFINE left == IF q.tries[s] + 1 < MaxRetries THEN q.unsent ELSE q.unsent \ {s}
               more == [q.tries EXCEPT ![s] = @ + 1]
    <3>1. left \in SUBSET Sources /\ more \in [Sources -> Nat] BY <1>2
    <3>2. req' = [req EXCEPT ![r].tries[s] = @ + 1, ![r].unsent = left]
      BY <2>2 DEF AppendRaises
    <3>3. [q EXCEPT !.tries[s] = @ + 1, !.unsent = left]
            = [q EXCEPT !.unsent = left, !.tries = more]
      BY <1>1 DEF TrackRequest
    <3>4. req' = [req EXCEPT ![r] = [q EXCEPT !.tries[s] = @ + 1, !.unsent = left]]
      BY <3>2 DEF TrackTypes
    <3> QED BY <3>1, <3>3, <3>4
  <2> QED BY <2>1, <2>2
<1> DEFINE next == [q EXCEPT !.unsent = unsent, !.tries = tries]
<1>4. next \in TrackRequest BY <1>1, <1>3 DEF TrackRequest
<1>5. /\ next.pc = q.pc /\ next.kind = q.kind /\ next.value = q.value /\ next.fits = q.fits
      /\ next.reserved = q.reserved /\ next.addonPaid = q.addonPaid /\ next.used = q.used
      /\ next.metered = q.metered /\ next.hydrated = q.hydrated /\ next.answer = q.answer
  BY <1>1 DEF TrackRequest
<1>6. /\ MeterSame /\ MoneySame /\ UNCHANGED plan /\ faults' \in {faults, faults + 1}
  BY DEF Append, AppendRaises
<1>7. req' = [req EXCEPT ![r] = next] /\ req[r] = q BY <1>3
<1> HIDE DEF next, q
<1>8. Orderly(next)
  BY <1>1, <1>4, <1>5 DEF Orderly, HoldsReserved, OnItsWay, HasTaken, Reserves
<1>9. Taken(next) = Taken(q) BY <1>5 DEF Taken
<1> QED BY <1>5, <1>6, <1>7, <1>8, <1>9, StepsOn

LEMMA EveryStepGoes ==
  ASSUME TrackTypes, TrackNext
  PROVE  (\E r \in Requests : Goes(r)) /\ ledger' \in [Requests -> [Sources -> Nat]]
<1>1. PICK r \in Requests :
        \/ \E v \in Values, kind \in {"track", "send"} : Start(r, kind, v)
        \/ Start(r, "access", 0)
        \/ Step(r)
        \/ LedgerUnavailable(r) \/ Raise(r) \/ ReleaseRaises(r) \/ ReserveRaises(r)
        \/ \E s \in Sources : Append(r, s) \/ AppendRaises(r, s)
  BY DEF TrackNext
<1>2. ledger \in [Requests -> [Sources -> Nat]] BY DEF TrackTypes
<1>3. CASE \E v \in Values, kind \in {"track", "send"} : Start(r, kind, v)
  <2>1. PICK v \in Values, kind \in {"track", "send"} : Start(r, kind, v) BY <1>3
  <2>2. Goes(r) BY <2>1, StartGoes, TrackConstants
  <2> QED BY <1>2, <2>1, <2>2 DEF Start, Quiet, Calm
<1>4. CASE Start(r, "access", 0)
  <2>1. Goes(r) BY <1>4, StartGoes
  <2> QED BY <1>2, <1>4, <2>1 DEF Start, Quiet, Calm
<1>5. CASE Step(r)
  <2>1. Goes(r)
    BY <1>5, ReserveGoes, GuardGoes, TrackMeterGoes, CheckMeterGoes, CommitGoes, DeductGoes,
       SumLedgerGoes, HydrateGoes, TrackPlanGoes, GuardOverageGoes, AllowGoes, ReleaseGoes
       DEF Step
  <2>2. UNCHANGED ledger
    BY <1>5 DEF Step, Reserve, Guard, TrackMeter, CheckMeter, CheckAgain, Commit, Fallback,
                SumLedger, Hydrate, TrackAgain, TrackPlan, GuardOverage, DeductAddon, Allow,
                Release, Reply, Quiet, Calm
  <2> QED BY <1>2, <2>1, <2>2
<1>6. CASE LedgerUnavailable(r) \/ Raise(r) \/ ReleaseRaises(r) \/ ReserveRaises(r)
  <2>1. Goes(r) BY <1>6, SumLedgerGoes, RaiseGoes, ReleaseGoes, ReserveRaisesGoes
  <2>2. UNCHANGED ledger
    BY <1>6 DEF LedgerUnavailable, Raise, ReleaseRaises, ReserveRaises, Calm
  <2> QED BY <1>2, <2>1, <2>2
<1>7. CASE \E s \in Sources : Append(r, s) \/ AppendRaises(r, s)
  <2>1. PICK s \in Sources : Append(r, s) \/ AppendRaises(r, s) BY <1>7
  <2>2. Goes(r) BY <2>1, AppendGoes
  <2> DEFINE added == [ledger EXCEPT ![r][s] = @ + req[r].parts[s]]
  <2>3. ledger' \in {ledger, added} BY <2>1 DEF Append, AppendRaises
  <2>4. req[r].parts[s] \in Nat BY RequestOrderly, RequestFields DEF Coverage, Sources
  <2>5. added \in [Requests -> [Sources -> Nat]] BY <1>2, <2>4
  <2> QED BY <1>2, <2>2, <2>3, <2>5
<1> QED BY <1>1, <1>3, <1>4, <1>5, <1>6, <1>7

-----------------------------------------------------------------------------
(* What the requests hold together.                                        *)
Held == Total([r \in Requests |-> req[r].reserved], Requests)
TakenInAll == Total([r \in Requests |-> Taken(req[r])], Requests)
Metered == Total([r \in Requests |-> req[r].metered], Requests)

CreditsHeld ==
  /\ credits + Held <= Credits0 /\ addon + TakenInAll <= Addon0
  /\ faults = 0 => credits + Held = Credits0 /\ addon + TakenInAll = Addon0

(* The premises of PlanWithinLimit, and what is true of the plan.  Who is  *)
(* about to configure the meter found it empty; if it no longer is, some   *)
(* other request has configured it.                                        *)
Careful ==
  /\ \A r \in Hydrators : req[r].used >= Prior
  /\ plan.config.resetOnEnable => Cardinality(Hydrators) <= 1
PlanLeft ==
  Metered + Left(Now(Meter)) <= Remaining(plan.config.limit, Prior)
PlanHeld ==
  /\ \A r \in Requests : req[r].pc \in {"hydrate", "configure"} =>
       Now(Meter) = NoState \/ Hydrators # {}
  /\ Now(Meter) = NoState => Metered = 0
  /\ Careful /\ Now(Meter) # NoState /\ plan.config.limit # Unlimited =>
       Left(Now(Meter)) \in Nat /\ PlanLeft

TrackInv == TrackTypes /\ CreditsHeld /\ PlanHeld

LEMMA TotalsTyped ==
  ASSUME TrackTypes
  PROVE  Held \in Nat /\ TakenInAll \in Nat /\ Metered \in Nat
<1> DEFINE held == [r \in Requests |-> req[r].reserved]
           taken == [r \in Requests |-> Taken(req[r])]
           metered == [r \in Requests |-> req[r].metered]
<1>1. \A r \in Requests : held[r] \in Nat /\ taken[r] \in Nat /\ metered[r] \in Nat
  BY RequestOrderly, FailedOrderly, RequestFields
<1>2. Held = Total(held, Requests) /\ TakenInAll = Total(taken, Requests)
      /\ Metered = Total(metered, Requests)
  BY DEF Held, TakenInAll, Metered
<1> HIDE DEF held, taken, metered
<1> QED BY <1>1, <1>2, TrackConstants, TotalType

(* A step of one request changes the totals by what it changes itself.     *)
LEMMA TotalsMove ==
  ASSUME TrackTypes, NEW r \in Requests, NEW q2, Orderly(q2), req' = [req EXCEPT ![r] = q2]
  PROVE  /\ Held' = Held - req[r].reserved + q2.reserved
         /\ TakenInAll' = TakenInAll - Taken(req[r]) + Taken(q2)
         /\ Metered' = Metered - req[r].metered + q2.metered
<1> DEFINE held == [x \in Requests |-> req[x].reserved]
           taken == [x \in Requests |-> Taken(req[x])]
           metered == [x \in Requests |-> req[x].metered]
           held2 == [x \in Requests |-> req'[x].reserved]
           taken2 == [x \in Requests |-> Taken(req'[x])]
           metered2 == [x \in Requests |-> req'[x].metered]
<1>0. ASSUME NEW f, NEW g, \A x \in Requests : f[x] \in Int /\ g[x] \in Int,
             \A x \in Requests : x # r => f[x] = g[x]
      PROVE  Total(g, Requests) = Total(f, Requests) - f[r] + g[r]
  <2>1. IsFiniteSet(Requests) BY TrackConstants
  <2> QED BY <1>0, <2>1, TotalUpdate
<1>1. \A x \in Requests : Orderly(req[x]) /\ Orderly(req'[x])
  BY DEF TrackTypes
<1>2. \A x \in Requests : /\ held[x] \in Nat /\ taken[x] \in Nat /\ metered[x] \in Nat
                          /\ held2[x] \in Nat /\ taken2[x] \in Nat /\ metered2[x] \in Nat
  BY <1>1, FailedOrderly, RequestFields DEF Orderly
<1>3. req'[r] = q2 /\ \A x \in Requests : x # r => req'[x] = req[x] BY DEF TrackTypes
<1>4. \A x \in Requests : x # r => held2[x] = held[x] /\ taken2[x] = taken[x]
                                   /\ metered2[x] = metered[x]
  BY <1>3
<1>5. /\ held[r] = req[r].reserved /\ taken[r] = Taken(req[r]) /\ metered[r] = req[r].metered
      /\ held2[r] = q2.reserved /\ taken2[r] = Taken(q2) /\ metered2[r] = q2.metered
  BY <1>3
<1>6. Held = Total(held, Requests) /\ TakenInAll = Total(taken, Requests)
      /\ Metered = Total(metered, Requests)
  BY DEF Held, TakenInAll, Metered
<1>7. Held' = Total(held2, Requests) /\ TakenInAll' = Total(taken2, Requests)
      /\ Metered' = Total(metered2, Requests)
  BY DEF Held, TakenInAll, Metered, Total, MapThenSumSet, MapThenFoldSet, Taken
<1> HIDE DEF held, taken, metered, held2, taken2, metered2
<1>8. Total(held2, Requests) = Total(held, Requests) - held[r] + held2[r]
  <2>1. \A x \in Requests : held[x] \in Int /\ held2[x] \in Int BY <1>2
  <2>2. \A x \in Requests : x # r => held[x] = held2[x] BY <1>4
  <2> QED BY <1>0, <2>1, <2>2
<1>9. Total(taken2, Requests) = Total(taken, Requests) - taken[r] + taken2[r]
  <2>1. \A x \in Requests : taken[x] \in Int /\ taken2[x] \in Int BY <1>2
  <2>2. \A x \in Requests : x # r => taken[x] = taken2[x] BY <1>4
  <2> QED BY <1>0, <2>1, <2>2
<1>10. Total(metered2, Requests) = Total(metered, Requests) - metered[r] + metered2[r]
  <2>1. \A x \in Requests : metered[x] \in Int /\ metered2[x] \in Int BY <1>2
  <2>2. \A x \in Requests : x # r => metered[x] = metered2[x] BY <1>4
  <2> QED BY <1>0, <2>1, <2>2
<1> QED BY <1>5, <1>6, <1>7, <1>8, <1>9, <1>10

LEMMA TypesMove ==
  ASSUME TrackTypes, NEW r \in Requests, NEW q2, Moves(r, q2), MovesMeter(r, q2),
         ledger' \in [Requests -> [Sources -> Nat]]
  PROVE  TrackTypes'
<1>1. /\ plan' \in Plans /\ credits' \in Nat /\ addon' \in Nat /\ faults' \in Nat
      /\ q2 \in TrackRequest
  BY DEF Moves, TrackTypes, Orderly
<1>2. req' = [req EXCEPT ![r] = q2] BY DEF Moves
<1>3. req' \in [Requests -> TrackRequest] BY <1>1, <1>2 DEF TrackTypes
<1>4. Metering' BY DEF MovesMeter, Looks, Takes, Grants
<1>5. PrepaidCost(0)' = PrepaidCost(0) /\ \A v : PrepaidCost(v)' = PrepaidCost(v)
  BY DEF Moves, PrepaidCost
<1>6. ASSUME NEW x \in Requests PROVE Orderly(req[x])'
  <2>1. Orderly(req'[x]) BY <1>2 DEF Moves, TrackTypes
  <2> QED BY <2>1, <1>5 DEF Orderly, HoldsReserved, OnItsWay, HasTaken, Reserves, PrepaidCost, Moves
<1>7. Now(Meter) # NoState => Now(Meter)' # NoState
  <2>1. CASE Looks BY <2>1 DEF Looks, Now, Meter
  <2>2. CASE ~Looks BY <2>2 DEF MovesMeter, Takes, Grants
  <2> QED BY <2>1, <2>2
<1>8. ASSUME NEW x \in Requests PROVE req'[x].hydrated => Now(Meter)' # NoState
  <2>1. req'[x].hydrated => req[x].hydrated \/ Now(Meter)' # NoState
    BY <1>2 DEF MovesMeter, TrackTypes
  <2> QED BY <1>7, <2>1 DEF TrackTypes
<1> QED BY <1>1, <1>3, <1>4, <1>6, <1>8 DEF TrackTypes

LEMMA CreditsMove ==
  ASSUME TrackTypes, CreditsHeld, NEW r \in Requests, NEW q2, Moves(r, q2)
  PROVE  CreditsHeld'
<1>1. /\ Held' = Held - req[r].reserved + q2.reserved
      /\ TakenInAll' = TakenInAll - Taken(req[r]) + Taken(q2)
  BY TotalsMove DEF Moves
<1>2. /\ req[r].reserved \in Nat /\ q2.reserved \in Nat /\ Taken(req[r]) \in Nat
      /\ Taken(q2) \in Nat /\ Held \in Nat /\ TakenInAll \in Nat
  BY TotalsTyped, RequestOrderly, FailedOrderly, RequestFields DEF Moves, Orderly
<1>3. /\ credits \in Nat /\ addon \in Nat /\ faults \in Nat /\ credits' \in Nat /\ addon' \in Nat
      /\ faults' \in Nat /\ faults <= faults' /\ Credits0 \in Nat /\ Addon0 \in Nat
  BY TrackConstants DEF TrackTypes, Moves
<1>4. /\ credits' + q2.reserved <= credits + req[r].reserved
      /\ addon' + Taken(q2) <= addon + Taken(req[r])
      /\ faults' = 0 => /\ credits' + q2.reserved = credits + req[r].reserved
                        /\ addon' + Taken(q2) = addon + Taken(req[r])
  BY DEF Moves
<1>5. credits' + Held' <= Credits0 /\ addon' + TakenInAll' <= Addon0
  BY <1>1, <1>2, <1>3, <1>4 DEF CreditsHeld
<1>6. faults' = 0 => credits' + Held' = Credits0 /\ addon' + TakenInAll' = Addon0
  BY <1>1, <1>2, <1>3, <1>4 DEF CreditsHeld
<1> QED BY <1>5, <1>6 DEF CreditsHeld

(* The premises are about the whole run: who has broken them did so for    *)
(* good.                                                                   *)
LEMMA CarefulBefore ==
  ASSUME TrackTypes, NEW r \in Requests, NEW q2, Moves(r, q2), MovesMeter(r, q2)
  PROVE  /\ Hydrators \subseteq Hydrators' /\ (q2.hydrated => r \in Hydrators')
         /\ Careful' => Careful
         /\ Careful' /\ plan.config.resetOnEnable => \A x, y \in Hydrators' : x = y
<1>1. req'[r] = q2 /\ \A x \in Requests : x # r => req'[x] = req[x]
  BY DEF Moves, TrackTypes
<1>2. req[r].hydrated => q2.hydrated /\ q2.used = req[r].used
  BY RequestOrderly, RequestFields DEF MovesMeter
<1>3. Hydrators \subseteq Hydrators' /\ (q2.hydrated => r \in Hydrators')
  BY <1>1, <1>2 DEF Hydrators
<1>4. IsFiniteSet(Hydrators') /\ Hydrators' \subseteq Requests
  BY TrackConstants, FS_Subset DEF Hydrators
<1>5. Cardinality(Hydrators) <= Cardinality(Hydrators')
      /\ Cardinality(Hydrators) \in Nat /\ Cardinality(Hydrators') \in Nat
  BY <1>3, <1>4, FS_Subset, FS_CardinalityType
<1>6. plan' = plan BY DEF Moves
<1>7. ASSUME Careful' PROVE Careful
  <2>1. \A x \in Hydrators : req[x].used >= Prior
    <3>1. \A x \in Hydrators : req'[x].used = req[x].used BY <1>1, <1>2 DEF Hydrators
    <3> QED BY <1>3, <1>7, <3>1 DEF Careful
  <2> QED BY <1>5, <1>6, <1>7, <2>1 DEF Careful
<1>8. ASSUME Careful', plan.config.resetOnEnable, NEW x \in Hydrators', NEW y \in Hydrators'
      PROVE  x = y
  <2>1. Cardinality(Hydrators') <= 1 BY <1>6, <1>8 DEF Careful
  <2>2. IsFiniteSet({x}) /\ Cardinality({x}) = 1 BY FS_Singleton
  <2>3. {x} \subseteq Hydrators' BY <1>8
  <2>4. Cardinality(Hydrators') = Cardinality({x})
    BY <1>4, <1>5, <2>1, <2>2, <2>3, FS_Subset
  <2>5. Hydrators' = {x} BY <1>4, <2>3, <2>4, FS_Subset
  <2> QED BY <1>8, <2>5
<1> QED BY <1>3, <1>7, <1>8

LEMMA PlanMoves ==
  ASSUME TrackTypes, PlanHeld, NEW r \in Requests, NEW q2, Moves(r, q2), MovesMeter(r, q2)
  PROVE  PlanHeld'
<1> DEFINE q == req[r]  limit == plan.config.limit
<1>1. /\ req'[r] = q2 /\ \A x \in Requests : x # r => req'[x] = req[x]
      /\ plan' = plan /\ r \in Requests
  BY DEF Moves, TrackTypes
<1>2. /\ Hydrators \subseteq Hydrators' /\ (q2.hydrated => r \in Hydrators')
      /\ Careful' => Careful
      /\ Careful' /\ plan.config.resetOnEnable => \A x, y \in Hydrators' : x = y
  BY CarefulBefore
<1>3. /\ Metered' = Metered - q.metered + q2.metered /\ Metered \in Nat
      /\ q.metered \in Nat /\ q2.metered \in Nat /\ q.used \in Nat
  BY TotalsMove, TotalsTyped, RequestOrderly, RequestFields DEF Moves, Orderly
<1>4. /\ limit \in Amount /\ Prior \in Nat /\ Unlimited \notin Nat
  BY TrackConstants, MeterAssumption DEF TrackTypes
<1>5. Now(Meter)' = NoState => Now(Meter) = NoState /\ Looks /\ q2.metered = q.metered
  <2>1. Looks => Now(Meter)' = Now(Meter) BY DEF Looks, Now, Meter
  <2> QED BY <2>1 DEF MovesMeter, Takes, Grants
<1>6. Looks => Now(Meter)' = Now(Meter) BY DEF Looks, Now, Meter
<1>7. ASSUME NEW x \in Requests, req'[x].pc \in {"hydrate", "configure"}
      PROVE  Now(Meter)' = NoState \/ Hydrators' # {}
  <2>1. Now(Meter) = NoState \/ Hydrators # {}
    <3>1. CASE x # r BY <1>1, <1>7, <3>1 DEF PlanHeld
    <3>2. CASE x = r
      <4>1. req[r].pc \in {"hydrate", "configure"} \/ Now(Meter) = NoState
        BY <1>1, <1>7, <3>2 DEF MovesMeter
      <4> QED BY <4>1 DEF PlanHeld
    <3> QED BY <3>1, <3>2
  <2>2. CASE Now(Meter) = NoState
    <3>1. Looks \/ q2.hydrated BY <2>2 DEF MovesMeter, Takes
    <3> QED BY <1>2, <1>6, <2>2, <3>1
  <2> QED BY <1>2, <2>1, <2>2
<1>8. ASSUME Now(Meter)' = NoState PROVE Metered' = 0
  BY <1>3, <1>5, <1>8 DEF PlanHeld
<1>9. ASSUME Careful', Now(Meter)' # NoState, limit # Unlimited
      PROVE  Left(Now(Meter)') \in Nat /\ Metered' + Left(Now(Meter)') <= Remaining(limit, Prior)
  <2>0. /\ Careful
        /\ Now(Meter) # NoState =>
             Left(Now(Meter)) \in Nat /\ Metered + Left(Now(Meter)) <= Remaining(limit, Prior)
    BY <1>2, <1>9 DEF PlanHeld, PlanLeft
  <2>1. CASE Looks /\ q2.metered = q.metered
    <3>1. Now(Meter)' = Now(Meter) /\ Metered' = Metered BY <1>3, <1>6, <2>1
    <3> QED BY <1>9, <2>0, <3>1
  <2>2. CASE q.metered = 0 /\ Takes(q2.metered)
    <3> DEFINE old == Left(Now(Meter))  new == Left(Now(Meter)')
    <3>1. /\ old \in Nat /\ new = old - q2.metered /\ q2.metered <= old
          /\ Metered + old <= Remaining(limit, Prior)
      BY <1>9, <2>0, <2>2 DEF Takes
    <3>2. Remaining(limit, Prior) \in Nat BY <1>4, <1>9 DEF Remaining, Amount
    <3>3. Metered' = Metered + q2.metered BY <1>3, <2>2
    <3> HIDE DEF old, new
    <3>4. new \in Nat /\ Metered' + new <= Remaining(limit, Prior)
      BY <1>3, <3>1, <3>2, <3>3
    <3> QED BY <3>4 DEF new
  <2>3. CASE /\ Grants(q.used) /\ q.pc = "configure" /\ q2.hydrated /\ q2.metered = q.metered
             /\ Now(Meter) = NoState
    <3>1. Left(Now(Meter)') = Remaining(limit, q.used) BY <2>3 DEF Grants
    <3>2. Metered' = 0 BY <1>3, <2>3 DEF PlanHeld
    <3>3. q.used >= Prior
      <4>1. r \in Hydrators' /\ req'[r].used = q.used BY <1>1, <1>2, <2>3 DEF MovesMeter
      <4> QED BY <1>9, <4>1 DEF Careful
    <3>4. Remaining(limit, q.used) \in Nat /\ Remaining(limit, q.used) <= Remaining(limit, Prior)
          /\ Remaining(limit, Prior) \in Nat
      BY <1>3, <1>4, <1>9, <3>3 DEF Remaining, Amount
    <3> QED BY <3>1, <3>2, <3>4
  <2>4. CASE /\ Grants(q.used) /\ q.pc = "configure" /\ q2.hydrated /\ q2.metered = q.metered
             /\ Now(Meter) # NoState
    <3>1. Hydrators # {} BY <2>4 DEF PlanHeld
    <3>2. ~q.hydrated BY <2>4, RequestOrderly DEF Orderly, HasTaken
    <3>3. r \notin Hydrators BY <3>2 DEF Hydrators
    <3>4. ~plan.config.resetOnEnable BY <1>2, <1>9, <2>4, <3>1, <3>3
    <3>5. Now(Meter)' = Now(Meter) /\ Metered' = Metered BY <1>3, <2>4, <3>4 DEF Grants
    <3> QED BY <2>0, <2>4, <3>5
  <2> QED BY <2>1, <2>2, <2>3, <2>4 DEF MovesMeter
<1>10. ASSUME Careful', Now(Meter)' # NoState, limit # Unlimited
       PROVE  Left(Now(Meter)') \in Nat /\ PlanLeft'
  <2>1. Left(Now(Meter))' = Left(Now(Meter)') BY DEF Left, Plus, Now, Meter
  <2>2. Remaining(limit, Prior)' = Remaining(limit, Prior) BY <1>1 DEF Remaining
  <2>3. PlanLeft' <=> Metered' + Left(Now(Meter)') <= Remaining(limit, Prior)
    BY <1>1, <2>1, <2>2 DEF PlanLeft
  <2> QED BY <1>9, <1>10, <2>3
<1>11. limit' = limit BY <1>1
<1> QED BY <1>7, <1>8, <1>10, <1>11 DEF PlanHeld

-----------------------------------------------------------------------------
LEMMA TrackInitially == Init0 => TrackInv
<1> SUFFICES ASSUME Init0 PROVE TrackInv OBVIOUS
<1>1. /\ plan \in Plans /\ credits = Credits0 /\ addon = Addon0 /\ faults = 0
      /\ req = [r \in Requests |-> NewRequest]
      /\ ledger = [r \in Requests |-> [s \in Sources |-> 0]]
  BY DEF Init0
<1>2. Features = {Feature} /\ Prior \in Nat /\ Credits0 \in Nat /\ Addon0 \in Nat
      /\ IsFiniteSet(Requests) /\ NoState \notin UsageState /\ Unlimited \notin Nat
      /\ plan.config.limit \in Amount
  BY <1>1, TrackConstants, MeterAssumption
<1>3. NewRequest \in TrackRequest
  BY DEF NewRequest, NoParts, TrackRequest, TrackPCs, TrackAnswers, Coverage
<1>4. /\ NewRequest.pc = "start" /\ NewRequest.kind = "track" /\ NewRequest.reserved = 0
      /\ NewRequest.addonPaid = 0 /\ NewRequest.metered = 0 /\ NewRequest.hydrated = FALSE
      /\ NewRequest.answer = "none"
  BY DEF NewRequest
<1>5. Orderly(NewRequest)
  BY <1>3, <1>4 DEF Orderly, HoldsReserved, OnItsWay, HasTaken, Reserves
<1>6. Metering /\ (Now(Meter) # NoState => Left(Now(Meter)) = Remaining(plan.config.limit, Prior))
  <2>1. CASE usage = [f \in Features |-> NoState] /\ config = [f \in Features |-> NoConfig]
    <3>1. Now(Meter) = NoState BY <1>2, <2>1 DEF Now, Meter
    <3> QED BY <2>1, <3>1 DEF Metering
  <2>2. CASE /\ usage = [f \in Features |-> Granted(plan.config, Prior, 0)]
             /\ config = [f \in Features |-> plan.config]
    <3> DEFINE u == Granted(plan.config, Prior, 0)
    <3>1. Plain(u) /\ Left(u) = Remaining(plan.config.limit, Prior) BY <1>1, <1>2, GrantedPlain
    <3>2. Now(Meter) = u /\ config[Feature] = plan.config BY <1>2, <2>2 DEF Now, Meter
    <3>3. usage \in [Features -> UsageState \cup {NoState}] BY <2>2, <3>1 DEF Plain
    <3>4. config \in [Features -> {NoConfig, plan.config}] BY <2>2
    <3> HIDE DEF u
    <3> QED BY <3>1, <3>2, <3>3, <3>4 DEF Metering
  <2> QED BY <2>1, <2>2 DEF Init0
<1>7. TrackTypes
  <2>1. req \in [Requests -> TrackRequest] /\ \A r \in Requests : Orderly(req[r]) /\ ~req[r].hydrated
    BY <1>1, <1>3, <1>4, <1>5
  <2>2. ledger \in [Requests -> [Sources -> Nat]] BY <1>1
  <2> QED BY <1>1, <1>2, <1>6, <2>1, <2>2 DEF TrackTypes
<1>8. Held = 0 /\ TakenInAll = 0 /\ Metered = 0
  <2> DEFINE held == [r \in Requests |-> req[r].reserved]
             taken == [r \in Requests |-> Taken(req[r])]
             metered == [r \in Requests |-> req[r].metered]
  <2>1. \A r \in Requests : held[r] = 0 /\ taken[r] = 0 /\ metered[r] = 0
    BY <1>1, <1>4 DEF Taken
  <2>2. Held = Total(held, Requests) /\ TakenInAll = Total(taken, Requests)
        /\ Metered = Total(metered, Requests)
    BY DEF Held, TakenInAll, Metered
  <2> HIDE DEF held, taken, metered
  <2> QED BY <1>2, <2>1, <2>2, TotalZero
<1>9. CreditsHeld BY <1>1, <1>2, <1>8 DEF CreditsHeld
<1>10. PlanHeld
  <2>1. \A r \in Requests : req[r].pc = "start" BY <1>1, <1>4
  <2>2. ASSUME Now(Meter) # NoState, plan.config.limit # Unlimited
        PROVE  Left(Now(Meter)) \in Nat /\ PlanLeft
    <3>1. Remaining(plan.config.limit, Prior) \in Nat BY <1>2, <2>2 DEF Remaining, Amount
    <3> QED BY <1>6, <1>8, <2>2, <3>1 DEF PlanLeft
  <2> QED BY <1>8, <2>1, <2>2 DEF PlanHeld
<1> QED BY <1>7, <1>9, <1>10 DEF TrackInv

LEMMA TrackPreserves == TrackInv /\ [TrackNext]_allVars => TrackInv'
<1> SUFFICES ASSUME TrackInv, [TrackNext]_allVars PROVE TrackInv' OBVIOUS
<1>1. CASE TrackNext
  <2>1. PICK r \in Requests : Goes(r) BY <1>1, EveryStepGoes DEF TrackInv
  <2>2. PICK q2 : Moves(r, q2) /\ MovesMeter(r, q2) BY <2>1 DEF Goes
  <2>3. ledger' \in [Requests -> [Sources -> Nat]] BY <1>1, EveryStepGoes DEF TrackInv
  <2> QED BY <2>2, <2>3, TypesMove, CreditsMove, PlanMoves DEF TrackInv
<1>2. CASE UNCHANGED allVars
  <2>1. /\ UNCHANGED <<plan, req, credits, addon, ledger, faults, usage, config, alarm, crashes>>
    BY <1>2 DEF allVars, trackVars, vars
  <2>2. TrackTypes'
    BY <2>1 DEF TrackInv, TrackTypes, Metering, Plain, Now, Meter, Orderly, HoldsReserved,
                OnItsWay, HasTaken, Reserves, PrepaidCost
  <2>3. CreditsHeld'
    <3>1. Held' = Held /\ TakenInAll' = TakenInAll
      BY <2>1 DEF Held, TakenInAll, Taken, Total, MapThenSumSet, MapThenFoldSet
    <3> QED BY <2>1, <3>1 DEF TrackInv, CreditsHeld
  <2>4. PlanHeld'
    <3>1. Metered' = Metered BY <2>1 DEF Metered, Total, MapThenSumSet, MapThenFoldSet
    <3>2. Hydrators' = Hydrators BY <2>1 DEF Hydrators
    <3>3. Now(Meter)' = Now(Meter) BY <2>1 DEF Now, Meter
    <3>4. Left(Now(Meter))' = Left(Now(Meter)) BY <3>3 DEF Left, Plus
    <3>5. Careful' = Careful BY <2>1, <3>2 DEF Careful
    <3>6. PlanLeft' = PlanLeft BY <2>1, <3>1, <3>4 DEF PlanLeft, Remaining
    <3> QED BY <2>1, <3>1, <3>2, <3>3, <3>4, <3>5, <3>6 DEF TrackInv, PlanHeld
  <2> QED BY <2>2, <2>3, <2>4 DEF TrackInv
<1> QED BY <1>1, <1>2

THEOREM TrackInvariance == TrackSpec => []TrackInv
BY TrackInitially, TrackPreserves, PTL DEF TrackSpec

(* CreditsConserved, for any number of requests, amounts, plan and faults: *)
(* what a request holds of the prepaid credits is what its program counter *)
(* says, so every step gives and takes the same.                           *)
THEOREM CreditsAreConserved == TrackSpec => []CreditsConserved
<1>1. TrackInv => CreditsConserved
  <2> SUFFICES ASSUME TrackInv PROVE CreditsConserved OBVIOUS
  <2>1. Sum(LAMBDA r : req[r].reserved) = Held
    BY DEF Sum, Held, Total, MapThenSumSet, MapThenFoldSet
  <2>2. Sum(AddonTaken) = TakenInAll
    BY DEF Sum, TakenInAll, AddonTaken, Taken, Allowed, At, Total, MapThenSumSet, MapThenFoldSet
  <2>3. ASSUME NEW r \in Requests, req[r].pc = "done"
        PROVE  req[r].reserved =
                 IF Allowed(r) /\ PaysPrepaid(r) THEN PrepaidCost(req[r].value) ELSE 0
    BY <2>3 DEF TrackInv, TrackTypes, Orderly, HoldsReserved, Reserves, Allowed, PaysPrepaid
  <2> QED BY <2>1, <2>2, <2>3 DEF CreditsConserved, TrackInv, CreditsHeld
<1> QED BY <1>1, TrackInvariance, PTL

(* PlanWithinLimit, for any number of requests: what they consumed and     *)
(* what the meter has left never add up to more than the ledger left of    *)
(* the limit.                                                              *)
THEOREM PlanIsWithinLimit == TrackSpec => []PlanWithinLimit
<1>1. TrackInv => PlanWithinLimit
  <2> SUFFICES ASSUME TrackInv, Careful
               PROVE  AtLeast(Remaining(plan.config.limit, Prior), PlanUsed)
    BY DEF PlanWithinLimit, Careful
  <2> DEFINE limit == plan.config.limit
  <2>1. PlanUsed = Metered
    BY DEF PlanUsed, Sum, Metered, Total, MapThenSumSet, MapThenFoldSet
  <2>2. Metered \in Nat /\ Unlimited \notin Nat /\ limit \in Amount /\ Prior \in Nat
    BY TotalsTyped, MeterAssumption, TrackConstants DEF TrackInv, TrackTypes
  <2>3. CASE limit = Unlimited BY <2>3 DEF Remaining, AtLeast
  <2>4. CASE limit # Unlimited
    <3>1. Remaining(limit, Prior) \in Nat BY <2>2, <2>4 DEF Remaining, Amount
    <3>2. Metered <= Remaining(limit, Prior)
      <4>1. CASE Now(Meter) = NoState BY <3>1, <4>1 DEF TrackInv, PlanHeld
      <4>2. CASE Now(Meter) # NoState
        BY <2>2, <2>4, <3>1, <4>2 DEF TrackInv, PlanHeld, PlanLeft
      <4> QED BY <4>1, <4>2
    <3> QED BY <2>1, <2>2, <3>1, <3>2 DEF AtLeast
  <2> QED BY <2>3, <2>4
<1> QED BY <1>1, TrackInvariance, PTL
=============================================================================
