----------------------------- MODULE PlanSwitch -----------------------------
(***************************************************************************)
(* The subscriptions of customers that upgrade, downgrade and cancel, with *)
(* a provider that has no plan change of its own: /attach                  *)
(* (apps/api/src/lib/plan-switch.ts), the cancel route of the dashboard,   *)
(* the upgrade, downgrade and cancel-downgrade workflows, and the webhooks *)
(* that answer to them.  Each actor reads its subscription once and works  *)
(* with that copy; an action is one statement of the database or one call  *)
(* of the provider.                                                        *)
(***************************************************************************)
EXTENDS Naturals, FiniteSets

CONSTANTS
  Customers,
  Rows,         \* rows of the table subscriptions
  Codes,        \* subscription codes that the provider gives out
  Actors,       \* requests, deliveries and workflows at a time
  Plans, Free,  \* the plans of one group, and the free one
  Rank,         \* the monthly price of a plan, up to order
  NoRow, NoPlan, NoCode,
  MaxRequests,  \* bound on what customers and the dashboard ask for
  MaxDeliveries,\* bound on the deliveries of one event
  Faults,       \* subset of {"die", "refuse"}
  MaxFaults     \* bound on the faults

ASSUME SwitchAssumption ==
  /\ Free \in Plans /\ Rank \in [Plans -> Nat]
  /\ \A plan \in Plans : Rank[plan] >= Rank[Free]
  /\ NoRow \notin Rows /\ NoPlan \notin Plans /\ NoCode \notin Codes
  /\ "none" \notin Customers
  /\ {"upgrade", "downgrade"} \cap (Codes \cup {NoCode}) = {}
  /\ {MaxRequests, MaxDeliveries, MaxFaults} \subseteq Nat

VARIABLES
  subs,       \* the table subscriptions
  provider,   \* the provider's subscriptions
  echoes,     \* deliveries of subscription.canceled still to come, per code
  checkouts,  \* checkout sessions, and the deliveries of their charge.success
  actor,
  entitled,   \* the plan whose entitlements a customer has
  asked,      \* requests so far
  canceling,  \* customers that asked for a cancellation, here or there
  lost,       \* rows whose claim another writer's old metadata erased
  crossed,    \* customers whose switches crossed: see CancelRow, ScheduleDowngrade, Renew
  gaveUp,     \* customers whose workflow or handler ended at a unique index
  faults

vars == <<subs, provider, echoes, checkouts, actor, entitled, asked, canceling, lost, crossed,
          gaveUp, faults>>

(* Codes that stand for "no provider subscription yet".                    *)
Sentinels == {"upgrade", "downgrade"}

Unused == [owner |-> "none", status |-> "none", plan |-> NoPlan, code |-> NoCode,
           cancelAt |-> FALSE, sched |-> FALSE, claimed |-> FALSE, origin |-> NoRow]
Row == [owner : Customers \cup {"none"}, status : {"none", "active", "canceled"},
        plan : Plans \cup {NoPlan}, code : Codes \cup Sentinels \cup {NoCode},
        cancelAt : BOOLEAN, sched : BOOLEAN, claimed : BOOLEAN, origin : Rows \cup {NoRow}]

Kinds == {"idle", "cancelNow", "cancelLater", "canceled", "cancelDowngrade",
          "downgradeAsked", "downgrade", "upgrade", "upgradeInline", "upgradeNow", "newNow",
          "newPaid"}
Steps == {"idle", "sleep", "verify", "cancelAtProvider", "cancelRow", "schedule",
          "claim", "look", "insertFree", "provision", "mark", "find", "insert",
          "renew", "reopen", "load", "bill", "link"}
Idle == [kind |-> "idle", pc |-> "idle", row |-> NoRow, seen |-> Unused, plan |-> NoPlan,
         new |-> NoRow, code |-> NoCode]

\* code: the provider's subscription, once a new one is paid.
Checkout == [row : Rows, plan : Plans, kind : {"upgrade", "newPaid"}, left : 0..MaxDeliveries,
             code : Codes \cup {NoCode}]

TypeOK ==
  /\ subs \in [Rows -> Row]
  /\ provider \in [Codes -> [status : {"none", "active", "canceled"},
                             owner : Customers \cup {"none"}, plan : Plans \cup {NoPlan}]]
  /\ echoes \in [Codes -> 0..MaxDeliveries]
  /\ checkouts \subseteq Checkout
  /\ actor \in [Actors -> [kind : Kinds, pc : Steps, row : Rows \cup {NoRow}, seen : Row,
                           plan : Plans \cup {NoPlan}, new : Rows \cup {NoRow},
                           code : Codes \cup {NoCode}]]
  /\ \A a \in Actors :
       /\ actor[a].pc # "idle" => actor[a].row \in Rows /\ subs[actor[a].row].status # "none"
       /\ actor[a].kind = "newNow" => actor[a].plan \in Plans
  /\ entitled \in [Customers -> Plans]
  /\ asked \in 0..MaxRequests /\ faults \in 0..MaxFaults
  /\ canceling \cup crossed \cup gaveUp \subseteq Customers /\ lost \subseteq Rows

(* Every customer has one active subscription of the same plan.            *)
Init ==
  \E rowOf \in [Customers -> Rows], codeOf \in [Customers -> Codes], plan \in Plans :
    /\ \A c, d \in Customers : c # d => rowOf[c] # rowOf[d] /\ codeOf[c] # codeOf[d]
    /\ subs = [r \in Rows |->
         IF \E c \in Customers : rowOf[c] = r
         THEN LET c == CHOOSE c \in Customers : rowOf[c] = r
              IN  [Unused EXCEPT !.owner = c, !.status = "active", !.plan = plan,
                                 !.code = IF plan = Free THEN NoCode ELSE codeOf[c]]
         ELSE Unused]
    /\ provider = [k \in Codes |->
         IF plan # Free /\ \E c \in Customers : codeOf[c] = k
         THEN [status |-> "active", owner |-> CHOOSE c \in Customers : codeOf[c] = k,
               plan |-> plan]
         ELSE [status |-> "none", owner |-> "none", plan |-> NoPlan]]
    /\ echoes = [k \in Codes |-> 0]
    /\ checkouts = {}
    /\ actor = [a \in Actors |-> Idle]
    /\ entitled = [c \in Customers |-> plan]
    /\ asked = 0 /\ faults = 0
    /\ canceling = {} /\ lost = {} /\ crossed = {} /\ gaveUp = {}

-----------------------------------------------------------------------------
Active(r) == subs[r].status = "active"
ActiveOf(c, plan) == {r \in Rows : Active(r) /\ subs[r].owner = c /\ subs[r].plan = plan}
Paid(plan) == Rank[plan] > Rank[Free]

(* subscriptions_live_provider_code_uniq *)
Taken(code) == code # NoCode /\ \E r \in Rows : Active(r) /\ subs[r].code = code

\* The index allows the row to be active, again or still.
Revives(r) == Active(r) \/ ~Taken(subs[r].code)

Customer(a) == subs[actor[a].row].owner
At(a, step) == actor[a].pc = step
Kind(a) == actor[a].kind

Goto(a, step) == actor' = [actor EXCEPT ![a].pc = step]
End(a) == actor' = [actor EXCEPT ![a] = Idle]

\* Wrong: PlanUpgradeWorkflow provisions what was paid for first.
AfterEntitlesFirst(a) ==
  CASE At(a, "cancelAtProvider") /\ Kind(a) = "upgrade" -> "provision"
    [] At(a, "provision") /\ Kind(a) = "upgrade" -> "cancelRow"
    [] At(a, "cancelRow") /\ Kind(a) = "upgrade" -> "find"
    [] At(a, "find") \/ At(a, "insert") -> "load"
    [] At(a, "load") -> "bill"
    [] At(a, "bill") -> "link"
    [] OTHER -> "idle"

(* What follows the steps that several actors share. *)
After(a) ==
  CASE At(a, "cancelAtProvider") /\ Kind(a) \in {"cancelNow", "upgrade", "upgradeInline",
                                                "upgradeNow"} -> "cancelRow"
    [] At(a, "cancelAtProvider") /\ Kind(a) = "cancelLater" -> "schedule"
    [] At(a, "cancelAtProvider") /\ Kind(a) = "downgrade" -> "bill"
    [] At(a, "cancelRow") /\ Kind(a) \in {"cancelNow", "canceled"} -> "claim"
    [] At(a, "cancelRow") /\ Kind(a) \in {"upgrade", "upgradeInline"} -> "find"
    [] At(a, "cancelRow") /\ Kind(a) = "upgradeNow" -> "bill"
    [] At(a, "cancelRow") /\ Kind(a) = "downgrade" -> "cancelAtProvider"
    [] At(a, "bill") /\ Kind(a) = "downgrade" -> "find"
    [] At(a, "bill") /\ Kind(a) \in {"upgrade", "upgradeInline"} -> "link"
    [] At(a, "bill") /\ Kind(a) \in {"upgradeNow", "newNow"} -> "insert"
    [] At(a, "find") /\ Kind(a) = "newPaid" -> "renew"
    [] (At(a, "find") \/ At(a, "insert")) /\ Kind(a) = "upgrade" -> "load"
    [] (At(a, "find") \/ At(a, "insert")) /\ Kind(a) = "upgradeInline" -> "bill"
    [] At(a, "find") \/ At(a, "insert") -> "provision"
    [] At(a, "load") -> "bill"
    [] At(a, "renew") \/ At(a, "reopen") \/ At(a, "link") -> "provision"
    [] At(a, "provision") /\ Kind(a) \in {"cancelNow", "canceled", "cancelDowngrade"} -> "mark"
    [] At(a, "provision") /\ Kind(a) \in {"newNow", "newPaid"} -> "cancelRow"
    [] OTHER -> "idle"
Advance(a) == IF After(a) = "idle" THEN End(a) ELSE Goto(a, After(a))

Begin(a, kind, step, r, plan, code) ==
  /\ At(a, "idle")
  /\ actor' = [actor EXCEPT ![a] =
       [kind |-> kind, pc |-> step, row |-> r, seen |-> subs[r], plan |-> plan,
        new |-> NoRow, code |-> code]]

SameWorld == UNCHANGED <<echoes, checkouts, asked, canceling, faults>>

-----------------------------------------------------------------------------
(* POST /attach and executeSwitch: a subscription of the customer that is  *)
(* active, and what the prices make of the switch.                         *)
Ask(a, r) ==
  /\ asked < MaxRequests /\ asked' = asked + 1
  /\ Active(r)
  /\ UNCHANGED <<subs, provider, echoes, entitled, lost, crossed, gaveUp, faults>>

AskDowngrade(a, r, plan) ==
  /\ Ask(a, r) /\ Rank[plan] < Rank[subs[r].plan]
  /\ Begin(a, "downgradeAsked", "schedule", r, plan, NoCode)
  /\ UNCHANGED <<checkouts, canceling>>

(* handleUpgrade: a checkout over the prorated difference, or none when it *)
(* is too small; from the free plan handleNewSubscription, at once with a  *)
(* card on file and through a checkout without.                            *)
AskUpgrade(a, r, plan) ==
  LET kind == IF Paid(subs[r].plan) THEN "upgrade" ELSE "newPaid"
      now  == IF Paid(subs[r].plan) THEN "upgradeNow" ELSE "newNow"
      step == IF Paid(subs[r].plan) THEN "cancelAtProvider" ELSE "bill"
  IN  /\ Ask(a, r) /\ Rank[plan] > Rank[subs[r].plan]
      /\ \/ /\ checkouts' = checkouts \cup
                 {[row |-> r, plan |-> plan, kind |-> kind, left |-> MaxDeliveries,
                   code |-> NoCode]}
            /\ UNCHANGED actor
         \/ /\ Begin(a, now, step, r, plan, NoCode)
            /\ UNCHANGED checkouts
      /\ UNCHANGED canceling

(* POST /subscriptions/cancel over a paid plan. *)
AskCancel(a, r, kind) ==
  /\ Ask(a, r) /\ Paid(subs[r].plan)
  /\ Begin(a, kind, "cancelAtProvider", r, NoPlan, NoCode)
  /\ canceling' = canceling \cup {subs[r].owner}
  /\ UNCHANGED checkouts

(* The customer cancels at the provider. *)
AskProvider(k) ==
  /\ asked < MaxRequests /\ asked' = asked + 1
  /\ provider[k].status = "active"
  /\ provider' = [provider EXCEPT ![k].status = "canceled"]
  /\ \E n \in 1..MaxDeliveries : echoes' = [echoes EXCEPT ![k] = n]
  /\ canceling' = canceling \cup {provider[k].owner}
  /\ UNCHANGED <<subs, checkouts, actor, entitled, lost, crossed, gaveUp, faults>>

-----------------------------------------------------------------------------
(* charge.success of an upgrade starts PlanUpgradeWorkflow, once for every *)
(* delivery; the handler does its work when it cannot be created.          *)
PayUpgrade(a, k) ==
  /\ k \in checkouts /\ k.kind = "upgrade" /\ k.left > 0
  /\ checkouts' = (checkouts \ {k}) \cup {[k EXCEPT !.left = @ - 1]}
  /\ \E kind \in {"upgrade"} \cup (IF "refuse" \in Faults THEN {"upgradeInline"} ELSE {}) :
       Begin(a, kind, "cancelAtProvider", k.row, k.plan, NoCode)
  /\ UNCHANGED <<subs, provider, echoes, entitled, asked, canceling, lost, crossed, gaveUp, faults>>

(* charge.success of a new subscription: the provider has made one.  The   *)
(* event may come again, and so it does, with the checkout's metadata, for *)
(* the renewals of some providers.                                         *)
PayNew(a, k, code) ==
  /\ k \in checkouts /\ k.kind = "newPaid" /\ k.left > 0
  /\ checkouts' = (checkouts \ {k}) \cup {[k EXCEPT !.left = @ - 1, !.code = code]}
  /\ IF k.code = NoCode
     THEN /\ provider[code].status = "none"
          /\ provider' = [provider EXCEPT ![code] =
               [status |-> "active", owner |-> subs[k.row].owner, plan |-> k.plan]]
     ELSE code = k.code /\ UNCHANGED provider
  /\ Begin(a, "newPaid", "find", k.row, k.plan, code)
  /\ UNCHANGED <<subs, echoes, entitled, asked, canceling, lost, crossed, gaveUp, faults>>

(* subscription.canceled: the row with that code, or one of the customer   *)
(* and plan that is active when no row has it.                             *)
DeliverCanceled(a, k) ==
  LET byCode == {r \in Rows : subs[r].code = k}
      byPlan == ActiveOf(provider[k].owner, provider[k].plan)
  IN  /\ echoes[k] > 0 /\ At(a, "idle")
      /\ echoes' = [echoes EXCEPT ![k] = @ - 1]
      /\ \/ \E r \in IF byCode # {} THEN byCode ELSE byPlan :
              Begin(a, "canceled", "cancelRow", r, NoPlan, k)
         \/ byCode = {} /\ byPlan = {} /\ UNCHANGED actor
      /\ UNCHANGED <<subs, provider, checkouts, entitled, asked, canceling, lost, crossed, gaveUp, faults>>

-----------------------------------------------------------------------------
(* The provider's cancellation, from which its event comes back to us.     *)
CancelAtProvider(a) ==
  LET code == actor[a].seen.code
  IN  /\ At(a, "cancelAtProvider")
      /\ IF code \in Codes /\ provider[code].status = "active"
         THEN \/ /\ provider' = [provider EXCEPT ![code].status = "canceled"]
                 /\ \E n \in 1..MaxDeliveries : echoes' = [echoes EXCEPT ![code] = n]
                 /\ UNCHANGED faults
              \/ /\ "refuse" \in Faults /\ faults < MaxFaults
                 /\ faults' = faults + 1
                 /\ UNCHANGED <<provider, echoes>>
         ELSE UNCHANGED <<provider, echoes, faults>>
      /\ Advance(a)
      /\ UNCHANGED <<subs, checkouts, entitled, asked, canceling, lost, crossed, gaveUp>>

(* status = 'canceled', whatever it was; the event also writes its code.   *)
(* What a switch has found or made may be canceled by another before it    *)
(* comes here.                                                             *)
CancelRow(a) ==
  /\ At(a, "cancelRow")
  /\ subs' = [subs EXCEPT ![actor[a].row].status = "canceled",
                          ![actor[a].row].code =
                            IF Kind(a) = "canceled" THEN actor[a].code ELSE @]
  /\ crossed' = IF Kind(a) \in {"newNow", "newPaid"} /\ subs[actor[a].new].status # "active"
                THEN crossed \cup {Customer(a)} ELSE crossed
  /\ Advance(a)
  /\ SameWorld /\ UNCHANGED <<provider, entitled, lost, gaveUp>>

(* Cancellation at the period's end; the workflow sleeps until then, or    *)
(* its creation raises, which is swallowed here and below.                 *)
ScheduleCancel(a) ==
  /\ At(a, "schedule") /\ Kind(a) = "cancelLater" /\ Revives(actor[a].row)
  /\ subs' = [subs EXCEPT ![actor[a].row].status = "active",
                          ![actor[a].row].cancelAt = TRUE]
  /\ \/ actor' = [actor EXCEPT ![a].kind = "cancelDowngrade", ![a].pc = "sleep"]
     \/ "refuse" \in Faults /\ End(a)
  /\ SameWorld /\ UNCHANGED <<provider, entitled, lost, crossed, gaveUp>>

(* handleDowngrade: active again, even if it was canceled meanwhile, with  *)
(* the metadata as it was read.                                            *)
ScheduleDowngrade(a) ==
  LET r == actor[a].row
  IN  /\ At(a, "schedule") /\ Kind(a) = "downgradeAsked" /\ Revives(r)
      /\ subs' = [subs EXCEPT ![r].status = "active", ![r].cancelAt = TRUE,
                              ![r].sched = TRUE, ![r].claimed = actor[a].seen.claimed]
      /\ lost' = IF subs[r].claimed /\ ~actor[a].seen.claimed THEN lost \cup {r} ELSE lost
      /\ crossed' = IF subs[r].status = "canceled" THEN crossed \cup {Customer(a)} ELSE crossed
      /\ \/ actor' = [actor EXCEPT ![a].kind = "downgrade", ![a].pc = "sleep"]
         \/ "refuse" \in Faults /\ End(a)
      /\ SameWorld /\ UNCHANGED <<provider, entitled, gaveUp>>

(* The end of the period. *)
Wake(a) ==
  /\ At(a, "sleep") /\ Goto(a, "verify")
  /\ SameWorld /\ UNCHANGED <<subs, provider, entitled, lost, crossed, gaveUp>>

(* verify-subscription-state *)
VerifyCancel(a) ==
  LET row == subs[actor[a].row]
  IN  /\ At(a, "verify") /\ Kind(a) = "cancelDowngrade"
      /\ IF (row.status = "active" /\ ~row.cancelAt) \/ row.claimed
         THEN End(a)
         ELSE actor' = [actor EXCEPT ![a].pc = "claim", ![a].seen = row]
      /\ SameWorld /\ UNCHANGED <<subs, provider, entitled, lost, crossed, gaveUp>>

(* check-downgrade-pending *)
VerifyDowngrade(a) ==
  LET row == subs[actor[a].row]
  IN  /\ At(a, "verify") /\ Kind(a) = "downgrade"
      /\ IF row.status = "canceled" \/ ~row.sched THEN End(a) ELSE Goto(a, "cancelRow")
      /\ SameWorld /\ UNCHANGED <<subs, provider, entitled, lost, crossed, gaveUp>>

\* Wrong: the flag is read, and set whatever it was.
ClaimUnchecked(a) ==
  LET r == actor[a].row
  IN  /\ At(a, "claim")
      /\ subs' = [subs EXCEPT ![r].claimed = TRUE]
      /\ Goto(a, "look")
      /\ SameWorld /\ UNCHANGED <<provider, entitled, lost, crossed, gaveUp>>

(* claimCancelDowngrade: one conditional UPDATE. *)
Claim(a) ==
  LET r == actor[a].row
  IN  /\ At(a, "claim")
      /\ IF subs[r].claimed
         THEN End(a) /\ UNCHANGED subs
         ELSE /\ subs' = [subs EXCEPT ![r].claimed = TRUE]
              /\ Goto(a, "look")
      /\ SameWorld /\ UNCHANGED <<provider, entitled, lost, crossed, gaveUp>>

(* An active free subscription of the customer is used again. *)
Look(a) ==
  /\ At(a, "look")
  /\ Goto(a, IF ActiveOf(Customer(a), Free) # {} THEN "provision" ELSE "insertFree")
  /\ SameWorld /\ UNCHANGED <<subs, provider, entitled, lost, crossed, gaveUp>>

InsertFree(a) ==
  /\ At(a, "insertFree")
  /\ \E r \in Rows :
       /\ subs[r].status = "none"
       /\ subs' = [subs EXCEPT ![r] =
            [Unused EXCEPT !.owner = Customer(a), !.status = "active", !.plan = Free,
                           !.origin = actor[a].row]]
  /\ Goto(a, "provision")
  /\ SameWorld /\ UNCHANGED <<provider, entitled, lost, crossed, gaveUp>>

(* The entitlements of the new plan take the place of the old one's. *)
Provision(a) ==
  /\ At(a, "provision")
  /\ entitled' = [entitled EXCEPT ![Customer(a)] =
       IF actor[a].plan = NoPlan THEN Free ELSE actor[a].plan]
  /\ Advance(a)
  /\ SameWorld /\ UNCHANGED <<subs, provider, lost, crossed, gaveUp>>

(* The claim is marked complete, over the metadata as it was read; the     *)
(* workflow writes the status again and leaves nothing else there.         *)
Mark(a) ==
  LET r == actor[a].row
  IN  /\ At(a, "mark")
      /\ subs' = IF Kind(a) = "cancelDowngrade"
                 THEN [subs EXCEPT ![r].status = "canceled", ![r].claimed = TRUE,
                                   ![r].sched = FALSE]
                 ELSE [subs EXCEPT ![r].claimed = TRUE, ![r].sched = actor[a].seen.sched]
      /\ End(a)
      /\ SameWorld /\ UNCHANGED <<provider, entitled, lost, crossed, gaveUp>>

-----------------------------------------------------------------------------
\* Wrong: any subscription of that plan will do, a canceled one as well.
FindAny(a) ==
  LET there == {r \in Rows : subs[r].owner = Customer(a) /\ subs[r].plan = actor[a].plan}
  IN  /\ At(a, "find")
      /\ \/ \E r \in there :
              actor' = [actor EXCEPT ![a].new = r, ![a].seen = subs[r], ![a].pc = After(a)]
         \/ there = {} /\ Goto(a, "insert")
      /\ SameWorld /\ UNCHANGED <<subs, provider, entitled, lost, crossed, gaveUp>>

(* create-...-subscription: one of that plan that is there already, or not *)
(* yet.                                                                    *)
Find(a) ==
  LET there == ActiveOf(Customer(a), actor[a].plan)
  IN  /\ At(a, "find")
      /\ \/ \E r \in there :
              actor' = [actor EXCEPT ![a].new = r, ![a].seen = subs[r], ![a].pc = After(a)]
         \/ there = {} /\ Goto(a, "insert")
      /\ SameWorld /\ UNCHANGED <<subs, provider, entitled, lost, crossed, gaveUp>>

NewCode(a) ==
  CASE Kind(a) \in {"upgrade", "upgradeInline"} -> "upgrade"
    [] Kind(a) = "downgrade" /\ actor[a].code = NoCode -> "downgrade"
    [] OTHER -> actor[a].code

Insert(a) ==
  /\ At(a, "insert") /\ ~Taken(NewCode(a))
  /\ \E r \in Rows :
       /\ subs[r].status = "none"
       /\ subs' = [subs EXCEPT ![r] =
            [Unused EXCEPT !.owner = Customer(a), !.status = "active",
                           !.plan = actor[a].plan, !.code = NewCode(a),
                           !.cancelAt = (Kind(a) = "upgradeNow" /\ actor[a].code = NoCode)]]
       /\ actor' = [actor EXCEPT ![a].new = r, ![a].seen = subs'[r], ![a].pc = After(a)]
  /\ SameWorld /\ UNCHANGED <<provider, entitled, lost, crossed, gaveUp>>

(* The unique index refuses the code: a workflow tries the step again from *)
(* its lookup and gives up in the end, a request ends with an error, and a *)
(* payment takes the row that has the code for its own.                    *)
InsertRefused(a) ==
  /\ At(a, "insert") /\ Taken(NewCode(a))
  /\ \/ Kind(a) \in {"upgrade", "downgrade"} /\ Goto(a, "find") /\ UNCHANGED gaveUp
     \/ /\ Kind(a) = "newPaid"
        /\ \E r \in Rows :
             /\ subs[r].owner = Customer(a) /\ subs[r].code = NewCode(a)
             /\ actor' = [actor EXCEPT ![a].new = r, ![a].pc = "reopen"]
        /\ UNCHANGED gaveUp
     \/ Kind(a) # "newPaid" /\ End(a) /\ gaveUp' = gaveUp \cup {Customer(a)}
  /\ SameWorld /\ UNCHANGED <<subs, provider, entitled, lost, crossed>>

(* handleSubscriptionPayment: the row is active, even if it was canceled   *)
(* meanwhile, with the metadata as it was read.                            *)
Renew(a) ==
  LET r == actor[a].new
  IN  /\ At(a, "renew") /\ Revives(r)
      /\ subs' = [subs EXCEPT ![r].status = "active", ![r].sched = actor[a].seen.sched,
                              ![r].claimed = actor[a].seen.claimed]
      /\ lost' = IF subs[r].claimed /\ ~actor[a].seen.claimed THEN lost \cup {r} ELSE lost
      /\ crossed' = IF subs[r].status = "canceled" THEN crossed \cup {Customer(a)} ELSE crossed
      /\ Goto(a, After(a))
      /\ SameWorld /\ UNCHANGED <<provider, entitled, gaveUp>>

(* The payment that lost the race of the INSERT. *)
Reopen(a) ==
  LET r == actor[a].new
  IN  /\ At(a, "reopen") /\ Revives(r)
      /\ subs' = [subs EXCEPT ![r].status = "active"]
      /\ crossed' = IF subs[r].status = "canceled" THEN crossed \cup {Customer(a)} ELSE crossed
      /\ Goto(a, After(a))
      /\ SameWorld /\ UNCHANGED <<provider, entitled, lost, gaveUp>>

(* The unique index refuses to make the row active again. *)
ReviveRefused(a) ==
  /\ \/ (At(a, "renew") \/ At(a, "reopen")) /\ ~Revives(actor[a].new)
     \/ At(a, "schedule") /\ ~Revives(actor[a].row)
  /\ End(a) /\ gaveUp' = gaveUp \cup {Customer(a)}
  /\ SameWorld /\ UNCHANGED <<subs, provider, entitled, lost, crossed>>

(* load-upgraded-subscription-state; the handler has the row it found. *)
Load(a) ==
  /\ At(a, "load")
  /\ actor' = [actor EXCEPT ![a].seen = subs[actor[a].new], ![a].pc = After(a)]
  /\ SameWorld /\ UNCHANGED <<subs, provider, entitled, lost, crossed, gaveUp>>

(* needsProviderSubscriptionLink, of the row as it was loaded: the code    *)
(* of a downgrade counts as linked.                                        *)
NeedsLink(a) == actor[a].seen.code \in {"upgrade", NoCode}

(* createSubscription at the provider, for a paid plan whose row has no    *)
(* subscription there; it may be refused, and handleNewSubscription then   *)
(* falls back to a checkout.                                               *)
Bill(a) ==
  LET needed == Kind(a) \in {"upgrade", "upgradeInline"} => NeedsLink(a)
  IN  /\ At(a, "bill")
      /\ \/ /\ Paid(actor[a].plan) /\ needed
            /\ \E k \in Codes :
                 /\ provider[k].status = "none"
                 /\ provider' = [provider EXCEPT ![k] =
                      [status |-> "active", owner |-> Customer(a), plan |-> actor[a].plan]]
                 /\ actor' = [actor EXCEPT ![a].code = k, ![a].pc = After(a)]
            /\ UNCHANGED checkouts
         \/ /\ IF Kind(a) = "newNow"
               THEN /\ checkouts' = checkouts \cup {[row |-> actor[a].row,
                         plan |-> actor[a].plan, kind |-> "newPaid", left |-> MaxDeliveries,
                         code |-> NoCode]}
                    /\ End(a)
               ELSE UNCHANGED checkouts /\ Goto(a, After(a))
            /\ UNCHANGED provider
      /\ UNCHANGED <<subs, echoes, entitled, asked, canceling, lost, crossed, gaveUp, faults>>

(* finalize-upgraded-subscription: the code as it was decided at the load, *)
(* and metadata that comes back as text and counts as none.                *)
Link(a) ==
  LET r == actor[a].new
      unbilled == NeedsLink(a) /\ actor[a].code = NoCode
  IN  /\ At(a, "link") /\ Kind(a) = "upgrade"
      /\ subs' = [subs EXCEPT ![r].code = IF NeedsLink(a) THEN actor[a].code ELSE actor[a].seen.code,
                              ![r].cancelAt = unbilled,
                              ![r].sched = FALSE, ![r].claimed = FALSE]
      /\ lost' = IF subs[r].claimed THEN lost \cup {r} ELSE lost
      /\ Goto(a, After(a))
      /\ SameWorld /\ UNCHANGED <<provider, entitled, crossed, gaveUp>>

(* handlePlanUpgradeInline: a linked row is left alone, and metadata is    *)
(* written, as it was read, over a row without subscription only.          *)
LinkInline(a) ==
  LET r == actor[a].new
      seen == actor[a].seen
      unbilled == NeedsLink(a) /\ actor[a].code = NoCode
  IN  /\ At(a, "link") /\ Kind(a) = "upgradeInline"
      /\ subs' = IF NeedsLink(a)
                 THEN [subs EXCEPT ![r].code = actor[a].code, ![r].cancelAt = unbilled,
                                   ![r].sched = IF unbilled THEN seen.sched ELSE @,
                                   ![r].claimed = IF unbilled THEN seen.claimed ELSE @]
                 ELSE subs
      /\ lost' = IF unbilled /\ subs[r].claimed /\ ~seen.claimed THEN lost \cup {r} ELSE lost
      /\ Goto(a, After(a))
      /\ SameWorld /\ UNCHANGED <<provider, entitled, crossed, gaveUp>>

(* A request or a delivery ends midway, or a workflow runs out of retries. *)
Die(a) ==
  /\ "die" \in Faults /\ faults < MaxFaults
  /\ ~At(a, "idle") /\ ~At(a, "sleep")
  /\ faults' = faults + 1
  /\ End(a)
  /\ UNCHANGED <<subs, provider, echoes, checkouts, entitled, asked, canceling, lost, crossed, gaveUp>>

Work(a) ==
  \/ CancelAtProvider(a) \/ CancelRow(a) \/ ScheduleCancel(a) \/ ScheduleDowngrade(a)
  \/ Wake(a) \/ VerifyCancel(a) \/ VerifyDowngrade(a)
  \/ Claim(a) \/ Look(a) \/ InsertFree(a) \/ Provision(a) \/ Mark(a)
  \/ Find(a) \/ Insert(a) \/ InsertRefused(a) \/ Renew(a) \/ Reopen(a) \/ ReviveRefused(a)
  \/ Load(a) \/ Bill(a) \/ Link(a) \/ LinkInline(a)

Next ==
  \/ \E a \in Actors :
       \/ \E r \in Rows, plan \in Plans : AskDowngrade(a, r, plan) \/ AskUpgrade(a, r, plan)
       \/ \E r \in Rows, kind \in {"cancelNow", "cancelLater"} : AskCancel(a, r, kind)
       \/ \E k \in checkouts : PayUpgrade(a, k) \/ \E code \in Codes : PayNew(a, k, code)
       \/ \E k \in Codes : DeliverCanceled(a, k)
       \/ Work(a) \/ Die(a)
  \/ \E k \in Codes : AskProvider(k)

Spec == Init /\ [][Next]_vars

-----------------------------------------------------------------------------
(* However webhooks, the dashboard and the workflows race over one         *)
(* cancellation, it makes at most one free subscription, unless the claim  *)
(* was written over with old metadata: by handleDowngrade, by the renewal  *)
(* in handleSubscriptionPayment, or at the end of an upgrade.              *)
OneFreePerCancellation ==
  \A f, g \in Rows :
    /\ subs[f].origin # NoRow /\ subs[f].origin = subs[g].origin
    /\ subs[f].origin \notin lost
    => f = g

Quiet == \A a \in Actors : At(a, "idle")
HasPlan(c) == \E r \in Rows : Active(r) /\ subs[r].owner = c

(* Switching alone never leaves a customer without a subscription once     *)
(* nobody works any more and nothing failed, however upgrades, downgrades, *)
(* payments and their repeats overlap, unless a write met the index, a     *)
(* downgrade or a payment made a canceled subscription active again, or    *)
(* what a payment brought was switched away from before its handler        *)
(* canceled the old one.                                                   *)
PlanNeverLost ==
  Quiet /\ faults = 0 => \A c \in Customers \ (gaveUp \cup canceling \cup crossed) : HasPlan(c)

(* Entitlements never come before their subscription: whatever fails in    *)
(* between, a customer that has those of a plan has had that plan.         *)
EntitledWasHeld ==
  \A c \in Customers : \E r \in Rows : subs[r].owner = c /\ subs[r].plan = entitled[c]
=============================================================================
