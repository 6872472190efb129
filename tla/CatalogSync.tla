---------------------------- MODULE CatalogSync ----------------------------
(***************************************************************************)
(* One item of the catalog and what the payment provider knows of it: a    *)
(* paid recurring plan (apps/api/src/lib/plan-sync.ts,                     *)
(* plan-provider-sync.ts) or a credit pack (credit-pack-sync.ts,           *)
(* credit-pack-provider-sync.ts).  The CLI's sync, the dashboard, the      *)
(* connection of a provider and checkouts each read the row, call the      *)
(* provider and write its id back.  An action is one such step.            *)
(***************************************************************************)
EXTENDS Integers, FiniteSets, Sequences

CONSTANTS
  Prices,      \* what an item may cost
  TooSmall,    \* prices below the provider's minimum charge
  Providers,
  Default,     \* the provider that the routing rules choose
  Rotating,    \* those where a new price is a new object (Stripe)
  Bare,        \* those without products for credit packs (Paystack)
  None,        \* no provider chosen, no object yet
  Actors,      \* requests at work at a time
  MaxObjects,  \* bound on the objects made at the providers
  MaxStarts,   \* bound on the requests
  MaxMishaps    \* bound on calls refused and requests that die

ASSUME CatalogAssumption ==
  /\ TooSmall \subseteq Prices /\ Rotating \cup Bare \subseteq Providers /\ Default \in Providers
  /\ None \notin Providers \cup Nat
  /\ MaxObjects \in Nat \ {0} /\ {MaxStarts, MaxMishaps} \subseteq Nat

VARIABLES
  kind,     \* "plan" or "pack"
  item,      \* price, provider and the id of the provider's object
  objects,  \* plans or products at the providers, by id
  act,      \* the requests
  linked,   \* ids the row has carried
  sold,     \* ids that a checkout was opened with
  apart,    \* row and object may differ for good: see Slip and Crossing
  starts, mishaps

catalogVars == <<kind, item, objects, act, linked, sold, apart, starts, mishaps>>

Refs == 1..MaxObjects
Item == [price : Prices, provider : Providers \cup {None}, ref : Refs \cup {None}]
Object == [price : Prices, provider : Providers]
Ops == {"none", "sync", "patch", "connect", "buy"}
Editors == {"sync", "patch"}
Steps == {"idle", "write", "fresh", "call", "link", "claim", "winner"}
Request == [op : Ops, pc : Steps, price : Prices \cup {None}, provider : Providers \cup {None},
            seen : Item \cup {None}, ref : Refs \cup {None}, force : BOOLEAN]

CatalogTypeOK ==
  /\ kind \in {"plan", "pack"} /\ item \in Item
  /\ objects \in Seq(Object) /\ Len(objects) \in 0..MaxObjects
  /\ act \in [Actors -> Request]
  /\ linked \subseteq Refs /\ sold \subseteq Refs
  /\ apart \in BOOLEAN /\ starts \in 0..MaxStarts /\ mishaps \in 0..MaxMishaps

Idle == [op |-> "none", pc |-> "idle", price |-> None, provider |-> None, seen |-> None,
         ref |-> None, force |-> FALSE]

(* A paid item, not yet known to a provider or with an object there.       *)
CatalogInit ==
  /\ kind \in {"plan", "pack"}
  /\ \E price \in Prices \ TooSmall, p \in Providers \cup {None} :
       \/ item = [price |-> price, provider |-> p, ref |-> None] /\ objects = <<>> /\ linked = {}
       \/ /\ p \in (IF kind = "pack" THEN Providers \ Bare ELSE Providers)
          /\ item = [price |-> price, provider |-> p, ref |-> 1]
          /\ objects = <<[price |-> price, provider |-> p]>> /\ linked = {1}
  /\ act = [a \in Actors |-> Idle]
  /\ sold = {} /\ apart = FALSE /\ starts = 0 /\ mishaps = 0

-----------------------------------------------------------------------------
(* resolveProviderTarget: the provider asked for, or the rules' choice.    *)
Target(p) == IF p = None THEN Default ELSE p

At(a, step) == act[a].pc = step
Occupied(a) == act[a].pc # "idle"
OthersOccupied(a) == \E b \in Actors \ {a} : Occupied(b)
Become(a, r) == act' = [act EXCEPT ![a] = r]
Finish(a) == Become(a, Idle)

(* An edit whose call does not reach the provider leaves the row without a *)
(* provider's object, to be made later, or else with an old one.           *)
Slip(a) == apart' = (apart \/ item.ref # None \/ OthersOccupied(a))

(* Two edits at once overwrite each other; and the dashboard's edit of a   *)
(* plan without an object makes none, so that a request that read the old  *)
(* price may still link its own.                                           *)
Crossing(a, op) ==
  \E b \in Actors \ {a} :
    \/ op \in Editors /\ act[b].op \in Editors
    \/ kind = "plan" /\ Occupied(b) /\ "patch" \in {op, act[b].op}

Enter(a, op, step, price, p) ==
  /\ ~Occupied(a) /\ starts < MaxStarts /\ starts' = starts + 1
  /\ Become(a, [op |-> op, pc |-> step, price |-> price, provider |-> p, seen |-> item,
                ref |-> None, force |-> FALSE])
  /\ apart' = (apart \/ Crossing(a, op))
  /\ UNCHANGED <<kind, item, objects, linked, sold, mishaps>>

(* POST /sync with the provider the catalog names, its default or the row's. *)
Sync(a, price, p) == Enter(a, "sync", "write", price, IF p = None THEN item.provider ELSE p)

(* PATCH of a plan never names a provider; that of a pack may.             *)
Patch(a, price, p) ==
  /\ kind = "plan" => p = None
  /\ Enter(a, "patch", "write", price, p)

(* A provider is connected, or its plans are synchronized by hand.         *)
Connect(a, p) ==
  /\ kind = "plan" /\ item.ref = None
  /\ Enter(a, "connect", "fresh", item.price, p)

Buy(a) ==
  LET p == Target(item.provider)
  IN  \/ /\ item.ref = None /\ (kind = "pack" => p \notin Bare)
         /\ Enter(a, "buy", "fresh", item.price, p)
      \/ /\ item.ref # None /\ ~Occupied(a) /\ sold' = sold \cup {item.ref}
         /\ UNCHANGED <<kind, item, objects, act, linked, apart, starts, mishaps>>

-----------------------------------------------------------------------------
(* The edit reaches the row; what the request does next follows from the   *)
(* row it read before.  A plan's new price below the minimum is not taken, *)
(* though its new provider is.                                             *)
WritePlanSync(a) ==
  LET r == act[a]
      changed == r.price # r.seen.price
      refused == r.price \in TooSmall /\ r.provider # None
  IN  /\ At(a, "write") /\ kind = "plan" /\ r.op = "sync"
      /\ item' = IF ~changed THEN item
                ELSE [item EXCEPT !.provider = r.provider, !.price = IF refused THEN @ ELSE r.price]
      /\ apart' = (apart \/ (changed /\ item.ref # None /\ r.provider # item.provider))
      /\ IF changed /\ refused THEN Finish(a)
         ELSE Become(a, [r EXCEPT !.pc = "call", !.ref = r.seen.ref, !.force = changed])
      /\ UNCHANGED <<kind, objects, linked, sold, starts, mishaps>>

WritePlanPatch(a) ==
  LET r == act[a]
  IN  /\ At(a, "write") /\ kind = "plan" /\ r.op = "patch"
      /\ item' = [item EXCEPT !.price = r.price]
      /\ IF item.ref # None /\ item.provider # None
         THEN Become(a, [r EXCEPT !.pc = "call", !.provider = item.provider, !.ref = item.ref,
                                  !.force = TRUE])
         ELSE Finish(a)
      /\ UNCHANGED <<kind, objects, linked, sold, apart, starts, mishaps>>

(* A patch that names no provider leaves the row's.                        *)
Named(r) == r.op = "sync" \/ r.provider # None
Changed(r) == r.price # r.seen.price \/ (Named(r) /\ r.provider # r.seen.provider)

(* A changed pack gives up its product, and gets another.                  *)
ProductAfter(r) == IF Changed(r) THEN None ELSE item.ref

WritePack(a) ==
  LET r == act[a]
      p == IF Named(r) THEN r.provider ELSE item.provider
      ref == IF r.op = "sync" THEN r.seen.ref ELSE item.ref
  IN  /\ At(a, "write") /\ kind = "pack"
      /\ item' = IF r.op = "sync" /\ ~Changed(r) THEN item
                ELSE [price |-> r.price, ref |-> ProductAfter(r), provider |-> p]
      /\ IF Changed(r) THEN Become(a, [r EXCEPT !.provider = p, !.pc = "call", !.force = TRUE])
         ELSE IF ref # None THEN Finish(a)
         ELSE Become(a, [r EXCEPT !.provider = p, !.pc = IF Target(p) \in Bare THEN "call" ELSE "fresh"])
      /\ UNCHANGED <<kind, objects, linked, sold, apart, starts, mishaps>>

-----------------------------------------------------------------------------
(* The id is read again before an object is made for the first time.       *)
Known(r) == item.ref # None /\ (kind = "pack" => item.provider = Target(r.provider))

Fresh(a) ==
  LET r == act[a]
      known == Known(r)
  IN  /\ At(a, "fresh")
      /\ \/ ~known /\ Become(a, [r EXCEPT !.pc = "call"]) /\ UNCHANGED sold
         \/ known /\ r.op = "connect" /\ Finish(a) /\ UNCHANGED sold
         \/ known /\ kind = "plan" /\ r.op = "buy" /\ Finish(a) /\ sold' = sold \cup {item.ref}
         \/ /\ known /\ kind = "pack" /\ UNCHANGED sold
            /\ Become(a, [r EXCEPT !.ref = item.ref, !.pc = IF r.op = "buy" THEN "claim" ELSE "link"])
      /\ UNCHANGED <<kind, item, objects, linked, apart, starts, mishaps>>

Made(a) == [act[a] EXCEPT !.ref = Len(objects) + 1,
                          !.pc = IF act[a].op \in Editors THEN "link" ELSE "claim"]

Create(a) ==
  LET r == act[a]  p == Target(r.provider)
  IN  /\ At(a, "call") /\ Len(objects) < MaxObjects
      /\ \/ kind = "plan" /\ r.ref = None /\ (r.op \in Editors => r.price \notin TooSmall)
         \/ kind = "pack" /\ p \notin Bare
      /\ objects' = Append(objects, [price |-> r.price, provider |-> p])
      /\ Become(a, Made(a))
      /\ UNCHANGED <<kind, item, linked, sold, apart, starts, mishaps>>

(* updatePlan changes the plan in place, or makes one where prices are     *)
(* fixed.                                                                  *)
RequiresNewPrice(r, p) == p \in Rotating /\ objects[r.ref].price # r.price

UpdateObject(a) ==
  LET r == act[a]  p == Target(r.provider)  new == [price |-> r.price, provider |-> p]
  IN  /\ At(a, "call") /\ kind = "plan" /\ r.ref # None /\ r.force
      /\ r.price \notin TooSmall /\ objects[r.ref].provider = p
      /\ \/ /\ RequiresNewPrice(r, p) /\ Len(objects) < MaxObjects
            /\ objects' = Append(objects, new) /\ Become(a, Made(a))
         \/ /\ ~RequiresNewPrice(r, p)
            /\ objects' = [objects EXCEPT ![r.ref] = new] /\ Finish(a)
      /\ UNCHANGED <<kind, item, linked, sold, apart, starts, mishaps>>

(* Nothing to ask the provider for: the plan is as it was, or its price is *)
(* below the minimum; or the provider knows no packs.                      *)
Skip(a) ==
  LET r == act[a]
  IN  /\ At(a, "call") /\ r.op \in Editors
      /\ \/ /\ kind = "plan" /\ r.price \in TooSmall /\ Finish(a) /\ Slip(a)
         \/ /\ kind = "plan" /\ r.price \notin TooSmall /\ r.ref # None /\ ~r.force
            /\ Finish(a) /\ UNCHANGED apart
         \/ /\ kind = "pack" /\ Target(r.provider) \in Bare
            /\ IF r.provider = None THEN Become(a, [r EXCEPT !.pc = "link"]) ELSE Finish(a)
            /\ Slip(a)
      /\ UNCHANGED <<kind, item, objects, linked, sold, starts, mishaps>>

(* The provider refuses; it always does when the id is another provider's. *)
Refuse(a) ==
  LET r == act[a]
      foreign == /\ kind = "plan" /\ r.ref # None /\ r.force /\ r.price \notin TooSmall
                 /\ objects[r.ref].provider # Target(r.provider)
  IN  /\ At(a, "call")
      /\ \/ foreign /\ UNCHANGED mishaps
         \/ ~foreign /\ mishaps < MaxMishaps /\ mishaps' = mishaps + 1
      /\ Finish(a)
      /\ IF r.op \in Editors THEN Slip(a) ELSE UNCHANGED apart
      /\ UNCHANGED <<kind, item, objects, linked, sold, starts>>

\* Wrong: an edit gives way to an object that a checkout made meanwhile.
LinkUnlessLinked(a) ==
  LET r == act[a]
  IN  /\ At(a, "link")
      /\ item' = IF item.ref # None THEN item ELSE [item EXCEPT !.ref = r.ref, !.provider = Target(r.provider)]
      /\ linked' = linked \cup ({item'.ref} \ {None})
      /\ Finish(a)
      /\ UNCHANGED <<kind, objects, sold, apart, starts, mishaps>>

(* An edit links its object whatever the row has become.                   *)
Link(a) ==
  LET r == act[a]
  IN  /\ At(a, "link")
      /\ item' = [item EXCEPT !.ref = r.ref,
                            !.provider = IF kind = "plan" /\ r.op = "patch" THEN @ ELSE Target(r.provider)]
      /\ linked' = linked \cup ({r.ref} \ {None})
      /\ Finish(a)
      /\ UNCHANGED <<kind, objects, sold, apart, starts, mishaps>>

\* Wrong: a checkout that lost the race goes on with its own object.
SellsOwn(a) ==
  LET r == act[a]
  IN  /\ At(a, "claim") /\ item.ref # None
      /\ sold' = IF r.op = "buy" THEN sold \cup {r.ref} ELSE sold
      /\ Finish(a)
      /\ UNCHANGED <<kind, item, objects, linked, apart, starts, mishaps>>

(* The others link theirs only if there is none.                           *)
Claim(a) ==
  LET r == act[a]
  IN  /\ At(a, "claim") /\ item.ref = None
      /\ item' = [item EXCEPT !.ref = r.ref, !.provider = Target(r.provider)]
      /\ linked' = linked \cup {r.ref}
      /\ sold' = IF r.op = "buy" THEN sold \cup {r.ref} ELSE sold
      /\ Finish(a)
      /\ UNCHANGED <<kind, objects, apart, starts, mishaps>>

LoseClaim(a) ==
  LET r == act[a]
  IN  /\ At(a, "claim") /\ item.ref # None
      /\ IF r.op = "buy" THEN Become(a, [r EXCEPT !.pc = "winner"]) ELSE Finish(a)
      /\ UNCHANGED <<kind, item, objects, linked, sold, apart, starts, mishaps>>

(* It sells the object that won, if it is still there.                     *)
Winner(a) ==
  /\ At(a, "winner")
  /\ sold' = sold \cup ({item.ref} \ {None})
  /\ Finish(a)
  /\ UNCHANGED <<kind, item, objects, linked, apart, starts, mishaps>>

Die(a) ==
  /\ Occupied(a) /\ mishaps < MaxMishaps /\ mishaps' = mishaps + 1
  /\ Finish(a)
  /\ IF act[a].op \in Editors /\ ~At(a, "write") THEN Slip(a) ELSE UNCHANGED apart
  /\ UNCHANGED <<kind, item, objects, linked, sold, starts>>

CatalogNext ==
  \E a \in Actors :
    \/ \E price \in Prices, p \in Providers \cup {None} : Sync(a, price, p) \/ Patch(a, price, p)
    \/ \E p \in Providers : Connect(a, p)
    \/ Buy(a)
    \/ WritePlanSync(a) \/ WritePlanPatch(a) \/ WritePack(a)
    \/ Fresh(a) \/ Create(a) \/ UpdateObject(a) \/ Skip(a) \/ Refuse(a)
    \/ Link(a) \/ Claim(a) \/ LoseClaim(a) \/ Winner(a) \/ Die(a)

CatalogSpec == CatalogInit /\ [][CatalogNext]_catalogVars

-----------------------------------------------------------------------------
(* Once nobody is at work, the provider charges the price the catalog      *)
(* shows: checkouts and connections that race an edit with the old price   *)
(* never have the last word.  Exempt are the edits that did not get        *)
(* through and those that crossed, see Slip and Crossing (sync.ts:334,     *)
(* credit-packs.ts:323, plan-sync.ts:116).                                 *)
PricedAsListed ==
  /\ \A a \in Actors : ~Occupied(a)
  /\ item.ref # None /\ ~apart
  => objects[item.ref] = [price |-> item.price, provider |-> item.provider]

(* A checkout never opens with an object the row has not carried: the one  *)
(* that lost the race to make it takes the winner's (plan-sync.ts:213,     *)
(* credit-pack-sync.ts:97).                                                *)
SoldWasLinked == sold \subseteq linked
=============================================================================
