--------------------------- MODULE CreditPurchase ---------------------------
(***************************************************************************)
(* Credit packs of one customer, from the paid checkout to the balance     *)
(* (apps/api/src/lib/webhooks/handlers/charge-success.ts), next to the     *)
(* requests that spend it (lib/addon-credits.ts).  The provider delivers   *)
(* charge.success until it is answered, and may deliver it again at any    *)
(* time; deliveries of one payment run concurrently.  An action is one     *)
(* statement of the database.                                              *)
(***************************************************************************)
EXTENDS Integers, FiniteSets, FiniteSetsExt

CONSTANTS
  Payments,      \* payment references of the customer's checkouts
  Systems,       \* credit systems
  SystemOf,      \* the credit system of the pack that a payment buys
  PackCredits,   \* credits of one pack
  MaxQuantity,   \* bound on the packs of one checkout
  Deliveries,    \* deliveries the API handles at a time
  NoPayment,     \* a delivery slot that is free
  Mishaps,        \* subset of {"die", "raise"}
  MaxMishaps,     \* bound on the mishaps
  MaxRepeats,    \* bound on the deliveries of an answered event
  MaxSpend       \* bound on the credits spent in a system

ASSUME CreditAssumption ==
  /\ IsFiniteSet(Payments) /\ NoPayment \notin Payments
  /\ SystemOf \in [Payments -> Systems]
  /\ PackCredits \in Nat \ {0} /\ MaxQuantity \in Nat \ {0}
  /\ Mishaps \subseteq {"die", "raise"}
  /\ {MaxMishaps, MaxRepeats, MaxSpend} \subseteq Nat

VARIABLES
  quantity,   \* packs paid for; 0 before the checkout is paid
  answered,   \* payments whose event was answered with 200
  swallowed,  \* those answered although their handler raised
  purchase,   \* credit_purchases by payment_reference: status and credits
  ledger,     \* payments of credit_balance_ledger, unique by purchase_id
  balance,    \* credit_system_balances.balance
  spent,      \* credits deducted so far
  stage,      \* the next statement of a delivery
  event,      \* the payment a delivery is about
  mishaps, repeats

purchaseVars == <<quantity, answered, swallowed, purchase, ledger, balance, spent, stage, event,
                  mishaps, repeats>>

Status == {"none", "pending", "completed"}
Steps == {"idle", "claim", "read", "append", "recompute", "complete"}
NoRow == [status |-> "none", credits |-> 0]

PurchaseTypeOK ==
  /\ quantity \in [Payments -> 0..MaxQuantity]
  /\ answered \subseteq Payments /\ swallowed \subseteq answered
  /\ purchase \in [Payments -> [status : Status, credits : Nat]]
  /\ ledger \subseteq Payments
  /\ balance \in [Systems -> Nat] /\ spent \in [Systems -> Nat]
  /\ stage \in [Deliveries -> Steps]
  /\ event \in [Deliveries -> Payments \cup {NoPayment}]
  /\ \A d \in Deliveries : stage[d] = "idle" <=> event[d] = NoPayment
  /\ mishaps \in 0..MaxMishaps /\ repeats \in 0..MaxRepeats

PurchaseInit ==
  /\ quantity = [p \in Payments |-> 0]
  /\ answered = {} /\ swallowed = {}
  /\ purchase = [p \in Payments |-> NoRow]
  /\ ledger = {}
  /\ balance = [s \in Systems |-> 0] /\ spent = [s \in Systems |-> 0]
  /\ stage = [d \in Deliveries |-> "idle"]
  /\ event = [d \in Deliveries |-> NoPayment]
  /\ mishaps = 0 /\ repeats = 0

-----------------------------------------------------------------------------
Paid(p) == quantity[p] > 0

(* resolvedQuantity is the provider's line item, which the customer may    *)
(* have changed on the checkout page; the metadata says what was asked.    *)
CreditsOf(p) == PackCredits * quantity[p]

InSystem(P, s) == {p \in P : SystemOf[p] = s}
Granted(P, s) == MapThenSumSet(LAMBDA p : purchase[p].credits, InSystem(P, s))

At(d, step) == stage[d] = step
Proceed(d, step) == stage' = [stage EXCEPT ![d] = step]
Same == UNCHANGED <<quantity, answered, swallowed, mishaps, repeats, spent, event>>

(* The request is answered with 200, whether its handler returned or not.  *)
Answer(d) ==
  /\ answered' = answered \cup {event[d]}
  /\ stage' = [stage EXCEPT ![d] = "idle"]
  /\ event' = [event EXCEPT ![d] = NoPayment]

-----------------------------------------------------------------------------
(* The customer pays a checkout for n packs. *)
Pay(p, n) ==
  /\ ~Paid(p)
  /\ quantity' = [quantity EXCEPT ![p] = n]
  /\ UNCHANGED <<answered, swallowed, purchase, ledger, balance, spent, stage, event, mishaps,
                 repeats>>

(* The provider delivers an event until it is answered, and sometimes      *)
(* after that.                                                             *)
Deliver(d, p) ==
  /\ Paid(p) /\ At(d, "idle")
  /\ IF p \in answered
     THEN repeats < MaxRepeats /\ repeats' = repeats + 1
     ELSE UNCHANGED repeats
  /\ event' = [event EXCEPT ![d] = p]
  /\ Proceed(d, "claim")
  /\ UNCHANGED <<quantity, answered, swallowed, purchase, ledger, balance, spent, mishaps>>

(* INSERT ... ON CONFLICT (payment_reference) DO NOTHING RETURNING *)
Claim(d) ==
  LET p == event[d]
  IN  /\ At(d, "claim")
      /\ IF purchase[p].status = "none"
         THEN /\ purchase' = [purchase EXCEPT ![p] =
                    [status |-> "pending", credits |-> CreditsOf(p)]]
              /\ Proceed(d, "append")
         ELSE /\ UNCHANGED purchase
              /\ Proceed(d, "read")
      /\ Same /\ UNCHANGED <<ledger, balance>>

\* Wrong: whoever loses the claim leaves the purchase to the winner.
ReadGivesUp(d) ==
  /\ At(d, "read")
  /\ Answer(d)
  /\ UNCHANGED <<quantity, swallowed, purchase, ledger, balance, spent, mishaps, repeats>>

(* The purchase that is there already: done, or claimed and not applied. *)
Read(d) ==
  /\ At(d, "read")
  /\ \/ /\ purchase[event[d]].status = "completed"
        /\ Answer(d)
     \/ /\ purchase[event[d]].status = "pending"
        /\ Proceed(d, "append")
        /\ UNCHANGED <<answered, event>>
  /\ UNCHANGED <<quantity, swallowed, purchase, ledger, balance, spent, mishaps, repeats>>

(* INSERT INTO credit_balance_ledger ... ON CONFLICT (purchase_id) *)
Append(d) ==
  /\ At(d, "append")
  /\ ledger' = ledger \cup {event[d]}
  /\ Proceed(d, "recompute")
  /\ Same /\ UNCHANGED <<purchase, balance>>

\* Wrong: topUpScopedBalance, which adds the credits once more on a retry.
RecomputeTopsUp(d) ==
  LET s == SystemOf[event[d]]
  IN  /\ At(d, "recompute")
      /\ balance' = [balance EXCEPT ![s] = @ + purchase[event[d]].credits]
      /\ Proceed(d, "complete")
      /\ Same /\ UNCHANGED <<purchase, ledger>>

\* Wrong: the balance of this purchase alone.
RecomputeOwn(d) ==
  LET s == SystemOf[event[d]]
  IN  /\ At(d, "recompute")
      /\ balance' = [balance EXCEPT ![s] = purchase[event[d]].credits]
      /\ Proceed(d, "complete")
      /\ Same /\ UNCHANGED <<purchase, ledger>>

(* SELECT SUM(amount) ... DO UPDATE SET balance = excluded.balance *)
Recompute(d) ==
  LET s == SystemOf[event[d]]
  IN  /\ At(d, "recompute")
      /\ balance' = [balance EXCEPT ![s] = Granted(ledger, s)]
      /\ Proceed(d, "complete")
      /\ Same /\ UNCHANGED <<purchase, ledger>>

(* UPDATE credit_purchases SET status = 'completed' *)
Complete(d) ==
  /\ At(d, "complete")
  /\ purchase' = [purchase EXCEPT ![event[d]].status = "completed"]
  /\ Answer(d)
  /\ UNCHANGED <<quantity, swallowed, ledger, balance, spent, mishaps, repeats>>

(* A statement raises: WebhookHandler.handle returns an error, the route   *)
(* logs it and answers 200 all the same.                                   *)
Raise(d) ==
  /\ "raise" \in Mishaps /\ mishaps < MaxMishaps
  /\ ~At(d, "idle")
  /\ mishaps' = mishaps + 1
  /\ swallowed' = swallowed \cup {event[d]}
  /\ Answer(d)
  /\ UNCHANGED <<quantity, purchase, ledger, balance, spent, repeats>>

(* The request ends between two statements, and nothing is answered. *)
Die(d) ==
  /\ "die" \in Mishaps /\ mishaps < MaxMishaps
  /\ ~At(d, "idle")
  /\ mishaps' = mishaps + 1
  /\ stage' = [stage EXCEPT ![d] = "idle"]
  /\ event' = [event EXCEPT ![d] = NoPayment]
  /\ UNCHANGED <<quantity, answered, swallowed, purchase, ledger, balance, spent, repeats>>

(* deductScopedBalance, called by /track and /check: one guarded UPDATE. *)
Spend(s, n) ==
  /\ balance[s] >= n /\ spent[s] + n <= MaxSpend
  /\ balance' = [balance EXCEPT ![s] = @ - n]
  /\ spent' = [spent EXCEPT ![s] = @ + n]
  /\ UNCHANGED <<quantity, answered, swallowed, purchase, ledger, stage, event, mishaps, repeats>>

Handle(d) == Claim(d) \/ Read(d) \/ Append(d) \/ Recompute(d) \/ Complete(d)

PurchaseNext ==
  \/ \E p \in Payments, n \in 1..MaxQuantity : Pay(p, n)
  \/ \E d \in Deliveries : \/ \E p \in Payments : Deliver(d, p)
                           \/ Handle(d) \/ Raise(d) \/ Die(d)
  \/ \E s \in Systems, n \in 1..MaxSpend : Spend(s, n)

PurchaseSpec == PurchaseInit /\ [][PurchaseNext]_purchaseVars

(* A statement is answered, and the provider repeats what was not. *)
Redeliver(p) == p \notin answered /\ \E d \in Deliveries : Deliver(d, p)
PurchaseFairSpec ==
  /\ PurchaseSpec
  /\ \A d \in Deliveries : WF_purchaseVars(Handle(d))
  /\ \A p \in Payments : SF_purchaseVars(Redeliver(p))

-----------------------------------------------------------------------------
PaidFor(P, s) == PackCredits * MapThenSumSet(LAMBDA p : quantity[p], InSystem(P, s))
Completed == {p \in Payments : purchase[p].status = "completed"}

(* Every pack of a purchase that is marked completed has reached the       *)
(* balance: what is left of it and what was spent cover it, however        *)
(* deliveries of this and other payments, deaths and spending interleave.  *)
NoCreditLost ==
  \A s \in Systems : balance[s] + spent[s] >= PaidFor(Completed, s)

(* Duplicate deliveries and retries never make more credits than were paid *)
(* for: a balance is within the packs bought in its system.                *)
WithinPaid == \A s \in Systems : balance[s] <= PaidFor(Payments, s)

(* A payment's purchase is completed in the end although deliveries die:   *)
(* the provider repeats what was not answered.  Only a handler that raised *)
(* may leave it, as its delivery is answered and never repeated.           *)
PaidIsCompleted ==
  \A p \in Payments : Paid(p) ~> (purchase[p].status = "completed" \/ p \in swallowed)
=============================================================================
