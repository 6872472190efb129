-------------------------- MODULE InvoiceCollection --------------------------
(***************************************************************************)
(* What collecting an overage invoice promises, whoever does it: somebody  *)
(* takes an open invoice before charging the saved card for it, one at a   *)
(* time; an invoice is marked paid only once money has arrived, and from   *)
(* paid it never goes back to be collected.  Module InvoiceCharge          *)
(* implements this with the statements of workflows and requests.          *)
(***************************************************************************)
CONSTANTS Invoices, Collectors

VARIABLES
  state,      \* of each invoice: open, collecting, paid or void
  holders,    \* who has taken it
  money       \* whether a charge was accepted or a checkout paid

vars == <<state, holders, money>>

Init ==
  /\ state = [i \in Invoices |-> "open"]
  /\ holders = [i \in Invoices |-> {}]
  /\ money = [i \in Invoices |-> FALSE]

(* An open invoice that nobody holds is taken. *)
Take(i, c) ==
  /\ state[i] = "open" /\ holders[i] = {}
  /\ state' = [state EXCEPT ![i] = "collecting"]
  /\ holders' = [holders EXCEPT ![i] = {c}]
  /\ UNCHANGED money

(* The holder charges the card, whether or not it learns of it. *)
Charge(i, c) ==
  /\ c \in holders[i]
  /\ money' = [money EXCEPT ![i] = TRUE]
  /\ UNCHANGED <<state, holders>>

(* The customer pays a hosted checkout. *)
Checkout(i) ==
  /\ money' = [money EXCEPT ![i] = TRUE]
  /\ UNCHANGED <<state, holders>>

(* The holder lets go: of a paid invoice, of one it opens again, of one    *)
(* that others have paid or released.                                      *)
LetGo(i, c) ==
  /\ c \in holders[i]
  /\ holders' = [holders EXCEPT ![i] = @ \ {c}]
  /\ \/ UNCHANGED state
     \/ state[i] = "collecting" /\ state' = [state EXCEPT ![i] = "open"]
     \/ state[i] = "collecting" /\ money[i] /\ state' = [state EXCEPT ![i] = "paid"]
  /\ UNCHANGED money

(* A webhook, or an earlier success on record, settles the invoice. *)
Settle(i) ==
  /\ money[i]
  /\ state' = [state EXCEPT ![i] = "paid"]
  /\ UNCHANGED <<holders, money>>

(* The invoice is given up and its usage goes back to the unbilled pool. *)
Void(i) ==
  /\ state' = [state EXCEPT ![i] = "void"]
  /\ UNCHANGED <<holders, money>>

Next ==
  \E i \in Invoices :
    \/ Checkout(i) \/ Settle(i) \/ Void(i)
    \/ \E c \in Collectors : Take(i, c) \/ Charge(i, c) \/ LetGo(i, c)

Spec == Init /\ [][Next]_vars
=============================================================================
