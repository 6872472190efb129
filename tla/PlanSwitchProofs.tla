-------------------------- MODULE PlanSwitchProofs --------------------------
(***************************************************************************)
(* Proofs about PlanSwitch for any customers, plans, actors and bounds:    *)
(* its types, what the claim of a cancellation guarantees, that            *)
(* entitlements follow subscriptions, and that switching keeps one.        *)
(***************************************************************************)
EXTENDS PlanSwitch, TLAPS

Actor == [kind : Kinds, pc : Steps, row : Rows \cup {NoRow}, seen : Row,
          plan : Plans \cup {NoPlan}, new : Rows \cup {NoRow}, code : Codes \cup {NoCode}]

\* An actor here has found or made the subscription it works for.
Written(v) ==
  \/ v.pc \in {"renew", "reopen", "load", "link"}
  \/ v.pc = "bill" /\ v.kind \in {"upgrade", "upgradeInline"}

(* The types again, by the table they are about, and what they rest on: a  *)
(* row in use has an owner and is never given back, one not in use is      *)
(* blank, and actors and checkouts name rows in use, an actor's of one     *)
(* customer.                                                               *)
NamesRows(v) ==
  /\ v.pc # "idle" \/ v.new # NoRow => v.row \in Rows /\ subs[v.row].status # "none"
  /\ v.new # NoRow => subs[v.new].status # "none" /\ subs[v.new].owner = subs[v.row].owner
  /\ Written(v) => v.new # NoRow
  /\ v.kind = "newNow" => v.plan \in Plans
RowsOK ==
  /\ subs \in [Rows -> Row]
  /\ \A r \in Rows : IF subs[r].status = "none" THEN subs[r] = Unused
                     ELSE subs[r].owner \in Customers
ActorsOK ==
  /\ actor \in [Actors -> Actor]
  /\ \A a \in Actors : NamesRows(actor[a])
ProviderOK ==
  /\ provider \in [Codes -> [status : {"none", "active", "canceled"},
                             owner : Customers \cup {"none"}, plan : Plans \cup {NoPlan}]]
  /\ echoes \in [Codes -> 0..MaxDeliveries]
  /\ \A k \in Codes : provider[k].status # "none" => provider[k].owner \in Customers
CheckoutsOK ==
  /\ checkouts \subseteq Checkout
  /\ \A k \in checkouts : subs[k.row].status # "none"
CustomersOK ==
  /\ entitled \in [Customers -> Plans]
  /\ canceling \cup crossed \cup gaveUp \subseteq Customers /\ lost \subseteq Rows
BoundsOK == asked \in 0..MaxRequests /\ faults \in 0..MaxFaults

IInv == RowsOK /\ ActorsOK /\ ProviderOK /\ CheckoutsOK /\ CustomersOK /\ BoundsOK

LEMMA IInvTyped == IInv => TypeOK
BY DEF IInv, TypeOK, RowsOK, ActorsOK, ProviderOK, CheckoutsOK, CustomersOK, BoundsOK, Actor,
       NamesRows

(* The part of the types that the claim's argument rests on. *)
Tables ==
  /\ subs \in [Rows -> Row]
  /\ actor \in [Actors -> Actor]
  /\ lost \subseteq Rows
  /\ \A a \in Actors :
       actor[a].pc # "idle" => actor[a].row \in Rows /\ subs[actor[a].row].status # "none"

LEMMA TablesTyped == IInv => Tables
BY DEF IInv, RowsOK, ActorsOK, NamesRows, CustomersOK, Tables

LEMMA UnusedRow == Unused \in Row
BY SwitchAssumption DEF Unused, Row

LEMMA IdleActor == Idle \in Actor
BY UnusedRow, SwitchAssumption DEF Idle, Actor, Kinds, Steps

(* The steps of the switch lead to no step of a cancellation's tail but    *)
(* its claim and its mark.                                                 *)
LEMMA AfterStep ==
  ASSUME NEW a \in Actors
  PROVE  After(a) \in Steps \ {"look", "insertFree", "sleep", "verify"}
BY DEF After, Steps

-----------------------------------------------------------------------------
KeptRows ==
  \A r \in Rows : subs[r].status # "none" =>
    subs'[r].status # "none" /\ subs'[r].owner = subs[r].owner

(* Each way an action changes a table keeps that table's types. *)
LEMMA WriteRow ==
  ASSUME RowsOK, NEW r \in Rows, NEW v \in Row, v.status # "none", v.owner \in Customers,
         subs[r].status # "none" => v.owner = subs[r].owner,
         subs' = [subs EXCEPT ![r] = v]
  PROVE  RowsOK' /\ KeptRows
BY DEF RowsOK, KeptRows

LEMMA SameRows ==
  ASSUME RowsOK, UNCHANGED subs
  PROVE  RowsOK' /\ KeptRows
BY DEF RowsOK, KeptRows

LEMMA NamesKept ==
  ASSUME KeptRows, NEW v \in Actor, NamesRows(v)
  PROVE  NamesRows(v)'
<1>1. v.new \in Rows \cup {NoRow} BY DEF Actor
<1> QED BY <1>1 DEF NamesRows, Written, KeptRows

LEMMA SetActor ==
  ASSUME ActorsOK, KeptRows, NEW a \in Actors, NEW v \in Actor, NamesRows(v)',
         actor' = [actor EXCEPT ![a] = v]
  PROVE  ActorsOK'
<1>1. actor' \in [Actors -> Actor] BY DEF ActorsOK
<1>2. ASSUME NEW b \in Actors PROVE NamesRows(actor[b])'
  <2>1. CASE b = a
    <3>1. actor'[b] = v BY <2>1 DEF ActorsOK
    <3> QED BY <3>1 DEF NamesRows, Written
  <2>2. CASE b # a
    <3> DEFINE w == actor[b]
    <3>1. actor'[b] = w BY <2>2 DEF ActorsOK
    <3>2. w \in Actor /\ NamesRows(w) BY DEF ActorsOK
    <3>3. w.new \in Rows \cup {NoRow} BY <3>2 DEF Actor
    <3> HIDE DEF w
    <3> QED BY <3>1, <3>2, <3>3 DEF NamesRows, Written, KeptRows
  <2> QED BY <2>1, <2>2
<1> QED BY <1>1, <1>2 DEF ActorsOK

LEMMA SameActors ==
  ASSUME ActorsOK, KeptRows, UNCHANGED actor
  PROVE  ActorsOK'
<1>1. ASSUME NEW b \in Actors PROVE NamesRows(actor[b])'
  <2>1. actor[b].new \in Rows \cup {NoRow} /\ NamesRows(actor[b]) BY DEF ActorsOK, Actor
  <2> QED BY <2>1 DEF NamesRows, Written, KeptRows
<1> QED BY <1>1 DEF ActorsOK

\* An actor goes on with the rows it has.
LEMMA StepOn ==
  ASSUME ActorsOK, KeptRows, NEW a \in Actors, ~At(a, "idle"), NEW v \in Actor,
         v.row = actor[a].row, v.new = actor[a].new, v.plan = actor[a].plan,
         v.kind = actor[a].kind \/ v.kind # "newNow",
         Written(v) => v.new # NoRow,
         actor' = [actor EXCEPT ![a] = v]
  PROVE  ActorsOK'
<1>1. v.new \in Rows \cup {NoRow} BY DEF Actor
<1>2. NamesRows(actor[a]) BY DEF ActorsOK
<1>3. NamesRows(v)' BY <1>1, <1>2 DEF NamesRows, Written, KeptRows, At
<1> QED BY <1>3, SetActor

\* An actor takes a row of its customer.
LEMMA StepWith ==
  ASSUME ActorsOK, KeptRows, NEW a \in Actors, ~At(a, "idle"), NEW v \in Actor,
         v.row = actor[a].row, v.new \in Rows, v.plan = actor[a].plan, v.kind = actor[a].kind,
         subs'[v.new].status # "none", subs'[v.new].owner = Customer(a),
         actor' = [actor EXCEPT ![a] = v]
  PROVE  ActorsOK'
<1>1. NamesRows(actor[a]) BY DEF ActorsOK
<1>2. NamesRows(v)'
  BY <1>1, SwitchAssumption DEF NamesRows, Written, KeptRows, At, Customer
<1> QED BY <1>2, SetActor

LEMMA GotoStep ==
  ASSUME ActorsOK, KeptRows, NEW a \in Actors, ~At(a, "idle"), NEW step \in Steps,
         Goto(a, step), Written([actor[a] EXCEPT !.pc = step]) => actor[a].new # NoRow
  PROVE  ActorsOK'
<1> DEFINE v == [actor[a] EXCEPT !.pc = step]
<1>1. actor[a] \in Actor BY DEF ActorsOK
<1>2. v \in Actor /\ v.row = actor[a].row /\ v.new = actor[a].new /\ v.plan = actor[a].plan
      /\ v.kind = actor[a].kind
  BY <1>1 DEF Actor
<1>3. actor' = [actor EXCEPT ![a] = v] BY DEF Goto, ActorsOK
<1>4. Written(v) => v.new # NoRow BY <1>2
<1> HIDE DEF v
<1> QED BY <1>2, <1>3, <1>4, StepOn

\* The steps that need no row but the actor's own.
LEMMA GotoPlain ==
  ASSUME ActorsOK, KeptRows, NEW a \in Actors, ~At(a, "idle"),
         NEW step \in Steps \ {"renew", "reopen", "load", "link", "bill"},
         Goto(a, step)
  PROVE  ActorsOK'
<1>1. [actor[a] EXCEPT !.pc = step].pc = step BY DEF ActorsOK, Actor
<1>2. ~Written([actor[a] EXCEPT !.pc = step]) BY <1>1 DEF Written
<1> QED BY <1>2, GotoStep

\* Nothing is written before it is found or made.
LEMMA AfterWritten ==
  ASSUME ActorsOK, NEW a \in Actors, ~At(a, "find"), ~At(a, "insert")
  PROVE  Written([actor[a] EXCEPT !.pc = After(a)]) => actor[a].new # NoRow
<1> DEFINE v == [actor[a] EXCEPT !.pc = After(a)]
<1> SUFFICES ASSUME Written(v) PROVE Written(actor[a])
  BY DEF ActorsOK, NamesRows
<1>1. actor[a] \in Actor BY DEF ActorsOK
<1>2. v.pc = After(a) /\ v.kind = Kind(a) BY <1>1 DEF Actor, Kind
<1> HIDE DEF v
<1>3. CASE After(a) = "renew" BY <1>3 DEF After, At
<1>4. CASE After(a) \in {"reopen", "load"} BY <1>4 DEF After, At
<1>5. CASE After(a) = "link" BY <1>5 DEF After, At, Kind, Written
<1>6. CASE After(a) = "bill" /\ Kind(a) \in {"upgrade", "upgradeInline"}
  BY <1>6 DEF After, At, Kind, Written
<1> QED BY <1>2, <1>3, <1>4, <1>5, <1>6 DEF Written

LEMMA EndStep ==
  ASSUME ActorsOK, KeptRows, NEW a \in Actors, End(a)
  PROVE  ActorsOK'
<1>1. Idle \in Actor BY IdleActor
<1>2. NamesRows(Idle)' BY DEF Idle, NamesRows, Written
<1> QED BY <1>1, <1>2, SetActor DEF End

LEMMA GotoAfter ==
  ASSUME ActorsOK, KeptRows, NEW a \in Actors, ~At(a, "idle"), Goto(a, After(a)),
         ~At(a, "find"), ~At(a, "insert")
  PROVE  ActorsOK'
<1>1. After(a) \in Steps BY AfterStep
<1> QED BY <1>1, GotoStep, AfterWritten

LEMMA AdvanceStep ==
  ASSUME ActorsOK, KeptRows, NEW a \in Actors, Advance(a),
         actor[a].pc \in {"cancelAtProvider", "cancelRow", "provision"}
  PROVE  ActorsOK'
BY GotoAfter, EndStep DEF Advance, At

LEMMA BeginStep ==
  ASSUME RowsOK, ActorsOK, KeptRows, NEW a \in Actors,
         NEW kind \in Kinds, NEW step \in Steps, NEW r \in Rows, subs[r].status # "none",
         NEW plan \in Plans \cup {NoPlan}, NEW code \in Codes \cup {NoCode},
         kind = "newNow" => plan \in Plans,
         \/ step \in {"schedule", "cancelAtProvider", "find"}
         \/ step = "bill" /\ kind = "newNow"
         \/ step = "cancelRow" /\ kind = "canceled",
         Begin(a, kind, step, r, plan, code)
  PROVE  ActorsOK'
<1> PICK v : v = [kind |-> kind, pc |-> step, row |-> r, seen |-> subs[r], plan |-> plan,
                  new |-> NoRow, code |-> code]
  OBVIOUS
<1>1. v \in Actor BY DEF RowsOK, Actor
<1>2. subs'[r].status # "none" BY DEF KeptRows
<1>3. actor' = [actor EXCEPT ![a] = v] BY DEF Begin
<1>4. v.row = r /\ v.new = NoRow /\ v.kind = kind /\ v.plan = plan /\ v.pc = step OBVIOUS
<1>5. ~Written(v) BY <1>4 DEF Written
<1>6. NamesRows(v)' BY <1>2, <1>4, <1>5 DEF NamesRows, Written
<1> QED BY <1>1, <1>3, <1>6, SetActor

LEMMA SameCheckouts ==
  ASSUME CheckoutsOK, KeptRows, UNCHANGED checkouts
  PROVE  CheckoutsOK'
<1>1. \A k \in checkouts : k.row \in Rows BY DEF CheckoutsOK, Checkout
<1> QED BY <1>1 DEF CheckoutsOK, KeptRows

LEMMA AddCheckout ==
  ASSUME CheckoutsOK, KeptRows, NEW k \in Checkout, subs[k.row].status # "none",
         NEW old \in SUBSET checkouts, checkouts' = old \cup {k}
  PROVE  CheckoutsOK'
<1>1. \A c \in checkouts \cup {k} : c.row \in Rows BY DEF CheckoutsOK, Checkout
<1> QED BY <1>1 DEF CheckoutsOK, KeptRows

LEMMA Working ==
  ASSUME IInv, NEW a \in Actors, ~At(a, "idle")
  PROVE  /\ actor[a] \in Actor /\ actor[a].row \in Rows
         /\ subs[actor[a].row] \in Row /\ subs[actor[a].row].status # "none"
         /\ Customer(a) \in Customers
BY DEF IInv, ActorsOK, NamesRows, RowsOK, At, Customer

LEMMA WorkingSeen ==
  ASSUME IInv, NEW a \in Actors, ~At(a, "idle")
  PROVE  /\ actor[a].seen \in Row /\ actor[a].new \in Rows \cup {NoRow}
         /\ actor[a].seen.claimed \in BOOLEAN /\ actor[a].seen.sched \in BOOLEAN
         /\ actor[a].seen.code \in Codes \cup Sentinels \cup {NoCode}
         /\ actor[a].code \in Codes \cup {NoCode}
<1>1. /\ actor[a].seen \in Row /\ actor[a].code \in Codes \cup {NoCode}
      /\ actor[a].new \in Rows \cup {NoRow}
  BY Working DEF Actor
<1> QED BY <1>1 DEF Row

\* The subscription that an actor has found or made.
LEMMA WorkingNew ==
  ASSUME IInv, NEW a \in Actors, Written(actor[a])
  PROVE  /\ actor[a].new \in Rows /\ subs[actor[a].new] \in Row
         /\ subs[actor[a].new].status # "none" /\ subs[actor[a].new].owner = Customer(a)
         /\ ~At(a, "idle")
<1>1. actor[a] \in Actor /\ NamesRows(actor[a]) BY DEF IInv, ActorsOK
<1>2. actor[a].new \in Rows BY <1>1 DEF NamesRows, Actor
<1> QED BY <1>1, <1>2, SwitchAssumption DEF NamesRows, Written, Customer, At, IInv, RowsOK

LEMMA BoundsNat == MaxRequests \in Nat /\ MaxDeliveries \in Nat /\ MaxFaults \in Nat
BY SwitchAssumption

LEMMA ZeroBounded == 0 \in 0..MaxRequests /\ 0 \in 0..MaxDeliveries /\ 0 \in 0..MaxFaults
BY BoundsNat

-----------------------------------------------------------------------------
(* Nothing is claimed, made or under way, and all have what they are       *)
(* entitled to.                                                            *)
Fresh ==
  /\ \A r \in Rows : subs[r].origin = NoRow /\ ~subs[r].claimed
  /\ \A a \in Actors : actor[a].pc = "idle"
  /\ \A c \in Customers :
       \E r \in Rows : Active(r) /\ subs[r].owner = c /\ subs[r].plan = entitled[c]
  /\ checkouts = {}

LEMMA InitTyped == Init => IInv /\ Fresh
<1> SUFFICES ASSUME Init PROVE IInv /\ Fresh
  OBVIOUS
<1> PICK rowOf \in [Customers -> Rows], codeOf \in [Customers -> Codes], plan \in Plans :
    /\ \A c, d \in Customers : c # d => rowOf[c] # rowOf[d] /\ codeOf[c] # codeOf[d]
    /\ subs = [r \in Rows |->
         IF \E c \in Customers : rowOf[c] = r
         THEN LET c == CHOOSE c \in Customers : rowOf[c] = r
              IN  [Unused EXCEPT !.owner = c, !.status = "active", !.plan = plan,
                                 !.code = IF plan = Free THEN NoCode ELSE codeOf[c]]
         ELSE Unused]
    /\ provider = [k \in Codes |->
         IF plan # Free /\ \E c \in Customers : codeOf[c] = k
         THEN [status |-> "active", owner |-> CHOOSE c \in Customers : codeOf[c] = k,
               plan |-> plan]
         ELSE [status |-> "none", owner |-> "none", plan |-> NoPlan]]
    /\ echoes = [k \in Codes |-> 0]
    /\ checkouts = {}
    /\ actor = [a \in Actors |-> Idle]
    /\ entitled = [c \in Customers |-> plan]
    /\ asked = 0 /\ faults = 0
    /\ canceling = {} /\ lost = {} /\ crossed = {} /\ gaveUp = {}
  BY Zenon DEF Init
<1>1. RowsOK /\ \A r \in Rows : subs[r].origin = NoRow /\ ~subs[r].claimed
  <2>1. ASSUME NEW r \in Rows
        PROVE  /\ subs[r] \in Row /\ IF subs[r].status = "none" THEN subs[r] = Unused
                                     ELSE subs[r].owner \in Customers
               /\ subs[r].origin = NoRow /\ ~subs[r].claimed
    <3>1. CASE \E c \in Customers : rowOf[c] = r
      <4>1. PICK c \in Customers : c = CHOOSE d \in Customers : rowOf[d] = r BY <3>1
      <4>2. subs[r] = [Unused EXCEPT !.owner = c, !.status = "active", !.plan = plan,
                                     !.code = IF plan = Free THEN NoCode ELSE codeOf[c]]
        BY <3>1, <4>1
      <4> QED BY <4>2, UnusedRow DEF Row, Unused
    <3>2. CASE ~\E c \in Customers : rowOf[c] = r BY <3>2, UnusedRow DEF Unused
    <3> QED BY <3>1, <3>2
  <2> QED BY <2>1 DEF RowsOK
<1>2. ProviderOK
  <2>1. ASSUME NEW k \in Codes
        PROVE  /\ provider[k] \in [status : {"none", "active", "canceled"},
                                   owner : Customers \cup {"none"}, plan : Plans \cup {NoPlan}]
               /\ provider[k].status # "none" => provider[k].owner \in Customers
    <3>1. CASE plan # Free /\ \E c \in Customers : codeOf[c] = k
      <4>1. PICK c \in Customers : c = CHOOSE d \in Customers : codeOf[d] = k BY <3>1
      <4> QED BY <3>1, <4>1
    <3>2. CASE ~(plan # Free /\ \E c \in Customers : codeOf[c] = k) BY <3>2
    <3> QED BY <3>1, <3>2
  <2>2. echoes \in [Codes -> 0..MaxDeliveries] BY ZeroBounded
  <2> QED BY <2>1, <2>2 DEF ProviderOK
<1>3. ActorsOK
  <2>1. NamesRows(Idle) BY DEF NamesRows, Written, Idle
  <2> QED BY <2>1, IdleActor DEF ActorsOK
<1>4. CheckoutsOK BY DEF CheckoutsOK
<1>5. CustomersOK BY DEF CustomersOK
<1>6. BoundsOK BY ZeroBounded DEF BoundsOK
<1>7. \A a \in Actors : actor[a].pc = "idle" BY DEF Idle
<1>8. ASSUME NEW c \in Customers
      PROVE  \E r \in Rows : Active(r) /\ subs[r].owner = c /\ subs[r].plan = entitled[c]
  <2> DEFINE d == CHOOSE d \in Customers : rowOf[d] = rowOf[c]
  <2>1. d \in Customers /\ rowOf[d] = rowOf[c] OBVIOUS
  <2>2. subs[rowOf[c]] = [Unused EXCEPT !.owner = d, !.status = "active", !.plan = plan,
                                        !.code = IF plan = Free THEN NoCode ELSE codeOf[d]]
    OBVIOUS
  <2>3. d = c BY <2>1
  <2> HIDE DEF d
  <2>4. /\ subs[rowOf[c]].status = "active" /\ subs[rowOf[c]].owner = c
        /\ subs[rowOf[c]].plan = plan
    BY <2>2, <2>3 DEF Unused
  <2> QED BY <2>4 DEF Active
<1> QED BY <1>1, <1>2, <1>3, <1>4, <1>5, <1>6, <1>7, <1>8 DEF IInv, Fresh

-----------------------------------------------------------------------------
(* What customers, the dashboard and the provider start. *)
LEMMA AskTyped ==
  ASSUME IInv, NEW a \in Actors, NEW r \in Rows, NEW plan \in Plans
  PROVE  /\ AskDowngrade(a, r, plan) => IInv'
         /\ AskUpgrade(a, r, plan) => IInv'
         /\ \A kind \in {"cancelNow", "cancelLater"} : AskCancel(a, r, kind) => IInv'
<1> USE DEF IInv
<1>1. ASSUME Ask(a, r)
      PROVE  /\ RowsOK' /\ KeptRows /\ ProviderOK' /\ BoundsOK'
             /\ subs[r].status # "none" /\ subs[r].owner \in Customers
  <2>1. RowsOK' /\ KeptRows BY <1>1, SameRows DEF Ask
  <2>2. ProviderOK' BY <1>1 DEF Ask, ProviderOK
  <2>3. BoundsOK' BY <1>1, BoundsNat DEF Ask, BoundsOK
  <2>4. subs[r].status # "none" /\ subs[r].owner \in Customers
    BY <1>1 DEF Ask, Active, RowsOK
  <2> QED BY <2>1, <2>2, <2>3, <2>4
<1>2. ASSUME AskDowngrade(a, r, plan) PROVE IInv'
  <2>1. Ask(a, r) /\ UNCHANGED <<checkouts, canceling>> BY <1>2 DEF AskDowngrade
  <2>2. ActorsOK'
    BY <1>1, <1>2, <2>1, BeginStep DEF AskDowngrade, Kinds, Steps
  <2>3. CheckoutsOK' BY <1>1, <2>1, SameCheckouts
  <2>4. CustomersOK' BY <2>1 DEF CustomersOK, Ask
  <2> QED BY <1>1, <2>1, <2>2, <2>3, <2>4
<1>3. ASSUME AskUpgrade(a, r, plan) PROVE IInv'
  <2> DEFINE kind == IF Paid(subs[r].plan) THEN "upgrade" ELSE "newPaid"
             now == IF Paid(subs[r].plan) THEN "upgradeNow" ELSE "newNow"
             step == IF Paid(subs[r].plan) THEN "cancelAtProvider" ELSE "bill"
             k == [row |-> r, plan |-> plan, kind |-> kind, left |-> MaxDeliveries,
                   code |-> NoCode]
  <2>1. Ask(a, r) /\ UNCHANGED canceling BY <1>3 DEF AskUpgrade
  <2>2. CustomersOK' BY <2>1 DEF CustomersOK, Ask
  <2>3. CASE checkouts' = checkouts \cup {k} /\ UNCHANGED actor
    <3>1. ActorsOK' BY <1>1, <2>1, <2>3, SameActors
    <3>2. k \in Checkout /\ k.row = r BY BoundsNat DEF Checkout
    <3> HIDE DEF k
    <3>3. CheckoutsOK' BY <1>1, <2>1, <2>3, <3>2, AddCheckout
    <3> QED BY <1>1, <2>1, <2>2, <3>1, <3>3
  <2>4. CASE Begin(a, now, step, r, plan, NoCode) /\ UNCHANGED checkouts
    <3>1. \/ now = "upgradeNow" /\ step = "cancelAtProvider"
          \/ now = "newNow" /\ step = "bill"
      OBVIOUS
    <3> HIDE DEF now, step
    <3>2. ActorsOK'
      <4>1. now \in Kinds /\ step \in Steps BY <3>1 DEF Kinds, Steps
      <4> QED BY <1>1, <2>1, <2>4, <3>1, <4>1, BeginStep
    <3>3. CheckoutsOK' BY <1>1, <2>1, <2>4, SameCheckouts
    <3> QED BY <1>1, <2>1, <2>2, <3>2, <3>3
  <2> QED BY <1>3, <2>3, <2>4 DEF AskUpgrade
<1>4. ASSUME NEW kind \in {"cancelNow", "cancelLater"}, AskCancel(a, r, kind) PROVE IInv'
  <2>1. Ask(a, r) /\ UNCHANGED checkouts BY <1>4 DEF AskCancel
  <2>2. ActorsOK' BY <1>1, <1>4, <2>1, BeginStep DEF AskCancel, Kinds, Steps
  <2>3. CheckoutsOK' BY <1>1, <2>1, SameCheckouts
  <2>4. CustomersOK' BY <1>1, <1>4, <2>1 DEF CustomersOK, Ask, AskCancel
  <2> QED BY <1>1, <2>1, <2>2, <2>3, <2>4
<1> QED BY <1>2, <1>3, <1>4

LEMMA EventsTyped ==
  ASSUME IInv
  PROVE  /\ \A k \in Codes : AskProvider(k) => IInv'
         /\ \A a \in Actors :
              /\ \A k \in checkouts : PayUpgrade(a, k) => IInv'
              /\ \A k \in checkouts, code \in Codes : PayNew(a, k, code) => IInv'
              /\ \A k \in Codes : DeliverCanceled(a, k) => IInv'
<1> USE DEF IInv
<1>1. ASSUME NEW k \in Codes, AskProvider(k) PROVE IInv'
  <2>1. RowsOK' /\ KeptRows BY <1>1, SameRows DEF AskProvider
  <2>2. ActorsOK' BY <1>1, <2>1, SameActors DEF AskProvider
  <2>3. ProviderOK'
    <3> PICK n \in 1..MaxDeliveries : echoes' = [echoes EXCEPT ![k] = n] BY <1>1 DEF AskProvider
    <3> QED BY <1>1, BoundsNat DEF AskProvider, ProviderOK
  <2>4. CheckoutsOK' BY <1>1, <2>1, SameCheckouts DEF AskProvider
  <2>5. CustomersOK' BY <1>1 DEF AskProvider, CustomersOK, ProviderOK
  <2>6. BoundsOK' BY <1>1, BoundsNat DEF AskProvider, BoundsOK
  <2> QED BY <2>1, <2>2, <2>3, <2>4, <2>5, <2>6
<1>2. ASSUME NEW k \in checkouts, k.left > 0, NEW code \in Codes
      PROVE  /\ k.row \in Rows /\ subs[k.row].status # "none" /\ k.plan \in Plans
             /\ [k EXCEPT !.left = @ - 1] \in Checkout
             /\ [k EXCEPT !.left = @ - 1].row = k.row
             /\ [k EXCEPT !.left = @ - 1, !.code = code] \in Checkout
             /\ [k EXCEPT !.left = @ - 1, !.code = code].row = k.row
  <2>1. k \in Checkout /\ subs[k.row].status # "none" BY DEF CheckoutsOK
  <2>2. k.left - 1 \in 0..MaxDeliveries BY <1>2, <2>1, BoundsNat DEF Checkout
  <2>3. [k EXCEPT !.left = k.left - 1] \in Checkout BY <2>1, <2>2 DEF Checkout
  <2>4. [k EXCEPT !.left = k.left - 1, !.code = code] \in Checkout
    BY <2>1, <2>2 DEF Checkout
  <2> QED BY <2>1, <2>3, <2>4 DEF Checkout
<1>6. ASSUME NEW k \in checkouts, k.left > 0
      PROVE  /\ k.row \in Rows /\ subs[k.row].status # "none" /\ k.plan \in Plans
             /\ [k EXCEPT !.left = @ - 1] \in Checkout
             /\ [k EXCEPT !.left = @ - 1].row = k.row
  BY <1>6, BoundsNat DEF CheckoutsOK, Checkout
<1>3. ASSUME NEW a \in Actors, NEW k \in checkouts, PayUpgrade(a, k) PROVE IInv'
  <2>1. RowsOK' /\ KeptRows BY <1>3, SameRows DEF PayUpgrade
  <2>2. k.left > 0 BY <1>3 DEF PayUpgrade
  <2> PICK kind \in {"upgrade", "upgradeInline"} :
        Begin(a, kind, "cancelAtProvider", k.row, k.plan, NoCode)
    BY <1>3 DEF PayUpgrade
  <2>3. ActorsOK'
    <3>1. kind \in Kinds /\ kind # "newNow" /\ "cancelAtProvider" \in Steps
      BY DEF Kinds, Steps
    <3>2. k.row \in Rows /\ subs[k.row].status # "none" /\ k.plan \in Plans BY <1>6, <2>2
    <3> QED BY <2>1, <3>1, <3>2, BeginStep
  <2>4. CheckoutsOK'
    <3> DEFINE j == [k EXCEPT !.left = @ - 1]
    <3>1. j \in Checkout /\ j.row = k.row /\ subs[k.row].status # "none" BY <1>6, <2>2
    <3>2. checkouts' = (checkouts \ {k}) \cup {j} BY <1>3 DEF PayUpgrade
    <3> HIDE DEF j
    <3> QED BY <2>1, <3>1, <3>2, AddCheckout
  <2>5. ProviderOK' /\ CustomersOK' /\ BoundsOK'
    BY <1>3 DEF PayUpgrade, ProviderOK, CustomersOK, BoundsOK
  <2> QED BY <2>1, <2>3, <2>4, <2>5
<1>4. ASSUME NEW a \in Actors, NEW k \in checkouts, NEW code \in Codes, PayNew(a, k, code)
      PROVE  IInv'
  <2>1. RowsOK' /\ KeptRows BY <1>4, SameRows DEF PayNew
  <2> DEFINE j == [k EXCEPT !.left = @ - 1, !.code = code]
  <2>2. k.row \in Rows /\ subs[k.row].status # "none" /\ k.plan \in Plans
        /\ j \in Checkout /\ j.row = k.row
    BY <1>2, <1>4 DEF PayNew
  <2>7. checkouts' = (checkouts \ {k}) \cup {j} BY <1>4 DEF PayNew
  <2> HIDE DEF j
  <2>3. ActorsOK' BY <1>4, <2>1, <2>2, BeginStep DEF PayNew, Kinds, Steps
  <2>4. CheckoutsOK' BY <2>1, <2>2, <2>7, AddCheckout
  <2>5. ProviderOK'
    <3>1. subs[k.row].owner \in Customers BY <2>2 DEF RowsOK
    <3> QED BY <1>4, <2>2, <3>1 DEF PayNew, ProviderOK
  <2>6. CustomersOK' /\ BoundsOK' BY <1>4 DEF PayNew, CustomersOK, BoundsOK
  <2> QED BY <2>1, <2>3, <2>4, <2>5, <2>6
<1>5. ASSUME NEW a \in Actors, NEW k \in Codes, DeliverCanceled(a, k) PROVE IInv'
  <2>1. RowsOK' /\ KeptRows BY <1>5, SameRows DEF DeliverCanceled
  <2>2. ASSUME NEW r \in Rows, subs[r].code = k \/ Active(r) PROVE subs[r].status # "none"
    BY <2>2, SwitchAssumption DEF RowsOK, Unused, Active
  <2>3. ActorsOK'
    <3>1. CASE UNCHANGED actor BY <2>1, <3>1, SameActors
    <3>2. CASE \E r \in Rows : /\ subs[r].code = k \/ Active(r)
                               /\ Begin(a, "canceled", "cancelRow", r, NoPlan, k)
      BY <2>1, <2>2, <3>2, BeginStep DEF Kinds, Steps
    <3> QED BY <1>5, <3>1, <3>2 DEF DeliverCanceled, ActiveOf
  <2>4. CheckoutsOK' BY <1>5, <2>1, SameCheckouts DEF DeliverCanceled
  <2>5. ProviderOK' BY <1>5, BoundsNat DEF DeliverCanceled, ProviderOK
  <2>6. CustomersOK' /\ BoundsOK' BY <1>5 DEF DeliverCanceled, CustomersOK, BoundsOK
  <2> QED BY <2>1, <2>3, <2>4, <2>5, <2>6
<1> QED BY <1>1, <1>3, <1>4, <1>5

-----------------------------------------------------------------------------
(* What a working actor does: the statements over its own row. *)
LEMMA OwnRowTyped ==
  ASSUME IInv, NEW a \in Actors
  PROVE  /\ CancelRow(a) => IInv'
         /\ ScheduleCancel(a) => IInv'
         /\ ScheduleDowngrade(a) => IInv'
         /\ Claim(a) => IInv'
         /\ Mark(a) => IInv'
<1> USE DEF IInv
<1> DEFINE r == actor[a].row
<1>1. ASSUME ~At(a, "idle"), NEW v \in Row, v.owner = subs[r].owner, v.status # "none",
             subs' = [subs EXCEPT ![r] = v]
      PROVE  RowsOK' /\ KeptRows
  <2>1. r \in Rows /\ v.owner \in Customers BY <1>1, Working DEF Customer
  <2> QED BY <1>1, <2>1, WriteRow
<1>2. ASSUME CancelRow(a) PROVE IInv'
  <2> DEFINE v == [subs[r] EXCEPT !.status = "canceled",
                     !.code = IF Kind(a) = "canceled" THEN actor[a].code ELSE @]
  <2>1. ~At(a, "idle") BY <1>2 DEF CancelRow, At
  <2>2. subs' = [subs EXCEPT ![r] = v] BY <1>2 DEF CancelRow, RowsOK
  <2>3. v \in Row /\ v.owner = subs[r].owner /\ v.status # "none"
    BY <2>1, Working, WorkingSeen DEF Row
  <2> HIDE DEF v, r
  <2>4. RowsOK' /\ KeptRows BY <1>1, <2>1, <2>2, <2>3
  <2>5. ActorsOK' BY <1>2, <2>4, AdvanceStep DEF CancelRow, At
  <2>6. CheckoutsOK' BY <1>2, <2>4, SameCheckouts DEF CancelRow, SameWorld
  <2>7. ProviderOK' /\ BoundsOK'
    BY <1>2 DEF CancelRow, SameWorld, ProviderOK, BoundsOK
  <2>8. CustomersOK'
    <3>1. crossed' \in {crossed, crossed \cup {Customer(a)}} BY <1>2 DEF CancelRow
    <3>2. Customer(a) \in Customers BY <2>1, Working
    <3> QED BY <1>2, <3>1, <3>2 DEF CancelRow, SameWorld, CustomersOK
  <2> QED BY <2>4, <2>5, <2>6, <2>7, <2>8
<1>3. ASSUME ScheduleCancel(a) PROVE IInv'
  <2> DEFINE v == [subs[r] EXCEPT !.status = "active", !.cancelAt = TRUE]
             w == [actor[a] EXCEPT !.kind = "cancelDowngrade", !.pc = "sleep"]
  <2>1. ~At(a, "idle") BY <1>3 DEF ScheduleCancel, At
  <2>2. subs' = [subs EXCEPT ![r] = v] BY <1>3 DEF ScheduleCancel, RowsOK
  <2>3. v \in Row /\ v.owner = subs[r].owner /\ v.status # "none"
    BY <2>1, Working DEF Row
  <2>4. w \in Actor /\ w.row = r /\ w.new = actor[a].new /\ w.kind = "cancelDowngrade"
        /\ w.plan = actor[a].plan /\ w.pc = "sleep"
    BY <2>1, Working DEF Actor, Kinds, Steps
  <2>5. \/ actor' = [actor EXCEPT ![a] = w] \/ End(a)
    BY <1>3 DEF ScheduleCancel, ActorsOK
  <2> HIDE DEF v, w
  <2>8. RowsOK' /\ KeptRows BY <1>1, <2>1, <2>2, <2>3
  <2>9. ActorsOK'
    <3>1. CASE End(a) BY <2>8, <3>1, EndStep
    <3>2. CASE actor' = [actor EXCEPT ![a] = w]
      BY <2>1, <2>4, <2>8, <3>2, StepOn DEF Written
    <3> QED BY <2>5, <3>1, <3>2
  <2>10. CheckoutsOK' BY <1>3, <2>8, SameCheckouts DEF ScheduleCancel, SameWorld
  <2>11. ProviderOK' /\ CustomersOK' /\ BoundsOK'
    BY <1>3 DEF ScheduleCancel, SameWorld, ProviderOK, CustomersOK, BoundsOK
  <2> QED BY <2>8, <2>9, <2>10, <2>11
<1>4. ASSUME ScheduleDowngrade(a) PROVE IInv'
  <2> DEFINE v == [subs[r] EXCEPT !.status = "active", !.cancelAt = TRUE, !.sched = TRUE,
                                  !.claimed = actor[a].seen.claimed]
             w == [actor[a] EXCEPT !.kind = "downgrade", !.pc = "sleep"]
  <2>1. ~At(a, "idle") BY <1>4 DEF ScheduleDowngrade, At
  <2>2. subs' = [subs EXCEPT ![r] = v] BY <1>4 DEF ScheduleDowngrade, RowsOK
  <2>3. v \in Row /\ v.owner = subs[r].owner /\ v.status # "none"
    BY <2>1, Working, WorkingSeen DEF Row
  <2>4. w \in Actor /\ w.row = r /\ w.new = actor[a].new /\ w.kind = "downgrade"
        /\ w.plan = actor[a].plan /\ w.pc = "sleep"
    BY <2>1, Working DEF Actor, Kinds, Steps
  <2>5. \/ actor' = [actor EXCEPT ![a] = w] \/ End(a)
    BY <1>4 DEF ScheduleDowngrade, ActorsOK
  <2>7. r \in Rows /\ subs[r].status # "none" BY <2>1, Working
  <2>8. CustomersOK'
    <3>1. crossed' \in {crossed, crossed \cup {Customer(a)}} BY <1>4 DEF ScheduleDowngrade
    <3>2. lost' \in {lost, lost \cup {r}} BY <1>4 DEF ScheduleDowngrade
    <3>3. Customer(a) \in Customers BY <2>1, Working
    <3> QED BY <1>4, <2>7, <3>1, <3>2, <3>3 DEF ScheduleDowngrade, SameWorld, CustomersOK
  <2> HIDE DEF v, w
  <2>9. RowsOK' /\ KeptRows BY <1>1, <2>1, <2>2, <2>3
  <2>10. ActorsOK'
    <3>1. CASE End(a) BY <2>9, <3>1, EndStep
    <3>2. CASE actor' = [actor EXCEPT ![a] = w]
      BY <2>1, <2>4, <2>9, <3>2, StepOn DEF Written
    <3> QED BY <2>5, <3>1, <3>2
  <2>11. CheckoutsOK' BY <1>4, <2>9, SameCheckouts DEF ScheduleDowngrade, SameWorld
  <2>12. ProviderOK' /\ BoundsOK'
    BY <1>4 DEF ScheduleDowngrade, SameWorld, ProviderOK, BoundsOK
  <2> QED BY <2>8, <2>9, <2>10, <2>11, <2>12
<1>5. ASSUME Claim(a) PROVE IInv'
  <2> DEFINE v == [subs[r] EXCEPT !.claimed = TRUE]
  <2>1. ~At(a, "idle") BY <1>5 DEF Claim, At
  <2>2. v \in Row /\ v.owner = subs[r].owner /\ v.status # "none"
    BY <2>1, Working DEF Row
  <2>3. \/ UNCHANGED subs /\ End(a)
        \/ subs' = [subs EXCEPT ![r] = v] /\ Goto(a, "look")
    BY <1>5 DEF Claim, RowsOK
  <2> HIDE DEF v, r
  <2>4. RowsOK' /\ KeptRows BY <1>1, <2>1, <2>2, <2>3, SameRows
  <2>5. ActorsOK' BY <2>1, <2>3, <2>4, GotoPlain, EndStep DEF Steps
  <2>6. CheckoutsOK' BY <1>5, <2>4, SameCheckouts DEF Claim, SameWorld
  <2>7. ProviderOK' /\ CustomersOK' /\ BoundsOK'
    BY <1>5 DEF Claim, SameWorld, ProviderOK, CustomersOK, BoundsOK
  <2> QED BY <2>4, <2>5, <2>6, <2>7
<1>6. ASSUME Mark(a) PROVE IInv'
  <2> DEFINE v == [subs[r] EXCEPT !.status = "canceled", !.claimed = TRUE, !.sched = FALSE]
             w == [subs[r] EXCEPT !.claimed = TRUE, !.sched = actor[a].seen.sched]
  <2>1. ~At(a, "idle") BY <1>6 DEF Mark, At
  <2>2. \/ subs' = [subs EXCEPT ![r] = v] \/ subs' = [subs EXCEPT ![r] = w]
    BY <1>6 DEF Mark, RowsOK
  <2>3. /\ v \in Row /\ v.owner = subs[r].owner /\ v.status # "none"
        /\ w \in Row /\ w.owner = subs[r].owner /\ w.status # "none"
    BY <2>1, Working, WorkingSeen DEF Row
  <2> HIDE DEF v, w, r
  <2>4. RowsOK' /\ KeptRows BY <1>1, <2>1, <2>2, <2>3
  <2>5. ActorsOK' BY <1>6, <2>4, EndStep DEF Mark
  <2>6. CheckoutsOK' BY <1>6, <2>4, SameCheckouts DEF Mark, SameWorld
  <2>7. ProviderOK' /\ CustomersOK' /\ BoundsOK'
    BY <1>6 DEF Mark, SameWorld, ProviderOK, CustomersOK, BoundsOK
  <2> QED BY <2>4, <2>5, <2>6, <2>7
<1> QED BY <1>2, <1>3, <1>4, <1>5, <1>6

(* The steps that only read, and those that write other tables. *)
LEMMA ReadTyped ==
  ASSUME IInv, NEW a \in Actors
  PROVE  /\ Wake(a) \/ VerifyCancel(a) \/ VerifyDowngrade(a) \/ Look(a) => IInv'
         /\ Find(a) \/ InsertRefused(a) \/ ReviveRefused(a) \/ Load(a) => IInv'
         /\ CancelAtProvider(a) \/ Provision(a) \/ Bill(a) \/ Die(a) => IInv'
<1> USE DEF IInv
<1>1. ASSUME UNCHANGED <<subs, checkouts>>
      PROVE  RowsOK' /\ KeptRows /\ CheckoutsOK'
  BY <1>1, SameRows, SameCheckouts
<1>2. ASSUME SameWorld, UNCHANGED <<subs, provider, entitled, lost, crossed>>,
             gaveUp' \subseteq Customers, ActorsOK'
      PROVE  IInv'
  BY <1>1, <1>2 DEF SameWorld, ProviderOK, CustomersOK, BoundsOK
<1>3. ASSUME Wake(a) \/ VerifyDowngrade(a) \/ Look(a) PROVE IInv'
  <2>1. ~At(a, "idle") BY <1>3 DEF Wake, VerifyDowngrade, Look, At
  <2>2. SameWorld /\ UNCHANGED <<subs, provider, entitled, lost, crossed, gaveUp>>
    BY <1>3 DEF Wake, VerifyDowngrade, Look
  <2>3. KeptRows BY <2>2, SameRows
  <2>4. End(a) \/ \E step \in Steps \ {"renew", "reopen", "load", "link", "bill"} : Goto(a, step)
    BY <1>3 DEF Wake, VerifyDowngrade, Look, Steps
  <2>5. ActorsOK' BY <2>1, <2>3, <2>4, GotoPlain, EndStep
  <2> QED BY <1>2, <2>2, <2>5 DEF CustomersOK
<1>4. ASSUME VerifyCancel(a) PROVE IInv'
  <2> DEFINE w == [actor[a] EXCEPT !.pc = "claim", !.seen = subs[actor[a].row]]
  <2>1. ~At(a, "idle") BY <1>4 DEF VerifyCancel, At
  <2>2. SameWorld /\ UNCHANGED <<subs, provider, entitled, lost, crossed, gaveUp>>
    BY <1>4 DEF VerifyCancel
  <2>3. KeptRows BY <2>2, SameRows
  <2>4. End(a) \/ actor' = [actor EXCEPT ![a] = w] BY <1>4 DEF VerifyCancel, ActorsOK
  <2>5. w \in Actor /\ w.row = actor[a].row /\ w.new = actor[a].new
        /\ w.kind = actor[a].kind /\ w.plan = actor[a].plan /\ w.pc = "claim"
    BY <2>1, Working DEF Actor, Steps
  <2> HIDE DEF w
  <2>6. ActorsOK'
    <3>1. CASE End(a) BY <2>3, <3>1, EndStep
    <3>2. CASE actor' = [actor EXCEPT ![a] = w]
      BY <2>1, <2>3, <2>5, <3>2, StepOn DEF Written
    <3> QED BY <2>4, <3>1, <3>2
  <2> QED BY <1>2, <2>2, <2>6 DEF CustomersOK
<1>5. ASSUME Find(a) PROVE IInv'
  <2>1. ~At(a, "idle") BY <1>5 DEF Find, At
  <2>2. SameWorld /\ UNCHANGED <<subs, provider, entitled, lost, crossed, gaveUp>> BY <1>5 DEF Find
  <2>3. KeptRows BY <2>2, SameRows
  <2>4. ActorsOK'
    <3>1. CASE Goto(a, "insert") BY <2>1, <2>3, <3>1, GotoPlain DEF Steps
    <3>2. ASSUME NEW r \in Rows, Active(r), subs[r].owner = Customer(a),
                 actor' = [actor EXCEPT ![a].new = r, ![a].seen = subs[r], ![a].pc = After(a)]
          PROVE  ActorsOK'
      <4> DEFINE w == [actor[a] EXCEPT !.new = r, !.seen = subs[r], !.pc = After(a)]
      <4>1. actor' = [actor EXCEPT ![a] = w] BY <3>2 DEF ActorsOK
      <4>2. w \in Actor /\ w.row = actor[a].row /\ w.new = r
            /\ w.kind = actor[a].kind /\ w.plan = actor[a].plan
        BY <2>1, Working, AfterStep DEF Actor, RowsOK
      <4> HIDE DEF w
      <4>3. subs'[r].status # "none" /\ subs'[r].owner = Customer(a)
        BY <2>2, <3>2 DEF Active
      <4> QED BY <2>1, <2>3, <4>1, <4>2, <4>3, StepWith
    <3> QED BY <1>5, <3>1, <3>2 DEF Find, ActiveOf
  <2> QED BY <1>2, <2>2, <2>4 DEF CustomersOK
<1>6. ASSUME InsertRefused(a) PROVE IInv'
  <2>1. ~At(a, "idle") BY <1>6 DEF InsertRefused, At
  <2>2. SameWorld /\ UNCHANGED <<subs, provider, entitled, lost, crossed>> BY <1>6 DEF InsertRefused
  <2>3. KeptRows BY <2>2, SameRows
  <2>4. ActorsOK'
    <3>1. CASE Goto(a, "find") BY <2>1, <2>3, <3>1, GotoPlain DEF Steps
    <3>2. CASE End(a) BY <2>3, <3>2, EndStep
    <3>3. ASSUME NEW r \in Rows, subs[r].owner = Customer(a),
                 actor' = [actor EXCEPT ![a].new = r, ![a].pc = "reopen"]
          PROVE  ActorsOK'
      <4> DEFINE w == [actor[a] EXCEPT !.new = r, !.pc = "reopen"]
      <4>1. actor' = [actor EXCEPT ![a] = w] BY <3>3 DEF ActorsOK
      <4>2. w \in Actor /\ w.row = actor[a].row /\ w.new = r
            /\ w.kind = actor[a].kind /\ w.plan = actor[a].plan
        BY <2>1, Working DEF Actor, Steps
      <4> HIDE DEF w
      <4>3. subs[r].status # "none"
        <5>1. Customer(a) # "none" BY <2>1, Working, SwitchAssumption
        <5> QED BY <3>3, <5>1 DEF RowsOK, Unused
      <4> QED BY <2>1, <2>2, <2>3, <3>3, <4>1, <4>2, <4>3, StepWith
    <3> QED BY <1>6, <3>1, <3>2, <3>3 DEF InsertRefused
  <2>5. gaveUp' \subseteq Customers
    BY <1>6, <2>1, Working DEF InsertRefused, CustomersOK
  <2> QED BY <1>2, <2>2, <2>4, <2>5
<1>7. ASSUME ReviveRefused(a) PROVE IInv'
  <2>1. ~At(a, "idle") BY <1>7 DEF ReviveRefused, At
  <2>2. SameWorld /\ UNCHANGED <<subs, provider, entitled, lost, crossed>> BY <1>7 DEF ReviveRefused
  <2>3. ActorsOK' BY <1>7, <2>2, SameRows, EndStep DEF ReviveRefused
  <2>4. gaveUp' \subseteq Customers
    BY <1>7, <2>1, Working DEF ReviveRefused, CustomersOK
  <2> QED BY <1>2, <2>2, <2>3, <2>4
<1>8. ASSUME Load(a) PROVE IInv'
  <2> DEFINE w == [actor[a] EXCEPT !.seen = subs[actor[a].new], !.pc = After(a)]
  <2>1. ~At(a, "idle") BY <1>8 DEF Load, At
  <2>2. SameWorld /\ UNCHANGED <<subs, provider, entitled, lost, crossed, gaveUp>> BY <1>8 DEF Load
  <2>3. Written(actor[a]) BY <1>8 DEF Load, At, Written
  <2>4. actor' = [actor EXCEPT ![a] = w] BY <1>8 DEF Load, ActorsOK
  <2>5. w \in Actor /\ w.row = actor[a].row /\ w.new = actor[a].new
        /\ w.kind = actor[a].kind /\ w.plan = actor[a].plan
    BY <2>1, <2>3, Working, WorkingNew, AfterStep DEF Actor
  <2>6. actor[a].new # NoRow BY <2>3 DEF ActorsOK, NamesRows
  <2> HIDE DEF w
  <2>7. ActorsOK' BY <2>1, <2>2, <2>4, <2>5, <2>6, SameRows, StepOn
  <2> QED BY <1>2, <2>2, <2>7 DEF CustomersOK
<1>9. ASSUME CancelAtProvider(a) PROVE IInv'
  <2>1. KeptRows BY <1>9, SameRows DEF CancelAtProvider
  <2>2. ActorsOK' BY <1>9, <2>1, AdvanceStep DEF CancelAtProvider, At
  <2>3. ProviderOK' BY <1>9, BoundsNat DEF CancelAtProvider, ProviderOK
  <2>4. CustomersOK' /\ BoundsOK'
    BY <1>9, BoundsNat DEF CancelAtProvider, CustomersOK, BoundsOK
  <2> QED BY <1>1, <1>9, <2>2, <2>3, <2>4 DEF CancelAtProvider
<1>10. ASSUME Provision(a) PROVE IInv'
  <2>1. ~At(a, "idle") BY <1>10 DEF Provision, At
  <2>2. KeptRows BY <1>10, SameRows DEF Provision
  <2>3. ActorsOK' BY <1>10, <2>2, AdvanceStep DEF Provision, At
  <2>4. actor[a].plan \in Plans \cup {NoPlan} BY <2>1, Working DEF Actor
  <2>5. CustomersOK'
    BY <1>10, <2>4, SwitchAssumption DEF Provision, SameWorld, CustomersOK
  <2>6. ProviderOK' /\ BoundsOK' BY <1>10 DEF Provision, SameWorld, ProviderOK, BoundsOK
  <2> QED BY <1>1, <1>10, <2>3, <2>5, <2>6 DEF Provision, SameWorld
<1>11. ASSUME Bill(a) PROVE IInv'
  <2> DEFINE c == [row |-> actor[a].row, plan |-> actor[a].plan, kind |-> "newPaid",
                   left |-> MaxDeliveries, code |-> NoCode]
             Billed == \E k \in Codes :
               /\ provider' = [provider EXCEPT ![k] =
                    [status |-> "active", owner |-> Customer(a), plan |-> actor[a].plan]]
               /\ actor' = [actor EXCEPT ![a].code = k, ![a].pc = After(a)]
  <2>1. At(a, "bill") /\ ~At(a, "idle") BY <1>11 DEF Bill, At
  <2>2. RowsOK' /\ KeptRows BY <1>11, SameRows DEF Bill
  <2>3. CustomersOK' /\ BoundsOK' BY <1>11 DEF Bill, CustomersOK, BoundsOK
  <2>4. actor[a].row \in Rows /\ subs[actor[a].row].status # "none"
        /\ actor[a].plan \in Plans \cup {NoPlan}
    BY <2>1, Working DEF Actor
  <2>5. CASE Billed /\ UNCHANGED <<checkouts, echoes>>
    <3> PICK k \in Codes :
          /\ provider' = [provider EXCEPT ![k] =
               [status |-> "active", owner |-> Customer(a), plan |-> actor[a].plan]]
          /\ actor' = [actor EXCEPT ![a].code = k, ![a].pc = After(a)]
      BY <2>5
    <3> DEFINE w == [actor[a] EXCEPT !.code = k, !.pc = After(a)]
    <3>1. ProviderOK' BY <2>1, <2>4, <2>5, Working DEF ProviderOK
    <3>2. w \in Actor /\ w.row = actor[a].row /\ w.new = actor[a].new
          /\ w.kind = actor[a].kind /\ w.plan = actor[a].plan /\ w.pc = After(a)
      BY <2>1, Working, AfterStep DEF Actor
    <3>3. actor' = [actor EXCEPT ![a] = w] BY DEF ActorsOK
    <3> HIDE DEF w
    <3>4. Written(w) => w.new # NoRow
      <4> DEFINE u == [actor[a] EXCEPT !.pc = After(a)]
      <4>1. u.pc = After(a) /\ u.kind = w.kind BY <2>1, <3>2, Working DEF Actor
      <4>2. Written(u) => actor[a].new # NoRow BY <2>1, AfterWritten DEF At
      <4> HIDE DEF u
      <4> QED BY <3>2, <4>1, <4>2 DEF Written
    <3>5. ActorsOK' BY <2>1, <2>2, <3>2, <3>3, <3>4, StepOn
    <3>6. CheckoutsOK' BY <2>2, <2>5, SameCheckouts
    <3> QED BY <2>2, <2>3, <3>1, <3>5, <3>6
  <2>6. CASE Kind(a) = "newNow" /\ checkouts' = checkouts \cup {c} /\ End(a)
             /\ UNCHANGED <<provider, echoes>>
    <3>1. ActorsOK' BY <2>2, <2>6, EndStep
    <3>2. actor[a].plan \in Plans BY <2>6 DEF ActorsOK, NamesRows, Kind
    <3>3. c \in Checkout /\ c.row = actor[a].row BY <2>4, <3>2, BoundsNat DEF Checkout
    <3> HIDE DEF c
    <3>4. CheckoutsOK' BY <2>2, <2>4, <2>6, <3>3, AddCheckout
    <3>5. ProviderOK' BY <2>6 DEF ProviderOK
    <3> QED BY <2>2, <2>3, <3>1, <3>4, <3>5
  <2>7. CASE Goto(a, After(a)) /\ UNCHANGED <<checkouts, provider, echoes>>
    <3>1. ActorsOK' BY <2>1, <2>2, <2>7, GotoAfter DEF At
    <3>2. CheckoutsOK' /\ ProviderOK' BY <2>2, <2>7, SameCheckouts DEF ProviderOK
    <3> QED BY <2>2, <2>3, <3>1, <3>2
  <2> QED BY <1>11, <2>5, <2>6, <2>7 DEF Bill
<1>12. ASSUME Die(a) PROVE IInv'
  <2>1. KeptRows BY <1>12, SameRows DEF Die
  <2>2. ActorsOK' BY <1>12, <2>1, EndStep DEF Die
  <2>3. ProviderOK' /\ CustomersOK' /\ BoundsOK'
    BY <1>12, BoundsNat DEF Die, ProviderOK, CustomersOK, BoundsOK
  <2> QED BY <1>1, <1>12, <2>2, <2>3 DEF Die
<1> QED BY <1>3, <1>4, <1>5, <1>6, <1>7, <1>8, <1>9, <1>10, <1>11, <1>12

LEMMA InsertTyped ==
  ASSUME IInv, NEW a \in Actors
  PROVE  InsertFree(a) \/ Insert(a) => IInv'
<1> USE DEF IInv
<1>1. ASSUME SameWorld, UNCHANGED <<provider, entitled, lost, crossed, gaveUp>>,
             RowsOK', KeptRows, ActorsOK'
      PROVE  IInv'
  BY <1>1, SameCheckouts DEF SameWorld, ProviderOK, CustomersOK, BoundsOK
<1>2. ASSUME InsertFree(a) PROVE IInv'
  <2>1. ~At(a, "idle") BY <1>2 DEF InsertFree, At
  <2> DEFINE v == [Unused EXCEPT !.owner = Customer(a), !.status = "active", !.plan = Free,
                                 !.origin = actor[a].row]
  <2>2. PICK r \in Rows : subs[r].status = "none" /\ subs' = [subs EXCEPT ![r] = v]
    BY <1>2 DEF InsertFree
  <2>3. v \in Row /\ v.owner \in Customers /\ v.status # "none"
    BY <2>1, Working, UnusedRow, SwitchAssumption DEF Row, Unused
  <2> HIDE DEF v
  <2>4. RowsOK' /\ KeptRows BY <2>2, <2>3, WriteRow
  <2>5. ActorsOK' BY <1>2, <2>1, <2>4, GotoPlain DEF InsertFree, Steps
  <2> QED BY <1>1, <1>2, <2>4, <2>5 DEF InsertFree
<1>3. ASSUME Insert(a) PROVE IInv'
  <2>1. ~At(a, "idle") BY <1>3 DEF Insert, At
  <2> DEFINE v == [Unused EXCEPT !.owner = Customer(a), !.status = "active",
                           !.plan = actor[a].plan, !.code = NewCode(a),
                           !.cancelAt = (Kind(a) = "upgradeNow" /\ actor[a].code = NoCode)]
  <2>2. PICK r \in Rows : /\ subs[r].status = "none" /\ subs' = [subs EXCEPT ![r] = v]
                          /\ actor' = [actor EXCEPT ![a].new = r, ![a].seen = subs'[r],
                                                    ![a].pc = After(a)]
    BY <1>3 DEF Insert
  <2>3. NewCode(a) \in Codes \cup Sentinels \cup {NoCode}
    BY <2>1, WorkingSeen DEF NewCode, Sentinels
  <2>4. actor[a].plan \in Plans \cup {NoPlan} BY <2>1, Working DEF Actor
  <2>5. v \in Row /\ v.owner = Customer(a) /\ v.owner \in Customers /\ v.status # "none"
    BY <2>1, <2>3, <2>4, Working, UnusedRow DEF Row, Unused
  <2> HIDE DEF v
  <2>6. RowsOK' /\ KeptRows BY <2>2, <2>5, WriteRow
  <2>7. ActorsOK'
    <3> DEFINE w == [actor[a] EXCEPT !.new = r, !.seen = v, !.pc = After(a)]
    <3>1. w \in Actor /\ w.row = actor[a].row /\ w.new = r
          /\ w.kind = actor[a].kind /\ w.plan = actor[a].plan
      BY <2>1, <2>5, Working, AfterStep DEF Actor
    <3>2. subs'[r] = v BY <2>2 DEF RowsOK
    <3>3. actor' = [actor EXCEPT ![a] = w] BY <2>2, <3>2 DEF ActorsOK
    <3> HIDE DEF w
    <3> QED BY <2>1, <2>5, <2>6, <3>1, <3>2, <3>3, StepWith
  <2> QED BY <1>1, <1>3, <2>6, <2>7 DEF Insert
<1> QED BY <1>2, <1>3

(* The statements over the subscription that was found or made. *)
LEMMA NewRowTyped ==
  ASSUME IInv, NEW a \in Actors, Renew(a) \/ Reopen(a) \/ Link(a) \/ LinkInline(a)
  PROVE  IInv'
<1> USE DEF IInv
<1> DEFINE r == actor[a].new
<1>1. Written(actor[a]) BY DEF Renew, Reopen, Link, LinkInline, At, Written
<1>2. /\ r \in Rows /\ subs[r] \in Row /\ subs[r].status # "none" /\ subs[r].owner \in Customers
      /\ Customer(a) \in Customers /\ ~At(a, "idle")
  BY <1>1, Working, WorkingNew
<1>3. ASSUME NEW v \in Row, v.owner = subs[r].owner, v.status # "none",
             subs' = [subs EXCEPT ![r] = v]
      PROVE  RowsOK' /\ KeptRows
  BY <1>2, <1>3, WriteRow
<1>4. /\ lost' \in {lost, lost \cup {r}} /\ crossed' \in {crossed, crossed \cup {Customer(a)}}
      /\ SameWorld /\ UNCHANGED <<provider, entitled, gaveUp>> /\ Goto(a, After(a))
  BY DEF Renew, Reopen, Link, LinkInline
<1>5. CustomersOK' /\ ProviderOK' /\ BoundsOK'
  BY <1>2, <1>4 DEF SameWorld, CustomersOK, ProviderOK, BoundsOK
<1>6. RowsOK' /\ KeptRows
  <2>1. CASE Renew(a)
    <3> DEFINE v == [subs[r] EXCEPT !.status = "active", !.sched = actor[a].seen.sched,
                                    !.claimed = actor[a].seen.claimed]
    <3>1. subs' = [subs EXCEPT ![r] = v] BY <2>1 DEF Renew, RowsOK
    <3>2. v \in Row /\ v.owner = subs[r].owner /\ v.status # "none"
      BY <1>2, WorkingSeen DEF Row
    <3> HIDE DEF v, r
    <3> QED BY <1>3, <3>1, <3>2
  <2>2. CASE Reopen(a)
    <3> DEFINE v == [subs[r] EXCEPT !.status = "active"]
    <3>1. subs' = [subs EXCEPT ![r] = v] BY <2>2 DEF Reopen, RowsOK
    <3>2. v \in Row /\ v.owner = subs[r].owner /\ v.status # "none" BY <1>2 DEF Row
    <3> HIDE DEF v, r
    <3> QED BY <1>3, <3>1, <3>2
  <2>3. CASE Link(a)
    <3> DEFINE code == IF NeedsLink(a) THEN actor[a].code ELSE actor[a].seen.code
               v == [subs[r] EXCEPT !.code = code,
                                    !.cancelAt = (NeedsLink(a) /\ actor[a].code = NoCode),
                                    !.sched = FALSE, !.claimed = FALSE]
    <3>1. subs' = [subs EXCEPT ![r] = v] BY <2>3 DEF Link, RowsOK
    <3>2. code \in Codes \cup Sentinels \cup {NoCode} BY <1>2, WorkingSeen
    <3> HIDE DEF code
    <3>3. v \in Row /\ v.owner = subs[r].owner /\ v.status # "none" BY <1>2, <3>2 DEF Row
    <3> HIDE DEF v, r
    <3> QED BY <1>3, <3>1, <3>3
  <2>4. CASE LinkInline(a)
    <3> DEFINE unbilled == NeedsLink(a) /\ actor[a].code = NoCode
               sched == IF unbilled THEN actor[a].seen.sched ELSE subs[r].sched
               claimed == IF unbilled THEN actor[a].seen.claimed ELSE subs[r].claimed
               v == [subs[r] EXCEPT !.code = actor[a].code, !.cancelAt = unbilled,
                                    !.sched = sched, !.claimed = claimed]
    <3>1. UNCHANGED subs \/ subs' = [subs EXCEPT ![r] = v] BY <2>4 DEF LinkInline, RowsOK
    <3>2. sched \in BOOLEAN /\ claimed \in BOOLEAN BY <1>2, WorkingSeen DEF Row
    <3>3. unbilled \in BOOLEAN BY DEF NeedsLink
    <3> HIDE DEF sched, claimed, unbilled
    <3>4. v \in Row /\ v.owner = subs[r].owner /\ v.status # "none"
      BY <1>2, <3>2, <3>3, WorkingSeen DEF Row
    <3> HIDE DEF v, r
    <3> QED BY <1>3, <3>1, <3>4, SameRows
  <2> QED BY <2>1, <2>2, <2>3, <2>4
<1>7. ActorsOK'
  <2>1. ~At(a, "find") /\ ~At(a, "insert") BY <1>1 DEF Written, At
  <2> QED BY <1>2, <1>4, <1>6, <2>1, GotoAfter
<1>8. CheckoutsOK' BY <1>4, <1>6, SameCheckouts DEF SameWorld
<1> QED BY <1>5, <1>6, <1>7, <1>8

LEMMA NextTyped == IInv /\ [Next]_vars => IInv'
<1> SUFFICES ASSUME IInv, [Next]_vars PROVE IInv'
  OBVIOUS
<1>1. ASSUME NEW a \in Actors, Work(a) \/ Die(a) PROVE IInv'
  BY <1>1, OwnRowTyped, ReadTyped, InsertTyped, NewRowTyped DEF Work
<1>2. ASSUME UNCHANGED vars PROVE IInv'
  <2>1. RowsOK' /\ KeptRows BY <1>2, SameRows DEF IInv, vars
  <2>2. ActorsOK' /\ CheckoutsOK' BY <1>2, <2>1, SameActors, SameCheckouts DEF IInv, vars
  <2> QED BY <1>2, <2>1, <2>2 DEF IInv, vars, ProviderOK, CustomersOK, BoundsOK
<1>3. ASSUME NEW a \in Actors, NEW r \in Rows,
             \/ \E plan \in Plans : AskDowngrade(a, r, plan) \/ AskUpgrade(a, r, plan)
             \/ \E kind \in {"cancelNow", "cancelLater"} : AskCancel(a, r, kind)
      PROVE  IInv'
  <2>1. Free \in Plans BY SwitchAssumption
  <2> QED BY <1>3, <2>1, AskTyped
<1>4. ASSUME NEW a \in Actors, NEW k \in checkouts,
             PayUpgrade(a, k) \/ \E code \in Codes : PayNew(a, k, code)
      PROVE  IInv'
  BY <1>4, EventsTyped
<1>5. ASSUME NEW k \in Codes, AskProvider(k) \/ \E a \in Actors : DeliverCanceled(a, k)
      PROVE  IInv'
  BY <1>5, EventsTyped
<1> QED BY <1>1, <1>2, <1>3, <1>4, <1>5 DEF Next

(* The rows, actors, checkouts and counters keep their types, whatever     *)
(* upgrades, downgrades, cancellations, payments and webhooks overlap.     *)
THEOREM TypeCorrect == Spec => []TypeOK
<1>1. Init => IInv BY InitTyped
<1>2. IInv /\ [Next]_vars => IInv' BY NextTyped
<1> QED BY <1>1, <1>2, IInvTyped, PTL DEF Spec

-----------------------------------------------------------------------------
(* An actor that may be about to insert the free subscription for row r.   *)
Holds(a, r) == actor[a].pc \in {"look", "insertFree"} /\ actor[a].row = r

UnusedIsBlank ==
  \A r \in Rows : subs[r].status = "none" => ~subs[r].claimed /\ subs[r].origin = NoRow
HolderClaimed ==
  \A a \in Actors, r \in Rows \ lost : Holds(a, r) => subs[r].claimed
OneHolder ==
  \A a, b \in Actors, r \in Rows \ lost : Holds(a, r) /\ Holds(b, r) => a = b
MadeOnce ==
  \A f \in Rows, r \in Rows \ lost :
    subs[f].origin = r => subs[r].claimed /\ \A a \in Actors : ~Holds(a, r)

ClaimInv ==
  /\ UnusedIsBlank /\ HolderClaimed /\ OneHolder /\ MadeOnce
  /\ OneFreePerCancellation

(* What every step does but a claim and the insertion it allows: no claim  *)
(* is taken back unless it is lost, no origin appears, nobody comes to     *)
(* hold a row.                                                             *)
Monotone ==
  /\ lost \subseteq lost'
  /\ \A r \in Rows \ lost' : subs[r].claimed => subs'[r].claimed
  /\ \A r \in Rows : subs'[r].origin \in {subs[r].origin, NoRow}
  /\ \A r \in Rows : subs'[r].status = "none" => subs'[r] = subs[r]
  /\ \A a \in Actors, r \in Rows : Holds(a, r)' => Holds(a, r)

LEMMA MonotoneKeepsClaim ==
  ASSUME Tables, ClaimInv, Monotone
  PROVE  ClaimInv'
<1> USE DEF Monotone, Tables
<1>1. UnusedIsBlank' BY DEF ClaimInv, UnusedIsBlank
<1>2. HolderClaimed' BY DEF ClaimInv, HolderClaimed
<1>3. OneHolder' BY DEF ClaimInv, OneHolder
<1>4. MadeOnce'
  <2> SUFFICES ASSUME NEW f \in Rows, NEW r \in Rows, r \notin lost', subs'[f].origin = r
               PROVE  subs'[r].claimed /\ \A a \in Actors : ~Holds(a, r)'
    BY DEF MadeOnce
  <2>1. subs[f].origin = r BY SwitchAssumption
  <2> QED BY <2>1 DEF ClaimInv, MadeOnce
<1>5. OneFreePerCancellation'
  BY DEF ClaimInv, OneFreePerCancellation
<1> QED BY <1>1, <1>2, <1>3, <1>4, <1>5 DEF ClaimInv

(* A step that leaves the table alone and moves one actor elsewhere. *)
LEMMA MoveIsMonotone ==
  ASSUME Tables, NEW a \in Actors, UNCHANGED <<subs, lost>>,
         NEW v, actor' = [actor EXCEPT ![a] = v],
         v.pc \notin {"look", "insertFree"} \/ (v.row = actor[a].row /\ At(a, "look"))
  PROVE  Monotone
BY DEF Monotone, Tables, Holds, At

(* A step that writes one row, keeps its claim or loses it on the record,  *)
(* and moves one actor away from the free plan's insertion.                *)
LEMMA WriteIsMonotone ==
  ASSUME Tables, NEW a \in Actors, NEW r \in Rows, NEW v,
         subs' = [subs EXCEPT ![r] = v], lost \subseteq lost',
         subs[r].claimed => v.claimed \/ r \in lost',
         v.origin \in {subs[r].origin, NoRow}, v.status # "none",
         NEW w, actor' = [actor EXCEPT ![a] = w], w.pc \notin {"look", "insertFree"}
  PROVE  Monotone
<1>1. \A q \in Rows : subs'[q] = IF q = r THEN v ELSE subs[q] BY DEF Tables
<1>2. \A b \in Actors : actor'[b] = IF b = a THEN w ELSE actor[b] BY DEF Tables
<1> QED BY <1>1, <1>2 DEF Monotone, Holds

LEMMA ActorMoves ==
  ASSUME Tables, NEW a \in Actors
  PROVE  /\ \A step : Goto(a, step) => /\ actor' = [actor EXCEPT ![a] = [actor[a] EXCEPT !.pc = step]]
                                       /\ [actor[a] EXCEPT !.pc = step].pc = step
                                       /\ [actor[a] EXCEPT !.pc = step].row = actor[a].row
         /\ End(a) => actor' = [actor EXCEPT ![a] = Idle] /\ Idle.pc = "idle"
BY DEF Tables, Actor, Goto, End, Idle

LEMMA AdvanceMoves ==
  ASSUME Tables, NEW a \in Actors, Advance(a)
  PROVE  \E w : actor' = [actor EXCEPT ![a] = w] /\ w.pc \notin {"look", "insertFree"}
<1>1. CASE End(a) BY <1>1, ActorMoves
<1>2. CASE Goto(a, After(a))
  <2> DEFINE w == [actor[a] EXCEPT !.pc = After(a)]
  <2>1. actor' = [actor EXCEPT ![a] = w] /\ w.pc = After(a) BY <1>2, ActorMoves
  <2> HIDE DEF w
  <2> QED BY <2>1, AfterStep
<1> QED BY <1>1, <1>2 DEF Advance

LEMMA BeginIsMonotone ==
  ASSUME Tables, NEW a \in Actors, NEW kind, NEW step, NEW r, NEW plan, NEW code,
         Begin(a, kind, step, r, plan, code), step \notin {"look", "insertFree"},
         UNCHANGED <<subs, lost>>
  PROVE  Monotone
<1> DEFINE v == [kind |-> kind, pc |-> step, row |-> r, seen |-> subs[r], plan |-> plan,
                 new |-> NoRow, code |-> code]
<1>1. actor' = [actor EXCEPT ![a] = v] /\ v.pc = step BY DEF Begin
<1> HIDE DEF v
<1> QED BY <1>1, MoveIsMonotone

LEMMA StillIsMonotone ==
  ASSUME Tables, UNCHANGED <<subs, lost, actor>>
  PROVE  Monotone
BY DEF Monotone, Tables, Holds

LEMMA StartsAreMonotone ==
  ASSUME IInv
  PROVE  /\ \A a \in Actors, r \in Rows :
              /\ \A plan \in Plans : AskDowngrade(a, r, plan) \/ AskUpgrade(a, r, plan) => Monotone
              /\ \A kind \in {"cancelNow", "cancelLater"} : AskCancel(a, r, kind) => Monotone
         /\ \A a \in Actors, k \in checkouts :
              PayUpgrade(a, k) \/ (\E code \in Codes : PayNew(a, k, code)) => Monotone
         /\ \A a \in Actors, k \in Codes : DeliverCanceled(a, k) \/ AskProvider(k) => Monotone
<1>1. Tables BY TablesTyped
<1>2. ASSUME NEW a \in Actors, NEW r \in Rows, NEW plan \in Plans,
             AskDowngrade(a, r, plan) \/ AskUpgrade(a, r, plan)
      PROVE  Monotone
  <2>1. UNCHANGED <<subs, lost>> BY <1>2 DEF AskDowngrade, AskUpgrade, Ask
  <2>2. CASE AskDowngrade(a, r, plan) BY <1>1, <2>1, <2>2, BeginIsMonotone DEF AskDowngrade
  <2>3. CASE AskUpgrade(a, r, plan)
    <3>1. CASE UNCHANGED actor BY <1>1, <2>1, <3>1, StillIsMonotone
    <3>2. CASE Begin(a, IF Paid(subs[r].plan) THEN "upgradeNow" ELSE "newNow",
                     IF Paid(subs[r].plan) THEN "cancelAtProvider" ELSE "bill",
                     r, plan, NoCode)
      BY <1>1, <2>1, <3>2, BeginIsMonotone
    <3> QED BY <2>3, <3>1, <3>2 DEF AskUpgrade
  <2> QED BY <1>2, <2>2, <2>3
<1>3. ASSUME NEW a \in Actors, NEW r \in Rows, NEW kind \in {"cancelNow", "cancelLater"},
             AskCancel(a, r, kind)
      PROVE  Monotone
  BY <1>1, <1>3, BeginIsMonotone DEF AskCancel, Ask
<1>4. ASSUME NEW a \in Actors, NEW k \in checkouts,
             PayUpgrade(a, k) \/ \E code \in Codes : PayNew(a, k, code)
      PROVE  Monotone
  <2>1. UNCHANGED <<subs, lost>> BY <1>4 DEF PayUpgrade, PayNew
  <2>2. CASE PayUpgrade(a, k)
    <3> PICK kind \in Kinds : Begin(a, kind, "cancelAtProvider", k.row, k.plan, NoCode)
      BY <2>2 DEF PayUpgrade, Kinds
    <3> QED BY <1>1, <2>1, BeginIsMonotone
  <2>3. ASSUME NEW code \in Codes, PayNew(a, k, code) PROVE Monotone
    <3>1. Begin(a, "newPaid", "find", k.row, k.plan, code) BY <2>3 DEF PayNew
    <3> QED BY <1>1, <2>1, <3>1, BeginIsMonotone
  <2> QED BY <1>4, <2>2, <2>3
<1>5. ASSUME NEW a \in Actors, NEW k \in Codes, DeliverCanceled(a, k) PROVE Monotone
  <2>1. UNCHANGED <<subs, lost>> BY <1>5 DEF DeliverCanceled
  <2>2. CASE UNCHANGED actor BY <1>1, <2>1, <2>2, StillIsMonotone
  <2>3. CASE \E r : Begin(a, "canceled", "cancelRow", r, NoPlan, k)
    BY <1>1, <2>1, <2>3, BeginIsMonotone
  <2> QED BY <1>5, <2>2, <2>3 DEF DeliverCanceled
<1>6. ASSUME NEW k \in Codes, AskProvider(k) PROVE Monotone
  BY <1>1, <1>6, StillIsMonotone DEF AskProvider
<1> QED BY <1>2, <1>3, <1>4, <1>5, <1>6

LEMMA ReadsAreMonotone ==
  ASSUME IInv, NEW a \in Actors,
         \/ Wake(a) \/ VerifyCancel(a) \/ VerifyDowngrade(a) \/ Look(a)
         \/ Find(a) \/ InsertRefused(a) \/ ReviveRefused(a) \/ Load(a)
         \/ CancelAtProvider(a) \/ Provision(a) \/ Bill(a) \/ Die(a)
  PROVE  Monotone
<1>1. Tables BY TablesTyped
<1> DEFINE Moved(v) == /\ actor' = [actor EXCEPT ![a] = v]
                       /\ \/ v.pc \notin {"look", "insertFree"}
                          \/ v.row = actor[a].row /\ At(a, "look")
<1>2. UNCHANGED <<subs, lost>>
  BY DEF Wake, VerifyCancel, VerifyDowngrade, Look, Find, InsertRefused, ReviveRefused, Load,
         CancelAtProvider, Provision, Bill, Die, SameWorld
<1>3. ASSUME NEW step, Goto(a, step), step \notin {"look", "insertFree"} \/ At(a, "look")
      PROVE  \E v : Moved(v)
  <2> DEFINE w == [actor[a] EXCEPT !.pc = step]
  <2>1. actor' = [actor EXCEPT ![a] = w] /\ w.pc = step /\ w.row = actor[a].row
    BY <1>1, <1>3, ActorMoves
  <2> HIDE DEF w
  <2> QED BY <1>3, <2>1
<1>4. ASSUME End(a) PROVE \E v : Moved(v)
  BY <1>1, <1>4, ActorMoves
<1>5. ASSUME NEW w, actor' = [actor EXCEPT ![a] = w], w.pc \notin {"look", "insertFree"}
      PROVE  Monotone
  BY <1>1, <1>2, <1>5, MoveIsMonotone
<1>6. CASE Wake(a) \/ VerifyDowngrade(a) \/ Look(a)
  BY <1>3, <1>4, <1>6, <1>1, <1>2, MoveIsMonotone DEF Wake, VerifyDowngrade, Look
<1>7. CASE VerifyCancel(a)
  <2> DEFINE w == [actor[a] EXCEPT !.pc = "claim", !.seen = subs[actor[a].row]]
  <2>1. CASE End(a) BY <1>4, <2>1, <1>1, <1>2, MoveIsMonotone
  <2>2. CASE actor' = [actor EXCEPT ![a] = w]
    <3>1. w.pc = "claim" BY <1>1 DEF Tables, Actor
    <3> HIDE DEF w
    <3> QED BY <1>1, <1>2, <2>2, <3>1, MoveIsMonotone
  <2>3. End(a) \/ actor' = [actor EXCEPT ![a] = w] BY <1>1, <1>7 DEF VerifyCancel, Tables
  <2> QED BY <2>1, <2>2, <2>3
<1>8. CASE Find(a)
  <2>1. CASE Goto(a, "insert") BY <1>1, <1>2, <1>3, <2>1, MoveIsMonotone
  <2>2. ASSUME NEW r, actor' = [actor EXCEPT ![a].new = r, ![a].seen = subs[r],
                                             ![a].pc = After(a)]
        PROVE  Monotone
    <3> DEFINE w == [actor[a] EXCEPT !.new = r, !.seen = subs[r], !.pc = After(a)]
    <3>1. actor' = [actor EXCEPT ![a] = w] /\ w.pc = After(a) BY <1>1, <2>2 DEF Tables, Actor
    <3> HIDE DEF w
    <3> QED BY <1>5, <3>1, AfterStep
  <2> QED BY <1>8, <2>1, <2>2 DEF Find
<1>9. CASE InsertRefused(a)
  <2>1. CASE Goto(a, "find") \/ End(a) BY <1>1, <1>2, <1>3, <1>4, <2>1, MoveIsMonotone
  <2>2. ASSUME NEW r, actor' = [actor EXCEPT ![a].new = r, ![a].pc = "reopen"]
        PROVE  Monotone
    <3> DEFINE w == [actor[a] EXCEPT !.new = r, !.pc = "reopen"]
    <3>1. actor' = [actor EXCEPT ![a] = w] /\ w.pc = "reopen" BY <1>1, <2>2 DEF Tables, Actor
    <3> HIDE DEF w
    <3> QED BY <1>5, <3>1
  <2> QED BY <1>9, <2>1, <2>2 DEF InsertRefused
<1>13. CASE ReviveRefused(a)
  BY <1>1, <1>2, <1>4, <1>13, MoveIsMonotone DEF ReviveRefused
<1>14. CASE Load(a)
  <2> DEFINE w == [actor[a] EXCEPT !.seen = subs[actor[a].new], !.pc = After(a)]
  <2>1. actor' = [actor EXCEPT ![a] = w] /\ w.pc = After(a)
    BY <1>1, <1>14 DEF Load, Tables, Actor
  <2> HIDE DEF w
  <2> QED BY <1>5, <2>1, AfterStep
<1>10. CASE CancelAtProvider(a) \/ Provision(a)
  <2>1. Advance(a) BY <1>10 DEF CancelAtProvider, Provision
  <2> QED BY <1>1, <1>2, <2>1, AdvanceMoves, MoveIsMonotone
<1>11. CASE Bill(a)
  <2>1. \/ End(a) \/ Goto(a, After(a))
        \/ \E k : actor' = [actor EXCEPT ![a].code = k, ![a].pc = After(a)]
    BY <1>11 DEF Bill
  <2>2. ASSUME NEW k, actor' = [actor EXCEPT ![a].code = k, ![a].pc = After(a)]
        PROVE  \E v : Moved(v)
    <3> DEFINE w == [actor[a] EXCEPT !.code = k, !.pc = After(a)]
    <3>1. actor' = [actor EXCEPT ![a] = w] /\ w.pc = After(a) BY <1>1, <2>2 DEF Tables, Actor
    <3> HIDE DEF w
    <3> QED BY <3>1, AfterStep
  <2> QED BY <1>1, <1>2, <1>3, <1>4, <2>1, <2>2, AfterStep, MoveIsMonotone
<1>12. CASE Die(a)
  BY <1>1, <1>2, <1>4, <1>12, MoveIsMonotone DEF Die
<1> QED BY <1>6, <1>7, <1>8, <1>9, <1>10, <1>11, <1>12, <1>13, <1>14

LEMMA WritesAreMonotone ==
  ASSUME IInv, NEW a \in Actors,
         \/ CancelRow(a) \/ ScheduleCancel(a) \/ ScheduleDowngrade(a) \/ Mark(a)
         \/ Insert(a)
  PROVE  Monotone
<1>1. Tables BY TablesTyped
<1>2. ~At(a, "idle")
  BY DEF CancelRow, ScheduleCancel, ScheduleDowngrade, Mark, Insert, At
<1>3. /\ actor[a].row \in Rows /\ subs[actor[a].row] \in Row
      /\ subs[actor[a].row].status # "none"
  BY <1>2, Working
<1> DEFINE Away(w) == actor' = [actor EXCEPT ![a] = w] /\ w.pc \notin {"look", "insertFree"}
<1>4. ASSUME NEW kind, actor' = [actor EXCEPT ![a].kind = kind, ![a].pc = "sleep"]
      PROVE  \E w : Away(w)
  <2> DEFINE w == [actor[a] EXCEPT !.kind = kind, !.pc = "sleep"]
  <2>1. actor' = [actor EXCEPT ![a] = w] /\ w.pc = "sleep" BY <1>1, <1>4 DEF Tables, Actor
  <2> HIDE DEF w
  <2> QED BY <2>1
<1>5. CASE CancelRow(a)
  <2> DEFINE v == [subs[actor[a].row] EXCEPT !.status = "canceled",
                     !.code = IF Kind(a) = "canceled" THEN actor[a].code ELSE @]
  <2>1. subs' = [subs EXCEPT ![actor[a].row] = v] BY <1>1, <1>5 DEF CancelRow, Tables
  <2>2. /\ v.claimed = subs[actor[a].row].claimed /\ v.origin = subs[actor[a].row].origin
        /\ v.status # "none"
    BY <1>3 DEF Row
  <2>3. UNCHANGED lost /\ Advance(a) BY <1>5 DEF CancelRow
  <2> HIDE DEF v
  <2>4. PICK w : Away(w) BY <1>1, <2>3, AdvanceMoves
  <2> QED BY <1>1, <1>3, <2>1, <2>2, <2>3, <2>4, WriteIsMonotone
<1>6. CASE ScheduleCancel(a)
  <2> DEFINE v == [subs[actor[a].row] EXCEPT !.status = "active", !.cancelAt = TRUE]
  <2>1. subs' = [subs EXCEPT ![actor[a].row] = v] BY <1>1, <1>6 DEF ScheduleCancel, Tables
  <2>2. /\ v.claimed = subs[actor[a].row].claimed /\ v.origin = subs[actor[a].row].origin
        /\ v.status # "none"
    BY <1>3 DEF Row
  <2>3. UNCHANGED lost BY <1>6 DEF ScheduleCancel
  <2> HIDE DEF v
  <2>4. PICK w : Away(w)
    <3>1. CASE End(a) BY <1>1, <3>1, ActorMoves
    <3> QED BY <1>4, <1>6, <3>1 DEF ScheduleCancel
  <2> QED BY <1>1, <1>3, <2>1, <2>2, <2>3, <2>4, WriteIsMonotone
<1>7. CASE ScheduleDowngrade(a)
  <2> DEFINE v == [subs[actor[a].row] EXCEPT !.status = "active", !.cancelAt = TRUE,
                     !.sched = TRUE, !.claimed = actor[a].seen.claimed]
  <2>1. subs' = [subs EXCEPT ![actor[a].row] = v] BY <1>1, <1>7 DEF ScheduleDowngrade, Tables
  <2>2. /\ v.claimed = actor[a].seen.claimed /\ v.origin = subs[actor[a].row].origin
        /\ v.status # "none"
    BY <1>3 DEF Row
  <2>3. lost \subseteq lost' /\ (subs[actor[a].row].claimed => actor[a].seen.claimed \/ actor[a].row \in lost')
    BY <1>7 DEF ScheduleDowngrade
  <2> HIDE DEF v
  <2>4. PICK w : Away(w)
    <3>1. CASE End(a) BY <1>1, <3>1, ActorMoves
    <3> QED BY <1>4, <1>7, <3>1 DEF ScheduleDowngrade
  <2> QED BY <1>1, <1>3, <2>1, <2>2, <2>3, <2>4, WriteIsMonotone
<1>8. CASE Mark(a)
  <2> DEFINE v == [subs[actor[a].row] EXCEPT !.status = "canceled", !.claimed = TRUE, !.sched = FALSE]
             u == [subs[actor[a].row] EXCEPT !.claimed = TRUE, !.sched = actor[a].seen.sched]
  <2>1. \/ subs' = [subs EXCEPT ![actor[a].row] = v]
        \/ subs' = [subs EXCEPT ![actor[a].row] = u]
    BY <1>1, <1>8 DEF Mark, Tables
  <2>2. /\ v.claimed /\ v.origin = subs[actor[a].row].origin /\ v.status # "none"
        /\ u.claimed /\ u.origin = subs[actor[a].row].origin /\ u.status # "none"
    BY <1>3 DEF Row
  <2>3. UNCHANGED lost /\ End(a) BY <1>8 DEF Mark, SameWorld
  <2> HIDE DEF v, u
  <2>4. PICK w : Away(w) BY <1>1, <2>3, ActorMoves
  <2> QED BY <1>1, <1>3, <2>1, <2>2, <2>3, <2>4, WriteIsMonotone
<1>9. CASE Insert(a)
  <2> DEFINE v == [Unused EXCEPT !.owner = Customer(a), !.status = "active",
                           !.plan = actor[a].plan, !.code = NewCode(a),
                           !.cancelAt = (Kind(a) = "upgradeNow" /\ actor[a].code = NoCode)]
  <2>1. PICK r \in Rows : /\ subs[r].status = "none" /\ subs' = [subs EXCEPT ![r] = v]
                          /\ actor' = [actor EXCEPT ![a].new = r, ![a].seen = subs'[r],
                                                    ![a].pc = After(a)]
    BY <1>9 DEF Insert
  <2>2. v.origin = NoRow /\ v.status # "none" BY DEF Unused
  <2>3. ~subs[r].claimed BY <2>1 DEF IInv, RowsOK, Unused
  <2>4. UNCHANGED lost BY <1>9 DEF Insert
  <2> HIDE DEF v
  <2> DEFINE w == [actor[a] EXCEPT !.new = r, !.seen = v, !.pc = After(a)]
  <2>5. subs'[r] = v BY <1>1, <2>1 DEF Tables
  <2>6. actor' = [actor EXCEPT ![a] = w] /\ w.pc = After(a)
    BY <1>1, <2>1, <2>5 DEF Tables, Actor
  <2> HIDE DEF w
  <2> QED BY <1>1, <2>1, <2>2, <2>3, <2>4, <2>6, AfterStep, WriteIsMonotone
<1> QED BY <1>5, <1>6, <1>7, <1>8, <1>9

(* What is written over the subscription that was found or made: old       *)
(* metadata, and then a claim that goes is lost on the record.             *)
LEMMA RenewalsAreMonotone ==
  ASSUME IInv, NEW a \in Actors, Renew(a) \/ Reopen(a) \/ Link(a) \/ LinkInline(a)
  PROVE  Monotone
<1>1. Tables BY TablesTyped
<1> DEFINE r == actor[a].new
           seen == actor[a].seen
<1>2. Written(actor[a]) BY DEF Renew, Reopen, Link, LinkInline, At, Written
<1>3. r \in Rows /\ subs[r] \in Row /\ subs[r].status # "none" BY <1>2, WorkingNew
<1>4. Goto(a, After(a)) BY DEF Renew, Reopen, Link, LinkInline
<1> DEFINE w == [actor[a] EXCEPT !.pc = After(a)]
<1>5. actor' = [actor EXCEPT ![a] = w] /\ w.pc \notin {"look", "insertFree"}
  BY <1>1, <1>4, ActorMoves, AfterStep
<1> HIDE DEF w
<1>6. ASSUME NEW v, subs' = [subs EXCEPT ![r] = v], lost \subseteq lost',
             subs[r].claimed => v.claimed \/ r \in lost',
             v.origin = subs[r].origin, v.status # "none"
      PROVE  Monotone
  BY <1>1, <1>3, <1>5, <1>6, WriteIsMonotone
<1>7. CASE Renew(a)
  <2> DEFINE v == [subs[r] EXCEPT !.status = "active", !.sched = seen.sched,
                                  !.claimed = seen.claimed]
  <2>1. subs' = [subs EXCEPT ![r] = v] BY <1>1, <1>7 DEF Renew, Tables
  <2>2. v.claimed = seen.claimed /\ v.origin = subs[r].origin /\ v.status # "none"
    BY <1>3 DEF Row
  <2>3. lost \subseteq lost' /\ (subs[r].claimed => seen.claimed \/ r \in lost')
    BY <1>7 DEF Renew
  <2> HIDE DEF v
  <2> QED BY <1>6, <2>1, <2>2, <2>3
<1>8. CASE Reopen(a)
  <2> DEFINE v == [subs[r] EXCEPT !.status = "active"]
  <2>1. subs' = [subs EXCEPT ![r] = v] /\ UNCHANGED lost BY <1>1, <1>8 DEF Reopen, Tables
  <2>2. v.claimed = subs[r].claimed /\ v.origin = subs[r].origin /\ v.status # "none"
    BY <1>3 DEF Row
  <2> HIDE DEF v
  <2> QED BY <1>6, <2>1, <2>2
<1>9. CASE Link(a)
  <2> DEFINE v == [subs[r] EXCEPT
                     !.code = IF NeedsLink(a) THEN actor[a].code ELSE seen.code,
                     !.cancelAt = (NeedsLink(a) /\ actor[a].code = NoCode),
                     !.sched = FALSE, !.claimed = FALSE]
  <2>1. subs' = [subs EXCEPT ![r] = v] BY <1>1, <1>9 DEF Link, Tables
  <2>2. v.origin = subs[r].origin /\ v.status # "none" BY <1>3 DEF Row
  <2>3. lost \subseteq lost' /\ (subs[r].claimed => r \in lost') BY <1>9 DEF Link
  <2> HIDE DEF v
  <2> QED BY <1>6, <2>1, <2>2, <2>3
<1>10. CASE LinkInline(a)
  <2> DEFINE unbilled == NeedsLink(a) /\ actor[a].code = NoCode
             sched == IF unbilled THEN seen.sched ELSE subs[r].sched
             claimed == IF unbilled THEN seen.claimed ELSE subs[r].claimed
             v == [subs[r] EXCEPT !.code = actor[a].code, !.cancelAt = unbilled,
                                  !.sched = sched, !.claimed = claimed]
  <2>1. /\ lost \subseteq lost'
        /\ subs[r].claimed /\ unbilled => seen.claimed \/ r \in lost'
    BY <1>10 DEF LinkInline
  <2>2. CASE NeedsLink(a)
    <3>1. subs' = [subs EXCEPT ![r] = v] BY <1>1, <1>10, <2>2 DEF LinkInline, Tables
    <3>2. v.claimed = claimed /\ v.origin = subs[r].origin /\ v.status # "none"
      BY <1>3 DEF Row
    <3>3. subs[r].claimed => claimed \/ r \in lost' BY <2>1
    <3> HIDE DEF v, claimed
    <3> QED BY <1>6, <2>1, <3>1, <3>2, <3>3
  <2>3. CASE ~NeedsLink(a)
    <3>1. UNCHANGED <<subs, lost>> BY <1>10, <2>3 DEF LinkInline
    <3> QED BY <1>1, <1>5, <3>1, MoveIsMonotone
  <2> QED BY <2>2, <2>3
<1> QED BY <1>7, <1>8, <1>9, <1>10

-----------------------------------------------------------------------------
(* The two steps that are not monotone. *)
LEMMA ClaimKeepsClaim ==
  ASSUME IInv, ClaimInv, NEW a \in Actors, Claim(a)
  PROVE  ClaimInv'
<1>1. Tables BY TablesTyped
<1> DEFINE r == actor[a].row
           v == [subs[r] EXCEPT !.claimed = TRUE]
           w == [actor[a] EXCEPT !.pc = "look"]
<1>2. CASE subs[r].claimed
  <2>1. End(a) /\ UNCHANGED <<subs, lost>> BY <1>2 DEF Claim
  <2>2. Monotone BY <1>1, <2>1, ActorMoves, MoveIsMonotone
  <2> QED BY <1>1, <2>2, MonotoneKeepsClaim
<1>3. CASE ~subs[r].claimed
  <2>1. ~At(a, "idle") BY DEF Claim, At
  <2>2. r \in Rows /\ subs[r] \in Row /\ subs[r].status # "none" BY <2>1, Working
  <2>3. v.claimed /\ v.origin = subs[r].origin /\ v.status = subs[r].status
    BY <2>2 DEF Row
  <2>4. subs' = [subs EXCEPT ![r] = v] /\ UNCHANGED lost BY <1>1, <1>3 DEF Claim, Tables
  <2>5. actor' = [actor EXCEPT ![a] = w] /\ w.pc = "look" /\ w.row = r
    BY <1>1, <1>3, ActorMoves DEF Claim
  <2> HIDE DEF v, w, r
  <2>6. \A q \in Rows : subs'[q] = IF q = r THEN v ELSE subs[q] BY <1>1, <2>4 DEF Tables
  <2>7. \A b \in Actors, q \in Rows : Holds(b, q)' <=> IF b = a THEN q = r ELSE Holds(b, q)
    BY <1>1, <2>5 DEF Tables, Holds
  <2>8. r \notin lost => \A b \in Actors : ~Holds(b, r)
    BY <1>3, <2>2 DEF ClaimInv, HolderClaimed, r
  <2>9. r \notin lost => \A f \in Rows : subs[f].origin # r
    BY <1>3, <2>2 DEF ClaimInv, MadeOnce, r
  <2>10. UnusedIsBlank' BY <2>2, <2>3, <2>6 DEF ClaimInv, UnusedIsBlank
  <2>11. HolderClaimed' BY <2>3, <2>4, <2>6, <2>7 DEF ClaimInv, HolderClaimed
  <2>12. OneHolder' BY <2>4, <2>7, <2>8 DEF ClaimInv, OneHolder
  <2>13. MadeOnce' BY <2>2, <2>3, <2>4, <2>6, <2>7, <2>9 DEF ClaimInv, MadeOnce
  <2>14. OneFreePerCancellation'
    BY <2>2, <2>3, <2>4, <2>6 DEF ClaimInv, OneFreePerCancellation
  <2> QED BY <2>10, <2>11, <2>12, <2>13, <2>14 DEF ClaimInv
<1> QED BY <1>2, <1>3

LEMMA InsertFreeKeepsClaim ==
  ASSUME IInv, ClaimInv, NEW a \in Actors, InsertFree(a)
  PROVE  ClaimInv'
<1>1. Tables BY TablesTyped
<1> DEFINE r == actor[a].row
           v == [Unused EXCEPT !.owner = Customer(a), !.status = "active", !.plan = Free,
                               !.origin = actor[a].row]
           w == [actor[a] EXCEPT !.pc = "provision"]
<1>2. PICK f \in Rows : subs[f].status = "none" /\ subs' = [subs EXCEPT ![f] = v]
  BY DEF InsertFree
<1>3. ~At(a, "idle") /\ UNCHANGED lost BY DEF InsertFree, At
<1>4. r \in Rows /\ subs[r].status # "none" BY <1>3, Working
<1>5. v.origin = r /\ ~v.claimed /\ v.status # "none" BY DEF Unused
<1>6. actor' = [actor EXCEPT ![a] = w] /\ w.pc = "provision" BY <1>1, ActorMoves DEF InsertFree
<1>7. Holds(a, r) BY DEF InsertFree, At, Holds
<1> HIDE DEF v, w, r
<1>8. \A q \in Rows : subs'[q] = IF q = f THEN v ELSE subs[q] BY <1>1, <1>2 DEF Tables
<1>9. \A b \in Actors, q \in Rows : Holds(b, q)' <=> b # a /\ Holds(b, q)
  BY <1>1, <1>6 DEF Tables, Holds
<1>10. r \notin lost => /\ subs[r].claimed
                        /\ \A b \in Actors : Holds(b, r) => b = a
                        /\ \A g \in Rows : subs[g].origin # r
  BY <1>4, <1>7 DEF ClaimInv, HolderClaimed, OneHolder, MadeOnce
<1>11. ~subs[f].claimed /\ f # r BY <1>2, <1>4 DEF ClaimInv, UnusedIsBlank
<1>12. UnusedIsBlank' BY <1>5, <1>8 DEF ClaimInv, UnusedIsBlank
<1>13. HolderClaimed' BY <1>2, <1>3, <1>8, <1>9, <1>11 DEF ClaimInv, HolderClaimed
<1>14. OneHolder' BY <1>3, <1>9 DEF ClaimInv, OneHolder
<1>15. MadeOnce'
  <2> SUFFICES ASSUME NEW g \in Rows, NEW q \in Rows, q \notin lost', subs'[g].origin = q
               PROVE  subs'[q].claimed /\ \A b \in Actors : ~Holds(b, q)'
    BY DEF MadeOnce
  <2>1. CASE g = f BY <1>3, <1>5, <1>8, <1>9, <1>10, <1>11, <2>1
  <2>2. CASE g # f
    <3>1. subs[q].claimed /\ \A b \in Actors : ~Holds(b, q)
      BY <1>3, <1>8, <2>2 DEF ClaimInv, MadeOnce
    <3>2. q # f BY <1>11, <3>1
    <3> QED BY <1>8, <1>9, <3>1, <3>2
  <2> QED BY <2>1, <2>2
<1>16. OneFreePerCancellation'
  <2> SUFFICES ASSUME NEW g \in Rows, NEW h \in Rows, subs'[g].origin # NoRow,
                      subs'[g].origin = subs'[h].origin, subs'[g].origin \notin lost'
               PROVE  g = h
    BY DEF OneFreePerCancellation
  <2>1. CASE g # f /\ h # f
    BY <1>3, <1>8, <2>1 DEF ClaimInv, OneFreePerCancellation
  <2>2. CASE g = f \/ h = f BY <1>3, <1>5, <1>8, <1>10, <2>2
  <2> QED BY <2>1, <2>2
<1> QED BY <1>12, <1>13, <1>14, <1>15, <1>16 DEF ClaimInv

LEMMA InitClaim == Init => ClaimInv
<1> SUFFICES ASSUME Init PROVE ClaimInv
  OBVIOUS
<1>1. IInv BY InitTyped
<1>2. Fresh BY InitTyped
<1>3. UnusedIsBlank BY <1>2 DEF Fresh, UnusedIsBlank
<1>4. HolderClaimed /\ OneHolder BY <1>2 DEF Fresh, HolderClaimed, OneHolder, Holds
<1>5. MadeOnce BY <1>2, SwitchAssumption DEF Fresh, MadeOnce
<1>6. OneFreePerCancellation BY <1>2 DEF Fresh, OneFreePerCancellation
<1> QED BY <1>3, <1>4, <1>5, <1>6 DEF ClaimInv

LEMMA NextClaim == IInv /\ ClaimInv /\ [Next]_vars => ClaimInv'
<1> SUFFICES ASSUME IInv, ClaimInv, [Next]_vars PROVE ClaimInv'
  OBVIOUS
<1>1. Tables BY TablesTyped
<1>2. CASE Monotone BY <1>1, <1>2, MonotoneKeepsClaim
<1>3. ASSUME NEW a \in Actors, Work(a) \/ Die(a) PROVE ClaimInv'
  <2>1. CASE Claim(a) BY <2>1, ClaimKeepsClaim
  <2>2. CASE InsertFree(a) BY <2>2, InsertFreeKeepsClaim
  <2>3. CASE ~Claim(a) /\ ~InsertFree(a)
    BY <1>2, <1>3, <2>3, ReadsAreMonotone, WritesAreMonotone, RenewalsAreMonotone DEF Work
  <2> QED BY <2>1, <2>2, <2>3
<1>4. CASE UNCHANGED vars BY <1>1, <1>2, <1>4, StillIsMonotone DEF vars
<1>5. ASSUME NEW a \in Actors, NEW r \in Rows,
             \/ \E plan \in Plans : AskDowngrade(a, r, plan) \/ AskUpgrade(a, r, plan)
             \/ \E kind \in {"cancelNow", "cancelLater"} : AskCancel(a, r, kind)
      PROVE  ClaimInv'
  BY <1>2, <1>5, StartsAreMonotone
<1>6. ASSUME NEW a \in Actors, NEW k \in checkouts,
             PayUpgrade(a, k) \/ \E code \in Codes : PayNew(a, k, code)
      PROVE  ClaimInv'
  BY <1>2, <1>6, StartsAreMonotone
<1>7. ASSUME NEW k \in Codes, AskProvider(k) \/ \E a \in Actors : DeliverCanceled(a, k)
      PROVE  ClaimInv'
  <2>1. CASE AskProvider(k) BY <1>1, <1>2, <2>1, StillIsMonotone DEF AskProvider
  <2>2. ASSUME NEW a \in Actors, DeliverCanceled(a, k) PROVE ClaimInv'
    BY <1>2, <2>2, StartsAreMonotone
  <2> QED BY <1>7, <2>1, <2>2
<1> QED BY <1>3, <1>4, <1>5, <1>6, <1>7 DEF Next

(* For any number of customers, plans, actors and deliveries: the claim,   *)
(* one conditional UPDATE, lets at most one of the racing paths give the   *)
(* customer a free subscription for a canceled one, as long as no writer   *)
(* of old metadata has taken the claim back.                               *)
THEOREM ClaimedOnce == Spec => []OneFreePerCancellation
<1>1. Init => IInv /\ ClaimInv BY InitTyped, InitClaim
<1>2. IInv /\ ClaimInv /\ [Next]_vars => (IInv /\ ClaimInv)'
  BY NextTyped, NextClaim
<1>3. ClaimInv => OneFreePerCancellation BY DEF ClaimInv
<1> QED BY <1>1, <1>2, <1>3, PTL DEF Spec

-----------------------------------------------------------------------------
(* The steps that an actor of a kind goes through, and whether it works    *)
(* for a plan.                                                             *)
StepsOf(kind) ==
  CASE kind = "cancelNow" -> {"cancelAtProvider", "cancelRow", "claim", "look", "insertFree",
                              "provision", "mark"}
    [] kind = "cancelLater" -> {"cancelAtProvider", "schedule"}
    [] kind = "cancelDowngrade" -> {"sleep", "verify", "claim", "look", "insertFree",
                                    "provision", "mark"}
    [] kind = "canceled" -> {"cancelRow", "claim", "look", "insertFree", "provision", "mark"}
    [] kind = "downgradeAsked" -> {"schedule"}
    [] kind = "downgrade" -> {"sleep", "verify", "cancelRow", "cancelAtProvider", "bill",
                              "find", "insert", "provision"}
    [] kind = "upgrade" -> {"cancelAtProvider", "cancelRow", "find", "insert", "load", "bill",
                            "link", "provision"}
    [] kind = "upgradeInline" -> {"cancelAtProvider", "cancelRow", "find", "insert", "bill",
                                  "link", "provision"}
    [] kind = "upgradeNow" -> {"cancelAtProvider", "cancelRow", "bill", "insert", "provision"}
    [] kind = "newNow" -> {"bill", "insert", "provision", "cancelRow"}
    [] kind = "newPaid" -> {"find", "insert", "renew", "reopen", "provision", "cancelRow"}
    [] OTHER -> {"idle"}
CancelKinds == {"cancelNow", "cancelLater", "cancelDowngrade", "canceled"}
SwitchKinds == {"downgradeAsked", "downgrade", "upgrade", "upgradeInline", "upgradeNow",
                "newNow", "newPaid"}

\* What is switched to, or fallen back to, is there.
Ready(v) ==
  \/ v.pc \in {"renew", "reopen", "load", "link", "provision"}
  \/ v.pc = "bill" /\ v.kind \in {"upgrade", "upgradeInline"}
  \/ v.pc = "cancelRow" /\ v.kind \in {"newNow", "newPaid"}

ControlOK(v) ==
  /\ v.pc \in StepsOf(v.kind) \cup {"idle"}
  /\ v.kind \in CancelKinds => v.plan = NoPlan
  /\ v.kind \in SwitchKinds => v.plan \in Plans
  /\ v.kind \in SwitchKinds /\ Ready(v) => v.new # NoRow
Control == \A a \in Actors : ControlOK(actor[a])

(* What one step of a working actor does to the actor. *)
NextKind(v) ==
  CASE v.kind = "cancelLater" /\ v.pc = "schedule" -> "cancelDowngrade"
    [] v.kind = "downgradeAsked" -> "downgrade"
    [] OTHER -> v.kind
NextSteps(a) ==
  CASE At(a, "schedule") -> {"sleep"}
    [] At(a, "sleep") -> {"verify"}
    [] At(a, "verify") -> IF Kind(a) = "cancelDowngrade" THEN {"claim"} ELSE {"cancelRow"}
    [] At(a, "claim") -> {"look"}
    [] At(a, "look") -> {"provision", "insertFree"}
    [] At(a, "insertFree") -> {"provision"}
    [] At(a, "find") -> {After(a), "insert"}
    [] At(a, "insert") ->
         IF Kind(a) \in {"upgrade", "downgrade"} THEN {After(a), "find"}
         ELSE IF Kind(a) = "newPaid" THEN {After(a), "reopen"} ELSE {After(a)}
    [] OTHER -> {After(a)}
Moves(a) ==
  LET v == actor[a]
      w == actor'[a]
  IN  /\ w.row = v.row /\ w.plan = v.plan
      /\ w.kind = NextKind(v)
      /\ w.seen = v.seen \/ v.pc \in {"verify", "find", "insert", "load"}
      /\ w.new = v.new \/ (v.pc \in {"find", "insert"} /\ w.new # NoRow)
      /\ v.pc \in {"find", "insert"} => w.new # NoRow \/ w.pc \in {"find", "insert"}
      /\ w.pc \in NextSteps(a)

Alone(a) == \A b \in Actors : b # a => actor'[b] = actor[b]

LEMMA EndAlone ==
  ASSUME Tables, NEW a \in Actors, End(a)
  PROVE  Alone(a) /\ actor'[a] = Idle
BY DEF Tables, End, Alone

LEMMA GotoAlone ==
  ASSUME Tables, NEW a \in Actors, NEW step, Goto(a, step)
  PROVE  /\ Alone(a)
         /\ actor'[a].pc = step /\ actor'[a].kind = actor[a].kind
         /\ actor'[a].row = actor[a].row /\ actor'[a].plan = actor[a].plan
         /\ actor'[a].seen = actor[a].seen /\ actor'[a].new = actor[a].new
BY DEF Tables, Actor, Goto, Alone

LEMMA WorkAlone ==
  ASSUME IInv, Control, NEW a \in Actors, Work(a) \/ Die(a)
  PROVE  ~At(a, "idle") /\ Alone(a) /\ (actor'[a] = Idle \/ Moves(a))
<1>1. Tables /\ actor[a] \in Actor BY TablesTyped DEF Tables
<1>2. ControlOK(actor[a]) BY DEF Control
<1>3. ASSUME NEW step, Goto(a, step), NextKind(actor[a]) = Kind(a), step \in NextSteps(a),
             actor[a].pc \in {"find", "insert"} => step \in {"find", "insert"}
      PROVE  Alone(a) /\ Moves(a)
  BY <1>1, <1>3, GotoAlone DEF Moves, Kind
<1>4. ASSUME Advance(a), NextKind(actor[a]) = Kind(a), After(a) \in NextSteps(a),
             actor[a].pc \notin {"find", "insert"}
      PROVE  Alone(a) /\ (actor'[a] = Idle \/ Moves(a))
  BY <1>1, <1>3, <1>4, EndAlone DEF Advance
<1>5. CASE CancelAtProvider(a) \/ CancelRow(a) \/ Provision(a)
  <2>1. Advance(a) BY <1>5 DEF CancelAtProvider, CancelRow, Provision
  <2>2. actor[a].pc \in {"cancelAtProvider", "cancelRow", "provision"}
    BY <1>5 DEF CancelAtProvider, CancelRow, Provision, At
  <2>3. NextKind(actor[a]) = Kind(a)
    BY <1>2, <2>2 DEF NextKind, Kind, ControlOK, StepsOf
  <2>4. After(a) \in NextSteps(a) BY <2>2 DEF NextSteps, At
  <2> QED BY <1>4, <2>1, <2>2, <2>3, <2>4 DEF At
<1>6. CASE ScheduleCancel(a) \/ ScheduleDowngrade(a)
  <2>1. At(a, "schedule") BY <1>6 DEF ScheduleCancel, ScheduleDowngrade
  <2>2. \/ End(a)
        \/ actor' = [actor EXCEPT ![a].kind = NextKind(actor[a]), ![a].pc = "sleep"]
    BY <1>6, <2>1 DEF ScheduleCancel, ScheduleDowngrade, NextKind, Kind, At
  <2>3. CASE actor' = [actor EXCEPT ![a].kind = NextKind(actor[a]), ![a].pc = "sleep"]
    <3> DEFINE v == actor[a]
               w == [v EXCEPT !.kind = NextKind(v), !.pc = "sleep"]
    <3>1. actor' = [actor EXCEPT ![a] = w] BY <2>3
    <3>2. actor'[a] = w /\ Alone(a) BY <1>1, <3>1 DEF Alone, Tables
    <3>3. /\ w.kind = NextKind(v) /\ w.pc = "sleep"
          /\ w.row = v.row /\ w.plan = v.plan /\ w.seen = v.seen /\ w.new = v.new
      BY <1>1 DEF Actor
    <3>4. "sleep" \in NextSteps(a) BY <2>1 DEF NextSteps, At
    <3> HIDE DEF w
    <3>5. ~At(a, "idle") /\ v.pc \notin {"verify", "find", "insert", "load"} BY <2>1 DEF At
    <3> QED BY <3>2, <3>3, <3>4, <3>5 DEF Moves
  <2> QED BY <1>1, <2>1, <2>2, <2>3, EndAlone DEF At
<1>7. CASE Wake(a) \/ VerifyDowngrade(a) \/ Claim(a) \/ Look(a) \/ InsertFree(a)
  <2>1. actor[a].pc \in {"sleep", "verify", "claim", "look", "insertFree"}
    BY <1>7 DEF Wake, VerifyDowngrade, Claim, Look, InsertFree, At
  <2>2. NextKind(actor[a]) = Kind(a)
    BY <1>2, <2>1 DEF NextKind, Kind, ControlOK, StepsOf
  <2>3. End(a) \/ \E step \in NextSteps(a) : Goto(a, step)
    BY <1>7 DEF Wake, VerifyDowngrade, Claim, Look, InsertFree, At, NextSteps, Kind
  <2> QED BY <1>1, <1>3, <2>1, <2>2, <2>3, EndAlone DEF At
<1>8. CASE VerifyCancel(a)
  <2>1. At(a, "verify") /\ Kind(a) = "cancelDowngrade" BY <1>8 DEF VerifyCancel
  <2>2. End(a) \/ actor' = [actor EXCEPT ![a].pc = "claim", ![a].seen = subs[actor[a].row]]
    BY <1>8 DEF VerifyCancel
  <2>3. CASE actor' = [actor EXCEPT ![a].pc = "claim", ![a].seen = subs[actor[a].row]]
    <3> DEFINE w == [actor[a] EXCEPT !.pc = "claim", !.seen = subs[actor[a].row]]
    <3>1. /\ w.new = actor[a].new /\ w.pc = "claim" /\ w.row = actor[a].row
          /\ w.plan = actor[a].plan /\ w.kind = actor[a].kind
      BY <1>1 DEF Actor
    <3>2. actor' = [actor EXCEPT ![a] = w] BY <1>1, <2>3 DEF Tables
    <3> HIDE DEF w
    <3>3. actor'[a] = w /\ Alone(a) BY <1>1, <3>2 DEF Tables, Alone
    <3>4. "claim" \in NextSteps(a) /\ NextKind(actor[a]) = Kind(a)
      BY <2>1 DEF NextSteps, NextKind, At, Kind
    <3> QED BY <2>1, <3>1, <3>3, <3>4 DEF Moves, Kind, At
  <2> QED BY <1>1, <2>1, <2>2, <2>3, EndAlone DEF At
<1>9. CASE Mark(a) \/ ReviveRefused(a) \/ Die(a)
  <2>1. ~At(a, "idle") /\ End(a) BY <1>9 DEF Mark, ReviveRefused, Die, At
  <2> QED BY <1>1, <2>1, EndAlone
<1>10. ASSUME actor[a].pc \in {"find", "insert"}, NEW r, r # NoRow, NEW step \in NextSteps(a),
              NEW seen, actor' = [actor EXCEPT ![a] = [actor[a] EXCEPT
                                    !.new = r, !.seen = seen, !.pc = step]]
       PROVE  Alone(a) /\ Moves(a)
  <2>1. NextKind(actor[a]) = Kind(a)
    BY <1>2, <1>10 DEF NextKind, Kind, ControlOK, StepsOf
  <2> DEFINE w == [actor[a] EXCEPT !.new = r, !.seen = seen, !.pc = step]
  <2>2. /\ w.new = r /\ w.pc = step /\ w.row = actor[a].row /\ w.plan = actor[a].plan
        /\ w.kind = actor[a].kind
    BY <1>1 DEF Actor
  <2> HIDE DEF w
  <2>3. actor'[a] = w /\ Alone(a) BY <1>1, <1>10 DEF Tables, Alone, w
  <2> QED BY <1>10, <2>1, <2>2, <2>3 DEF Moves, Kind
<1>11. CASE Find(a)
  <2>1. At(a, "find") /\ ~At(a, "idle") BY <1>11 DEF Find, At
  <2>2. NextKind(actor[a]) = Kind(a)
    BY <1>2, <2>1 DEF NextKind, Kind, ControlOK, StepsOf, At
  <2>3. {After(a), "insert"} \subseteq NextSteps(a) BY <2>1 DEF NextSteps, At
  <2>4. CASE Goto(a, "insert") BY <1>3, <2>1, <2>2, <2>3, <2>4
  <2>5. ASSUME NEW r \in Rows, actor' = [actor EXCEPT ![a].new = r, ![a].seen = subs[r],
                                                      ![a].pc = After(a)]
        PROVE  Alone(a) /\ Moves(a)
    <3>1. actor' = [actor EXCEPT ![a] = [actor[a] EXCEPT !.new = r, !.seen = subs[r],
                                                         !.pc = After(a)]]
      BY <1>1, <2>5 DEF Tables
    <3> QED BY <1>10, <2>1, <2>3, <3>1, SwitchAssumption DEF At
  <2> QED BY <1>11, <2>1, <2>4, <2>5 DEF Find, ActiveOf
<1>12. CASE Insert(a)
  <2>1. At(a, "insert") /\ ~At(a, "idle") /\ After(a) \in NextSteps(a)
    BY <1>12 DEF Insert, At, NextSteps
  <2>2. PICK r \in Rows : actor' = [actor EXCEPT ![a].new = r, ![a].seen = subs'[r],
                                                 ![a].pc = After(a)]
    BY <1>12 DEF Insert
  <2>3. PICK seen : seen = subs'[r] OBVIOUS
  <2>4. actor' = [actor EXCEPT ![a] = [actor[a] EXCEPT !.new = r, !.seen = seen,
                                                       !.pc = After(a)]]
    BY <1>1, <2>2, <2>3 DEF Tables
  <2> QED BY <1>10, <2>1, <2>4, SwitchAssumption DEF At
<1>13. CASE InsertRefused(a)
  <2>1. At(a, "insert") /\ ~At(a, "idle") BY <1>13 DEF InsertRefused, At
  <2>2. NextKind(actor[a]) = Kind(a)
    BY <1>2, <2>1 DEF NextKind, Kind, ControlOK, StepsOf, At
  <2>3. CASE Kind(a) \in {"upgrade", "downgrade"} /\ Goto(a, "find")
    <3>1. "find" \in NextSteps(a) BY <2>1, <2>3 DEF NextSteps, At
    <3> QED BY <1>3, <2>1, <2>2, <2>3, <3>1
  <2>4. CASE End(a) BY <1>1, <2>1, <2>4, EndAlone
  <2>5. ASSUME Kind(a) = "newPaid", NEW r \in Rows,
               actor' = [actor EXCEPT ![a].new = r, ![a].pc = "reopen"]
        PROVE  Alone(a) /\ Moves(a)
    <3>1. "reopen" \in NextSteps(a) BY <2>1, <2>5 DEF NextSteps, At
    <3>2. actor' = [actor EXCEPT ![a] = [actor[a] EXCEPT !.new = r, !.seen = actor[a].seen,
                                                         !.pc = "reopen"]]
      BY <1>1, <2>5 DEF Tables, Actor
    <3> QED BY <1>10, <2>1, <3>1, <3>2, SwitchAssumption DEF At
  <2> QED BY <1>13, <2>1, <2>3, <2>4, <2>5 DEF InsertRefused
<1>14. CASE Renew(a) \/ Reopen(a) \/ Link(a) \/ LinkInline(a)
  <2>1. actor[a].pc \in {"renew", "reopen", "link"} /\ Goto(a, After(a))
    BY <1>14 DEF Renew, Reopen, Link, LinkInline, At
  <2>2. NextKind(actor[a]) = Kind(a)
    BY <1>2, <2>1 DEF NextKind, Kind, ControlOK, StepsOf
  <2>3. After(a) \in NextSteps(a) BY <2>1 DEF NextSteps, At
  <2> QED BY <1>3, <2>1, <2>2, <2>3 DEF At
<1>15. CASE Load(a)
  <2>1. At(a, "load") /\ After(a) \in NextSteps(a) BY <1>15 DEF Load, At, NextSteps
  <2>2. NextKind(actor[a]) = Kind(a)
    BY <1>2, <2>1 DEF NextKind, Kind, ControlOK, StepsOf, At
  <2> DEFINE w == [actor[a] EXCEPT !.seen = subs[actor[a].new], !.pc = After(a)]
  <2>3. /\ w.new = actor[a].new /\ w.pc = After(a) /\ w.row = actor[a].row
        /\ w.plan = actor[a].plan /\ w.kind = actor[a].kind
    BY <1>1 DEF Actor
  <2>4. actor' = [actor EXCEPT ![a] = w] BY <1>1, <1>15 DEF Load, Tables
  <2> HIDE DEF w
  <2>5. actor'[a] = w /\ Alone(a) BY <1>1, <2>4 DEF Tables, Alone
  <2> QED BY <2>1, <2>2, <2>3, <2>5 DEF Moves, Kind, At
<1>16. CASE Bill(a)
  <2>1. At(a, "bill") BY <1>16 DEF Bill
  <2>2. NextKind(actor[a]) = Kind(a)
    BY <1>2, <2>1 DEF NextKind, Kind, ControlOK, StepsOf, At
  <2>3. After(a) \in NextSteps(a) BY <2>1 DEF NextSteps, At
  <2>4. \/ End(a) \/ Goto(a, After(a))
        \/ \E k : actor' = [actor EXCEPT ![a].code = k, ![a].pc = After(a)]
    BY <1>16 DEF Bill
  <2>5. ASSUME NEW k, actor' = [actor EXCEPT ![a].code = k, ![a].pc = After(a)]
        PROVE  Alone(a) /\ Moves(a)
    <3> DEFINE w == [actor[a] EXCEPT !.code = k, !.pc = After(a)]
    <3>1. /\ w.new = actor[a].new /\ w.pc = After(a) /\ w.row = actor[a].row
          /\ w.plan = actor[a].plan /\ w.kind = actor[a].kind /\ w.seen = actor[a].seen
      BY <1>1 DEF Actor
    <3>2. actor' = [actor EXCEPT ![a] = w] BY <1>1, <2>5 DEF Tables
    <3> HIDE DEF w
    <3>3. actor'[a] = w /\ Alone(a) BY <1>1, <3>2 DEF Tables, Alone
    <3> QED BY <2>1, <2>2, <2>3, <3>1, <3>3 DEF Moves, Kind, At
  <2> QED BY <1>1, <1>3, <2>1, <2>2, <2>3, <2>4, <2>5, EndAlone DEF At
<1> QED BY <1>5, <1>6, <1>7, <1>8, <1>9, <1>11, <1>12, <1>13, <1>14, <1>15, <1>16 DEF Work

\* An actor becomes ready where it finds or makes the subscription.
LEMMA BecomesReady ==
  ASSUME NEW a \in Actors, ControlOK(actor[a]), ~At(a, "idle"), Moves(a),
         ~Ready(actor[a]), Ready(actor'[a])
  PROVE  actor[a].pc \in {"look", "insertFree", "find", "insert"}
<1> DEFINE v == actor[a]
<1> USE DEF At, Kind, Ready
<1>1. v.pc \in StepsOf(v.kind) BY DEF ControlOK
<1>2. v.pc \notin {"renew", "reopen", "load", "link", "provision"} OBVIOUS
<1>3. CASE v.pc \in {"schedule", "sleep", "verify", "claim"}
  <2>1. actor'[a].pc \in {"sleep", "verify", "claim", "cancelRow", "look"}
        /\ (actor'[a].pc = "cancelRow" => v.pc = "verify")
    BY <1>3 DEF Moves, NextSteps
  <2>2. v.pc = "verify" => v.kind \in {"cancelDowngrade", "downgrade"} BY <1>1 DEF StepsOf
  <2>3. v.pc = "verify" => actor'[a].kind = v.kind BY <2>2 DEF Moves, NextKind
  <2> QED BY <2>1, <2>2, <2>3
<1>4. CASE v.pc = "cancelAtProvider"
  <2>1. After(a) \in {"cancelRow", "schedule", "bill", "idle"}
        /\ (After(a) = "bill" => v.kind = "downgrade")
        /\ (After(a) = "cancelRow" => v.kind \notin {"newNow", "newPaid"})
    BY <1>4 DEF After
  <2>2. actor'[a].pc = After(a) BY <1>4 DEF Moves, NextSteps
  <2>3. actor'[a].kind = v.kind BY <1>4 DEF Moves, NextKind, ControlOK, StepsOf
  <2> QED BY <2>1, <2>2, <2>3
<1>5. CASE v.pc = "cancelRow"
  <2>4. v.kind \notin {"newNow", "newPaid"} BY <1>5
  <2>1. After(a) \in {"claim", "find", "bill", "cancelAtProvider", "idle"}
        /\ (After(a) = "bill" => v.kind = "upgradeNow")
    BY <1>5, <2>4 DEF After
  <2>2. actor'[a].pc = After(a) BY <1>5 DEF Moves, NextSteps
  <2>3. v.kind = "upgradeNow" => actor'[a].kind = "upgradeNow" BY DEF Moves, NextKind
  <2> QED BY <2>1, <2>2, <2>3
<1>6. CASE v.pc = "bill"
  <2>1. v.kind \notin {"upgrade", "upgradeInline"} BY <1>6
  <2>2. After(a) \in {"find", "insert", "idle"} BY <1>6, <2>1 DEF After
  <2>3. actor'[a].pc = After(a) BY <1>6 DEF Moves, NextSteps
  <2> QED BY <2>2, <2>3
<1>7. CASE v.pc = "mark"
  <2>1. actor'[a].pc = "idle" BY <1>7 DEF Moves, NextSteps, After
  <2> QED BY <2>1
<1>8. v.pc \in {"cancelAtProvider", "cancelRow", "claim", "look", "insertFree", "provision",
               "mark", "schedule", "sleep", "verify", "bill", "find", "insert", "link", "load",
               "renew", "reopen", "idle"}
  BY <1>1 DEF StepsOf
<1> QED BY <1>2, <1>3, <1>4, <1>5, <1>6, <1>7, <1>8

\* No step leads out of the steps of its kind.
LEMMA MovesInside ==
  ASSUME NEW a \in Actors, ControlOK(actor[a]), ~At(a, "idle"), Moves(a)
  PROVE  ControlOK(actor'[a])
<1> DEFINE v == actor[a]
<1>1. v.pc \in StepsOf(v.kind) BY DEF ControlOK, At
<1>2. NextKind(v) \in CancelKinds <=> v.kind \in CancelKinds
  BY DEF NextKind, CancelKinds
<1>3. NextKind(v) \in SwitchKinds <=> v.kind \in SwitchKinds
  BY DEF NextKind, SwitchKinds
<1>4. NextSteps(a) \subseteq StepsOf(NextKind(v)) \cup {"idle"}
  <2> USE DEF NextSteps, NextKind, After, At, Kind
  <2>1. CASE v.kind = "cancelNow" BY <1>1, <2>1 DEF StepsOf
  <2>2. CASE v.kind = "cancelLater" BY <1>1, <2>2 DEF StepsOf
  <2>3. CASE v.kind = "cancelDowngrade" BY <1>1, <2>3 DEF StepsOf
  <2>4. CASE v.kind = "canceled" BY <1>1, <2>4 DEF StepsOf
  <2>5. CASE v.kind = "downgradeAsked" BY <1>1, <2>5 DEF StepsOf
  <2>6. CASE v.kind = "downgrade" BY <1>1, <2>6 DEF StepsOf
  <2>7. CASE v.kind = "upgrade"
    <3>1. v.pc \in {"cancelAtProvider", "cancelRow", "find", "insert", "load", "bill", "link",
                    "provision", "idle"}
      BY <1>1, <2>7 DEF StepsOf
    <3>2. StepsOf(NextKind(v)) = {"cancelAtProvider", "cancelRow", "find", "insert", "load",
                                  "bill", "link", "provision"}
      BY <2>7 DEF StepsOf
    <3>3. CASE v.pc \in {"cancelAtProvider", "cancelRow"} BY <2>7, <3>2, <3>3
    <3>4. CASE v.pc \in {"find", "insert"} BY <2>7, <3>2, <3>4
    <3>5. CASE v.pc \in {"load", "bill"} BY <2>7, <3>2, <3>5
    <3>6. CASE v.pc \in {"link", "provision", "idle"} BY <2>7, <3>2, <3>6
    <3> QED BY <3>1, <3>3, <3>4, <3>5, <3>6
  <2>12. CASE v.kind = "upgradeInline"
    <3>1. v.pc \in {"cancelAtProvider", "cancelRow", "find", "insert", "bill", "link",
                    "provision", "idle"}
      BY <1>1, <2>12 DEF StepsOf
    <3>2. StepsOf(NextKind(v)) = {"cancelAtProvider", "cancelRow", "find", "insert",
                                  "bill", "link", "provision"}
      BY <2>12 DEF StepsOf
    <3>3. CASE v.pc \in {"cancelAtProvider", "cancelRow"} BY <2>12, <3>2, <3>3
    <3>4. CASE v.pc \in {"find", "insert"} BY <2>12, <3>2, <3>4
    <3>5. CASE v.pc \in {"bill", "link", "provision", "idle"} BY <2>12, <3>2, <3>5
    <3> QED BY <3>1, <3>3, <3>4, <3>5
  <2>8. CASE v.kind = "upgradeNow"
    <3>1. v.pc \in {"cancelAtProvider", "cancelRow", "bill", "insert", "provision"}
      BY <1>1, <2>8 DEF StepsOf
    <3>2. StepsOf(NextKind(v)) = {"cancelAtProvider", "cancelRow", "bill", "insert", "provision"}
      BY <2>8 DEF StepsOf
    <3>3. CASE v.pc \in {"cancelAtProvider", "cancelRow"} BY <2>8, <3>2, <3>3
    <3>4. CASE v.pc \in {"bill", "insert", "provision"} BY <2>8, <3>2, <3>4
    <3> QED BY <3>1, <3>3, <3>4
  <2>9. CASE v.kind = "newNow"
    <3>1. v.pc \in {"bill", "insert", "provision", "cancelRow"} BY <1>1, <2>9 DEF StepsOf
    <3>2. StepsOf(NextKind(v)) = {"bill", "insert", "provision", "cancelRow"}
      BY <2>9 DEF StepsOf
    <3>3. CASE v.pc \in {"bill", "insert"} BY <2>9, <3>2, <3>3
    <3>4. CASE v.pc \in {"provision", "cancelRow"} BY <2>9, <3>2, <3>4
    <3> QED BY <3>1, <3>3, <3>4
  <2>10. CASE v.kind = "newPaid"
    <3>1. v.pc \in {"find", "insert", "renew", "reopen", "provision", "cancelRow", "idle"}
      BY <1>1, <2>10 DEF StepsOf
    <3>2. StepsOf(NextKind(v)) = {"find", "insert", "renew", "reopen", "provision", "cancelRow"}
      BY <2>10 DEF StepsOf
    <3>3. CASE v.pc \in {"find", "insert"} BY <2>10, <3>2, <3>3
    <3>4. CASE v.pc \in {"renew", "reopen", "provision", "cancelRow", "idle"}
      BY <2>10, <3>2, <3>4
    <3> QED BY <3>1, <3>3, <3>4
  <2>11. CASE v.kind \notin CancelKinds \cup SwitchKinds
    <3>1. StepsOf(v.kind) = {"idle"} BY <2>11 DEF StepsOf, CancelKinds, SwitchKinds
    <3> QED BY <1>1, <3>1
  <2> QED BY <2>1, <2>2, <2>3, <2>4, <2>5, <2>6, <2>7, <2>8, <2>9, <2>10, <2>11, <2>12
          DEF CancelKinds, SwitchKinds
<1>5. ASSUME actor'[a].kind \in SwitchKinds, Ready(actor'[a]) PROVE actor'[a].new # NoRow
  <2>1. v.kind \in SwitchKinds BY <1>3, <1>5 DEF Moves
  <2>2. CASE Ready(v) BY <2>1, <2>2 DEF ControlOK, Moves
  <2>3. CASE ~Ready(v)
    <3>1. v.pc \in {"look", "insertFree", "find", "insert"} BY <1>5, <2>3, BecomesReady
    <3>2. v.pc \in {"find", "insert"} BY <1>1, <2>1, <3>1 DEF StepsOf, SwitchKinds
    <3>3. actor'[a].pc \notin {"find", "insert"} BY <1>5 DEF Ready
    <3> QED BY <3>2, <3>3 DEF Moves
  <2> QED BY <2>2, <2>3
<1> QED BY <1>2, <1>3, <1>4, <1>5 DEF Moves, ControlOK

-----------------------------------------------------------------------------
(* How an actor begins: over a row in use, which it has just read.         *)
Opens(a) ==
  LET w == actor'[a]
  IN  /\ At(a, "idle") /\ Alone(a)
      /\ w.row \in Rows /\ subs[w.row].status # "none" /\ w.seen = subs[w.row]
      /\ w.new = NoRow
      /\ w.kind \in CancelKinds => w.plan = NoPlan
      /\ w.kind \in SwitchKinds => w.plan \in Plans
      /\ \/ w.kind = "downgradeAsked" /\ w.pc = "schedule" /\ Active(w.row)
         \/ w.kind \in {"upgrade", "upgradeInline", "upgradeNow"} /\ w.pc = "cancelAtProvider"
         \/ w.kind \in {"cancelNow", "cancelLater"} /\ w.pc = "cancelAtProvider"
            /\ subs[w.row].owner \in canceling'
         \/ w.kind = "canceled" /\ w.pc = "cancelRow"
         \/ w.kind = "newNow" /\ w.pc = "bill" /\ w.plan # subs[w.row].plan
         \/ w.kind = "newPaid" /\ w.pc = "find"
            /\ \E k \in checkouts : k.kind = "newPaid" /\ k.row = w.row /\ k.plan = w.plan

(* What every checkout is left with: it was there, or it is for another    *)
(* plan than its row's.                                                    *)
CheckoutsKept ==
  \A k \in checkouts' :
    \/ \E j \in checkouts : j.row = k.row /\ j.plan = k.plan /\ j.kind = k.kind
    \/ subs[k.row].plan # k.plan

StartStep ==
  /\ UNCHANGED <<subs, entitled, lost, crossed, gaveUp, faults>>
  /\ canceling \subseteq canceling'
  /\ CheckoutsKept
  /\ UNCHANGED actor \/ \E a \in Actors : Opens(a)

LEMMA BeginOpens ==
  ASSUME IInv, NEW a \in Actors, NEW kind, NEW step, NEW r \in Rows, NEW plan, NEW code,
         Begin(a, kind, step, r, plan, code), subs[r].status # "none",
         kind \in CancelKinds => plan = NoPlan,
         kind \in SwitchKinds => plan \in Plans,
         \/ kind = "downgradeAsked" /\ step = "schedule" /\ Active(r)
         \/ kind \in {"upgrade", "upgradeInline", "upgradeNow"} /\ step = "cancelAtProvider"
         \/ kind \in {"cancelNow", "cancelLater"} /\ step = "cancelAtProvider"
            /\ subs[r].owner \in canceling'
         \/ kind = "canceled" /\ step = "cancelRow"
         \/ kind = "newNow" /\ step = "bill" /\ plan # subs[r].plan
         \/ kind = "newPaid" /\ step = "find"
            /\ \E k \in checkouts : k.kind = "newPaid" /\ k.row = r /\ k.plan = plan
  PROVE  Opens(a)
<1> DEFINE w == [kind |-> kind, pc |-> step, row |-> r, seen |-> subs[r], plan |-> plan,
                 new |-> NoRow, code |-> code]
<1>1. Tables BY TablesTyped
<1>2. At(a, "idle") /\ actor' = [actor EXCEPT ![a] = w] BY DEF Begin
<1>3. /\ w.kind = kind /\ w.pc = step /\ w.row = r /\ w.seen = subs[r] /\ w.plan = plan
      /\ w.new = NoRow
  OBVIOUS
<1> HIDE DEF w
<1>4. Alone(a) /\ actor'[a] = w BY <1>1, <1>2 DEF Tables, Alone
<1> QED BY <1>2, <1>3, <1>4 DEF Opens

LEMMA StartOrWork ==
  ASSUME IInv, Next
  PROVE  StartStep \/ \E a \in Actors : Work(a) \/ Die(a)
<1>1. ASSUME UNCHANGED checkouts PROVE CheckoutsKept BY <1>1 DEF CheckoutsKept
<1>2. ASSUME NEW r \in Rows, Active(r) PROVE subs[r].status # "none" BY <1>2 DEF Active
<1>3. ASSUME NEW a \in Actors, NEW r \in Rows, NEW plan \in Plans, AskDowngrade(a, r, plan)
      PROVE  StartStep
  <2>1. Ask(a, r) /\ Active(r) /\ UNCHANGED <<checkouts, canceling>>
    BY <1>3 DEF AskDowngrade, Ask
  <2>2. Opens(a)
    BY <1>2, <1>3, <2>1, BeginOpens DEF AskDowngrade, CancelKinds
  <2> QED BY <1>1, <2>1, <2>2 DEF StartStep, Ask
<1>4. ASSUME NEW a \in Actors, NEW r \in Rows, NEW plan \in Plans, AskUpgrade(a, r, plan)
      PROVE  StartStep
  <2>1. Ask(a, r) /\ Active(r) /\ UNCHANGED canceling /\ Rank[plan] > Rank[subs[r].plan]
    BY <1>4 DEF AskUpgrade, Ask
  <2>2. plan # subs[r].plan
    <3>1. Rank[plan] \in Nat BY SwitchAssumption
    <3> QED BY <2>1, <3>1
  <2>3. UNCHANGED <<subs, entitled, lost, crossed, gaveUp, faults>> BY <2>1 DEF Ask
  <2>4. CASE UNCHANGED actor /\ checkouts' = checkouts \cup
               {[row |-> r, plan |-> plan,
                 kind |-> IF Paid(subs[r].plan) THEN "upgrade" ELSE "newPaid",
                 left |-> MaxDeliveries, code |-> NoCode]}
    <3>1. CheckoutsKept BY <2>2, <2>4 DEF CheckoutsKept
    <3> QED BY <2>1, <2>3, <2>4, <3>1 DEF StartStep
  <2>5. CASE Begin(a, "upgradeNow", "cancelAtProvider", r, plan, NoCode) /\ UNCHANGED checkouts
    <3>1. Opens(a) BY <1>2, <2>1, <2>5, BeginOpens DEF CancelKinds
    <3> QED BY <1>1, <2>1, <2>3, <2>5, <3>1 DEF StartStep
  <2>6. CASE Begin(a, "newNow", "bill", r, plan, NoCode) /\ UNCHANGED checkouts
    <3>1. Opens(a) BY <1>2, <2>1, <2>2, <2>6, BeginOpens DEF CancelKinds
    <3> QED BY <1>1, <2>1, <2>3, <2>6, <3>1 DEF StartStep
  <2> QED BY <1>4, <2>4, <2>5, <2>6 DEF AskUpgrade
<1>5. ASSUME NEW a \in Actors, NEW r \in Rows, NEW kind \in {"cancelNow", "cancelLater"},
             AskCancel(a, r, kind)
      PROVE  StartStep
  <2>1. Ask(a, r) /\ Active(r) /\ UNCHANGED checkouts /\ canceling' = canceling \cup {subs[r].owner}
    BY <1>5 DEF AskCancel, Ask
  <2>2. Begin(a, kind, "cancelAtProvider", r, NoPlan, NoCode) BY <1>5 DEF AskCancel
  <2>3. kind \notin SwitchKinds BY DEF SwitchKinds
  <2>4. Opens(a) BY <1>2, <2>1, <2>2, <2>3, BeginOpens
  <2> QED BY <1>1, <2>1, <2>4 DEF StartStep, Ask
<1>6. ASSUME NEW k \in checkouts
      PROVE  /\ k.row \in Rows /\ subs[k.row].status # "none" /\ k.plan \in Plans
             /\ \A n : LET j == [k EXCEPT !.left = n]
                      IN  j.row = k.row /\ j.plan = k.plan /\ j.kind = k.kind
             /\ \A n, code : LET j == [k EXCEPT !.left = n, !.code = code]
                             IN  j.row = k.row /\ j.plan = k.plan /\ j.kind = k.kind
  BY DEF IInv, CheckoutsOK, Checkout
<1>7. ASSUME NEW a \in Actors, NEW k \in checkouts, PayUpgrade(a, k) PROVE StartStep
  <2> PICK kind \in {"upgrade", "upgradeInline"} :
        Begin(a, kind, "cancelAtProvider", k.row, k.plan, NoCode)
    BY <1>7 DEF PayUpgrade
  <2>1. Opens(a)
    <3>1. kind \notin CancelKinds BY DEF CancelKinds
    <3> QED BY <1>6, <3>1, BeginOpens
  <2> DEFINE j == [k EXCEPT !.left = @ - 1]
  <2>2. checkouts' = (checkouts \ {k}) \cup {j} BY <1>7 DEF PayUpgrade
  <2>3. j.row = k.row /\ j.plan = k.plan /\ j.kind = k.kind BY <1>6
  <2> HIDE DEF j
  <2>4. CheckoutsKept BY <2>2, <2>3 DEF CheckoutsKept
  <2> QED BY <1>7, <2>1, <2>4 DEF StartStep, PayUpgrade
<1>8. ASSUME NEW a \in Actors, NEW k \in checkouts, NEW code \in Codes, PayNew(a, k, code)
      PROVE  StartStep
  <2>1. k.kind = "newPaid" /\ Begin(a, "newPaid", "find", k.row, k.plan, code)
    BY <1>8 DEF PayNew
  <2>2. Opens(a) BY <1>6, <2>1, BeginOpens DEF CancelKinds
  <2> DEFINE j == [k EXCEPT !.left = @ - 1, !.code = code]
  <2>3. checkouts' = (checkouts \ {k}) \cup {j} BY <1>8 DEF PayNew
  <2>4. j.row = k.row /\ j.plan = k.plan /\ j.kind = k.kind BY <1>6
  <2> HIDE DEF j
  <2>5. CheckoutsKept BY <2>3, <2>4 DEF CheckoutsKept
  <2> QED BY <1>8, <2>2, <2>5 DEF StartStep, PayNew
<1>9. ASSUME NEW a \in Actors, NEW k \in Codes, DeliverCanceled(a, k) PROVE StartStep
  <2>1. ASSUME NEW r \in Rows, subs[r].code = k \/ Active(r) PROVE subs[r].status # "none"
    BY <2>1, SwitchAssumption DEF IInv, RowsOK, Unused, Active
  <2>2. UNCHANGED actor \/ Opens(a)
    <3>1. CASE \E r \in Rows : /\ subs[r].code = k \/ Active(r)
                               /\ Begin(a, "canceled", "cancelRow", r, NoPlan, k)
      BY <2>1, <3>1, BeginOpens DEF SwitchKinds
    <3> QED BY <1>9, <3>1 DEF DeliverCanceled, ActiveOf
  <2> QED BY <1>1, <1>9, <2>2 DEF StartStep, DeliverCanceled
<1>10. ASSUME NEW k \in Codes, AskProvider(k) PROVE StartStep
  BY <1>1, <1>10 DEF AskProvider, StartStep
<1> QED BY <1>3, <1>4, <1>5, <1>7, <1>8, <1>9, <1>10 DEF Next

(* The control of the actors, in every state. *)
LEMMA InitControl == Init => Control
<1> SUFFICES ASSUME Init, NEW a \in Actors PROVE ControlOK(actor[a])
  BY DEF Control
<1>1. actor = [b \in Actors |-> Idle] BY Zenon DEF Init
<1>2. actor[a].pc = "idle" /\ actor[a].kind = "idle" BY <1>1 DEF Idle
<1> QED BY <1>2 DEF ControlOK, CancelKinds, SwitchKinds

LEMMA IdleControl == ControlOK(Idle)
BY DEF ControlOK, Idle, CancelKinds, SwitchKinds

LEMMA OpensControl ==
  ASSUME NEW a \in Actors, Opens(a)
  PROVE  ControlOK(actor'[a]) /\ ~(actor'[a].pc = "idle")
<1>1. actor'[a].pc \in StepsOf(actor'[a].kind) BY DEF Opens, StepsOf
<1>2. ~Ready(actor'[a]) BY DEF Opens, Ready
<1> QED BY <1>1, <1>2 DEF Opens, ControlOK

LEMMA NextControl == IInv /\ Control /\ [Next]_vars => Control'
<1> SUFFICES ASSUME IInv, Control, [Next]_vars, NEW b \in Actors PROVE ControlOK(actor'[b])
  BY DEF Control
<1>1. ControlOK(actor[b]) BY DEF Control
<1>2. ASSUME StartStep PROVE ControlOK(actor'[b])
  <2>1. CASE UNCHANGED actor BY <1>1, <2>1
  <2>2. ASSUME NEW a \in Actors, Opens(a) PROVE ControlOK(actor'[b])
    <3>1. CASE b = a BY <2>2, <3>1, OpensControl
    <3>2. CASE b # a
      <4>1. actor'[b] = actor[b] BY <2>2, <3>2 DEF Opens, Alone
      <4> QED BY <1>1, <4>1
    <3> QED BY <3>1, <3>2
  <2> QED BY <1>2, <2>1, <2>2 DEF StartStep
<1>3. ASSUME NEW a \in Actors, Work(a) \/ Die(a) PROVE ControlOK(actor'[b])
  <2>1. ~At(a, "idle") /\ Alone(a) /\ (actor'[a] = Idle \/ Moves(a)) BY <1>3, WorkAlone
  <2>2. CASE b = a
    <3>1. CASE actor'[a] = Idle BY <2>2, <3>1, IdleControl
    <3>2. CASE Moves(a) BY <1>1, <2>1, <2>2, <3>2, MovesInside
    <3> QED BY <2>1, <3>1, <3>2
  <2>3. CASE b # a
    <3>1. actor'[b] = actor[b] BY <2>1, <2>3 DEF Alone
    <3> QED BY <1>1, <3>1
  <2> QED BY <2>2, <2>3
<1>4. CASE UNCHANGED vars BY <1>1, <1>4 DEF vars
<1> QED BY <1>2, <1>3, <1>4, StartOrWork

-----------------------------------------------------------------------------
(* What a step of a working actor does to the rows: their owner and plan   *)
(* stay, a new row belongs to its customer, and only the actor's own row   *)
(* or the one it found or made changes, in the ways named here.            *)
KeptPlans ==
  \A q \in Rows : subs[q].status # "none" =>
    subs'[q].status # "none" /\ subs'[q].owner = subs[q].owner /\ subs'[q].plan = subs[q].plan
NewOne(a, v) ==
  /\ v.status = "active" /\ v.owner = Customer(a) /\ ~v.claimed
  /\ \/ At(a, "insert") /\ v.plan = actor[a].plan /\ v.code = NewCode(a)
     \/ At(a, "insertFree") /\ v.plan = Free /\ v.code = NoCode
StatusMoves(a, q, v) ==
  \/ v.status = subs[q].status
  \/ q = actor[a].row /\ At(a, "cancelRow") /\ v.status = "canceled"
  \/ q = actor[a].row /\ At(a, "mark") /\ Kind(a) = "cancelDowngrade" /\ v.status = "canceled"
  \/ q = actor[a].row /\ At(a, "schedule") /\ v.status = "active"
  \/ q = actor[a].new /\ actor[a].pc \in {"renew", "reopen"} /\ v.status = "active"
ClaimMoves(a, q, v) ==
  \/ v.claimed = subs[q].claimed
  \/ q = actor[a].row /\ actor[a].pc \in {"claim", "mark"} /\ v.claimed
  \/ /\ q = actor[a].row /\ At(a, "schedule") /\ Kind(a) = "downgradeAsked"
     /\ v.claimed = actor[a].seen.claimed
  \/ q = actor[a].new /\ At(a, "renew") /\ v.claimed = actor[a].seen.claimed
  \/ /\ q = actor[a].new /\ At(a, "link")
     /\ v.claimed => Kind(a) = "upgradeInline" /\ actor[a].seen.claimed
CodeMoves(a, q, v) ==
  \/ v.code = subs[q].code
  \/ q = actor[a].row /\ Kind(a) = "canceled" /\ At(a, "cancelRow") /\ v.code = actor[a].code
  \/ q = actor[a].new /\ At(a, "link") /\ v.code = actor[a].code
  \/ q = actor[a].new /\ At(a, "link") /\ Kind(a) = "upgrade" /\ v.code = actor[a].seen.code
RowMoves(a, q, v) == StatusMoves(a, q, v) /\ ClaimMoves(a, q, v) /\ CodeMoves(a, q, v)
RowsMove(a) ==
  /\ KeptPlans
  /\ \A q \in Rows : IF subs[q].status = "none"
                     THEN subs'[q] = subs[q] \/ NewOne(a, subs'[q])
                     ELSE RowMoves(a, q, subs'[q])

LEMMA StillRows ==
  ASSUME NEW a \in Actors, UNCHANGED subs
  PROVE  RowsMove(a)
BY DEF RowsMove, KeptPlans, RowMoves, StatusMoves, ClaimMoves, CodeMoves

LEMMA WrittenRow ==
  ASSUME IInv, NEW a \in Actors, NEW r \in Rows, subs[r].status # "none", NEW v,
         subs' = [subs EXCEPT ![r] = v],
         v.status # "none", v.owner = subs[r].owner, v.plan = subs[r].plan, RowMoves(a, r, v)
  PROVE  RowsMove(a)
<1>1. \A q \in Rows : subs'[q] = IF q = r THEN v ELSE subs[q] BY DEF IInv, RowsOK
<1>2. KeptPlans BY <1>1 DEF KeptPlans
<1>3. ASSUME NEW q \in Rows, subs[q].status # "none" PROVE RowMoves(a, q, subs'[q])
  <2>1. CASE q = r
    <3>1. subs'[q] = v BY <1>1, <2>1
    <3> QED BY <2>1, <3>1
  <2>2. CASE q # r
    <3>1. subs'[q] = subs[q] BY <1>1, <2>2
    <3> QED BY <3>1 DEF RowMoves, StatusMoves, ClaimMoves, CodeMoves
  <2> QED BY <2>1, <2>2
<1>4. ASSUME NEW q \in Rows, subs[q].status = "none" PROVE subs'[q] = subs[q]
  BY <1>1, <1>4
<1> QED BY <1>2, <1>3, <1>4 DEF RowsMove

LEMMA AddedRow ==
  ASSUME IInv, NEW a \in Actors, NEW r \in Rows, subs[r].status = "none", NEW v,
         subs' = [subs EXCEPT ![r] = v], NewOne(a, v)
  PROVE  RowsMove(a)
<1>1. \A q \in Rows : subs'[q] = IF q = r THEN v ELSE subs[q] BY DEF IInv, RowsOK
<1>2. KeptPlans BY <1>1 DEF KeptPlans
<1>3. ASSUME NEW q \in Rows, subs[q].status # "none" PROVE RowMoves(a, q, subs'[q])
  <2>1. subs'[q] = subs[q] BY <1>1, <1>3
  <2> QED BY <2>1 DEF RowMoves, StatusMoves, ClaimMoves, CodeMoves
<1>4. ASSUME NEW q \in Rows, subs[q].status = "none"
      PROVE  subs'[q] = subs[q] \/ NewOne(a, subs'[q])
  <2>1. subs'[q] \in {v, subs[q]} /\ (subs'[q] = v => NewOne(a, subs'[q])) BY <1>1
  <2> QED BY <2>1
<1> QED BY <1>2, <1>3, <1>4 DEF RowsMove

LEMMA WorkRows ==
  ASSUME IInv, NEW a \in Actors, Work(a) \/ Die(a)
  PROVE  RowsMove(a)
<1> DEFINE r == actor[a].row
           n == actor[a].new
<1>1. subs \in [Rows -> Row] BY DEF IInv, RowsOK
<1>2. ASSUME ~At(a, "idle") PROVE r \in Rows /\ subs[r] \in Row /\ subs[r].status # "none"
  BY <1>2, Working
<1>3. ASSUME Written(actor[a]) PROVE n \in Rows /\ subs[n] \in Row /\ subs[n].status # "none"
  BY <1>3, WorkingNew
<1>4. CASE CancelRow(a)
  <2> DEFINE v == [subs[r] EXCEPT !.status = "canceled",
                     !.code = IF Kind(a) = "canceled" THEN actor[a].code ELSE @]
  <2>1. subs' = [subs EXCEPT ![r] = v] /\ At(a, "cancelRow") BY <1>1, <1>4 DEF CancelRow
  <2>2. r \in Rows /\ subs[r] \in Row /\ subs[r].status # "none" BY <1>2, <2>1 DEF At
  <2>3. /\ v.claimed = subs[r].claimed /\ v.status = "canceled"
        /\ v.owner = subs[r].owner /\ v.plan = subs[r].plan
        /\ v.code = IF Kind(a) = "canceled" THEN actor[a].code ELSE subs[r].code
    BY <2>2 DEF Row
  <2> HIDE DEF v
  <2>4. RowMoves(a, r, v)
    BY <2>1, <2>3 DEF RowMoves, StatusMoves, ClaimMoves, CodeMoves
  <2> HIDE DEF r
  <2> QED BY <2>1, <2>2, <2>3, <2>4, WrittenRow
<1>5. CASE ScheduleCancel(a)
  <2> DEFINE v == [subs[r] EXCEPT !.status = "active", !.cancelAt = TRUE]
  <2>1. subs' = [subs EXCEPT ![r] = v] /\ At(a, "schedule") BY <1>1, <1>5 DEF ScheduleCancel
  <2>2. r \in Rows /\ subs[r] \in Row /\ subs[r].status # "none" BY <1>2, <2>1 DEF At
  <2>3. /\ v.claimed = subs[r].claimed /\ v.status = "active" /\ v.code = subs[r].code
        /\ v.owner = subs[r].owner /\ v.plan = subs[r].plan
    BY <2>2 DEF Row
  <2> HIDE DEF v
  <2>4. RowMoves(a, r, v)
    BY <2>1, <2>3 DEF RowMoves, StatusMoves, ClaimMoves, CodeMoves
  <2> HIDE DEF r
  <2> QED BY <2>1, <2>2, <2>3, <2>4, WrittenRow
<1>6. CASE ScheduleDowngrade(a)
  <2> DEFINE v == [subs[r] EXCEPT !.status = "active", !.cancelAt = TRUE,
                     !.sched = TRUE, !.claimed = actor[a].seen.claimed]
  <2>1. subs' = [subs EXCEPT ![r] = v] /\ At(a, "schedule") /\ Kind(a) = "downgradeAsked"
    BY <1>1, <1>6 DEF ScheduleDowngrade
  <2>2. r \in Rows /\ subs[r] \in Row /\ subs[r].status # "none" BY <1>2, <2>1 DEF At
  <2>3. /\ v.claimed = actor[a].seen.claimed /\ v.status = "active" /\ v.code = subs[r].code
        /\ v.owner = subs[r].owner /\ v.plan = subs[r].plan
    BY <2>2 DEF Row
  <2> HIDE DEF v
  <2>4. RowMoves(a, r, v)
    BY <2>1, <2>3 DEF RowMoves, StatusMoves, ClaimMoves, CodeMoves
  <2> HIDE DEF r
  <2> QED BY <2>1, <2>2, <2>3, <2>4, WrittenRow
<1>7. CASE Claim(a)
  <2> DEFINE v == [subs[r] EXCEPT !.claimed = TRUE]
  <2>1. UNCHANGED subs \/ subs' = [subs EXCEPT ![r] = v] BY <1>1, <1>7 DEF Claim
  <2>2. At(a, "claim") BY <1>7 DEF Claim
  <2>3. r \in Rows /\ subs[r] \in Row /\ subs[r].status # "none" BY <1>2, <2>2 DEF At
  <2>4. /\ v.claimed /\ v.status = subs[r].status /\ v.code = subs[r].code
        /\ v.owner = subs[r].owner /\ v.plan = subs[r].plan
    BY <2>3 DEF Row
  <2> HIDE DEF v
  <2>5. RowMoves(a, r, v)
    BY <2>2, <2>4 DEF RowMoves, StatusMoves, ClaimMoves, CodeMoves, At
  <2> HIDE DEF r
  <2> QED BY <2>1, <2>3, <2>4, <2>5, WrittenRow, StillRows
<1>8. CASE Mark(a)
  <2> DEFINE v == [subs[r] EXCEPT !.status = "canceled", !.claimed = TRUE, !.sched = FALSE]
             u == [subs[r] EXCEPT !.claimed = TRUE, !.sched = actor[a].seen.sched]
  <2>1. \/ subs' = [subs EXCEPT ![r] = v] /\ Kind(a) = "cancelDowngrade"
        \/ subs' = [subs EXCEPT ![r] = u]
    BY <1>1, <1>8 DEF Mark
  <2>2. At(a, "mark") BY <1>8 DEF Mark
  <2>3. r \in Rows /\ subs[r] \in Row /\ subs[r].status # "none" BY <1>2, <2>2 DEF At
  <2>4. /\ v.claimed /\ v.status = "canceled" /\ v.code = subs[r].code
        /\ v.owner = subs[r].owner /\ v.plan = subs[r].plan
    BY <2>3 DEF Row
  <2>5. /\ u.claimed /\ u.status = subs[r].status /\ u.code = subs[r].code
        /\ u.owner = subs[r].owner /\ u.plan = subs[r].plan
    BY <2>3 DEF Row
  <2> HIDE DEF v, u
  <2>6. RowMoves(a, r, u) /\ (Kind(a) = "cancelDowngrade" => RowMoves(a, r, v))
    BY <2>2, <2>4, <2>5 DEF RowMoves, StatusMoves, ClaimMoves, CodeMoves, At
  <2> HIDE DEF r
  <2> QED BY <2>1, <2>3, <2>4, <2>5, <2>6, WrittenRow
<1>9. CASE Renew(a)
  <2> DEFINE v == [subs[n] EXCEPT !.status = "active", !.sched = actor[a].seen.sched,
                                  !.claimed = actor[a].seen.claimed]
  <2>1. subs' = [subs EXCEPT ![n] = v] /\ At(a, "renew") BY <1>1, <1>9 DEF Renew
  <2>2. n \in Rows /\ subs[n] \in Row /\ subs[n].status # "none"
    BY <1>3, <2>1 DEF At, Written
  <2>3. /\ v.claimed = actor[a].seen.claimed /\ v.status = "active" /\ v.code = subs[n].code
        /\ v.owner = subs[n].owner /\ v.plan = subs[n].plan
    BY <2>2 DEF Row
  <2> HIDE DEF v
  <2>4. RowMoves(a, n, v)
    BY <2>1, <2>3 DEF RowMoves, StatusMoves, ClaimMoves, CodeMoves, At
  <2> HIDE DEF n
  <2> QED BY <2>1, <2>2, <2>3, <2>4, WrittenRow
<1>10. CASE Reopen(a)
  <2> DEFINE v == [subs[n] EXCEPT !.status = "active"]
  <2>1. subs' = [subs EXCEPT ![n] = v] /\ At(a, "reopen") BY <1>1, <1>10 DEF Reopen
  <2>2. n \in Rows /\ subs[n] \in Row /\ subs[n].status # "none"
    BY <1>3, <2>1 DEF At, Written
  <2>3. /\ v.claimed = subs[n].claimed /\ v.status = "active" /\ v.code = subs[n].code
        /\ v.owner = subs[n].owner /\ v.plan = subs[n].plan
    BY <2>2 DEF Row
  <2> HIDE DEF v
  <2>4. RowMoves(a, n, v)
    BY <2>1, <2>3 DEF RowMoves, StatusMoves, ClaimMoves, CodeMoves, At
  <2> HIDE DEF n
  <2> QED BY <2>1, <2>2, <2>3, <2>4, WrittenRow
<1>11. CASE Link(a)
  <2> DEFINE code == IF NeedsLink(a) THEN actor[a].code ELSE actor[a].seen.code
             v == [subs[n] EXCEPT !.code = code,
                                  !.cancelAt = (NeedsLink(a) /\ actor[a].code = NoCode),
                                  !.sched = FALSE, !.claimed = FALSE]
  <2>1. subs' = [subs EXCEPT ![n] = v] BY <1>1, <1>11 DEF Link
  <2>2. At(a, "link") /\ Kind(a) = "upgrade" BY <1>11 DEF Link
  <2>3. n \in Rows /\ subs[n] \in Row /\ subs[n].status # "none"
    BY <1>3, <2>2 DEF At, Written
  <2>4. code \in {actor[a].code, actor[a].seen.code} OBVIOUS
  <2> HIDE DEF code
  <2>5. /\ ~v.claimed /\ v.status = subs[n].status /\ v.code = code
        /\ v.owner = subs[n].owner /\ v.plan = subs[n].plan
    BY <2>3 DEF Row
  <2> HIDE DEF v
  <2>6. RowMoves(a, n, v)
    BY <2>2, <2>4, <2>5 DEF RowMoves, StatusMoves, ClaimMoves, CodeMoves
  <2> HIDE DEF n
  <2> QED BY <2>1, <2>3, <2>5, <2>6, WrittenRow
<1>12. CASE LinkInline(a)
  <2> DEFINE unbilled == NeedsLink(a) /\ actor[a].code = NoCode
             sched == IF unbilled THEN actor[a].seen.sched ELSE subs[n].sched
             claimed == IF unbilled THEN actor[a].seen.claimed ELSE subs[n].claimed
             v == [subs[n] EXCEPT !.code = actor[a].code, !.cancelAt = unbilled,
                                  !.sched = sched, !.claimed = claimed]
  <2>1. UNCHANGED subs \/ subs' = [subs EXCEPT ![n] = v] BY <1>1, <1>12 DEF LinkInline
  <2>2. At(a, "link") /\ Kind(a) = "upgradeInline" BY <1>12 DEF LinkInline
  <2>3. n \in Rows /\ subs[n] \in Row /\ subs[n].status # "none"
    BY <1>3, <2>2 DEF At, Written
  <2>4. claimed = subs[n].claimed \/ claimed = actor[a].seen.claimed OBVIOUS
  <2> HIDE DEF claimed, sched, unbilled
  <2>5. /\ v.claimed = claimed /\ v.status = subs[n].status /\ v.code = actor[a].code
        /\ v.owner = subs[n].owner /\ v.plan = subs[n].plan
    BY <2>3 DEF Row
  <2> HIDE DEF v
  <2>6. RowMoves(a, n, v)
    BY <2>2, <2>4, <2>5 DEF RowMoves, StatusMoves, ClaimMoves, CodeMoves
  <2> HIDE DEF n
  <2> QED BY <2>1, <2>3, <2>5, <2>6, WrittenRow, StillRows
<1>13. CASE Insert(a)
  <2> DEFINE v == [Unused EXCEPT !.owner = Customer(a), !.status = "active",
                           !.plan = actor[a].plan, !.code = NewCode(a),
                           !.cancelAt = (Kind(a) = "upgradeNow" /\ actor[a].code = NoCode)]
  <2>1. PICK q \in Rows : subs[q].status = "none" /\ subs' = [subs EXCEPT ![q] = v]
    BY <1>13 DEF Insert
  <2>2. /\ v.status = "active" /\ v.owner = Customer(a) /\ ~v.claimed
        /\ v.plan = actor[a].plan /\ v.code = NewCode(a)
    BY DEF Unused
  <2>3. At(a, "insert") BY <1>13 DEF Insert
  <2> HIDE DEF v
  <2>4. NewOne(a, v) BY <2>2, <2>3 DEF NewOne
  <2> QED BY <2>1, <2>4, AddedRow
<1>14. CASE InsertFree(a)
  <2> DEFINE v == [Unused EXCEPT !.owner = Customer(a), !.status = "active", !.plan = Free,
                                 !.origin = actor[a].row]
  <2>1. PICK q \in Rows : subs[q].status = "none" /\ subs' = [subs EXCEPT ![q] = v]
    BY <1>14 DEF InsertFree
  <2>2. /\ v.status = "active" /\ v.owner = Customer(a) /\ ~v.claimed
        /\ v.plan = Free /\ v.code = NoCode
    BY DEF Unused
  <2>3. At(a, "insertFree") BY <1>14 DEF InsertFree
  <2> HIDE DEF v
  <2>4. NewOne(a, v) BY <2>2, <2>3 DEF NewOne
  <2> QED BY <2>1, <2>4, AddedRow
<1>15. CASE UNCHANGED subs BY <1>15, StillRows
<1> QED
  BY <1>4, <1>5, <1>6, <1>7, <1>8, <1>9, <1>10, <1>11, <1>12, <1>13, <1>14, <1>15
     DEF Work, Die, CancelAtProvider, Wake, VerifyCancel, VerifyDowngrade, Look, Provision,
         Find, InsertRefused, ReviveRefused, Load, Bill, SameWorld

\* Which statement an actor's step is.
LEMMA StepIs ==
  ASSUME NEW a \in Actors, Work(a)
  PROVE  /\ At(a, "cancelAtProvider") => CancelAtProvider(a)
         /\ At(a, "cancelRow") => CancelRow(a)
         /\ At(a, "schedule") => ScheduleCancel(a) \/ ScheduleDowngrade(a) \/ ReviveRefused(a)
         /\ At(a, "claim") => Claim(a)
         /\ At(a, "look") => Look(a)
         /\ At(a, "insertFree") => InsertFree(a)
         /\ At(a, "provision") => Provision(a)
         /\ At(a, "find") => Find(a)
         /\ At(a, "insert") => Insert(a) \/ InsertRefused(a)
         /\ At(a, "renew") => Renew(a) \/ ReviveRefused(a)
         /\ At(a, "reopen") => Reopen(a) \/ ReviveRefused(a)
         /\ At(a, "load") => Load(a)
         /\ At(a, "bill") => Bill(a)
BY DEF Work, CancelAtProvider, CancelRow, ScheduleCancel, ScheduleDowngrade, Wake,
       VerifyCancel, VerifyDowngrade, Claim, Look, InsertFree, Provision, Mark,
       Find, Insert, InsertRefused, Renew, Reopen, ReviveRefused, Load, Bill, Link, LinkInline, At

-----------------------------------------------------------------------------
(* The provider's codes: wherever one is kept, the provider has made that  *)
(* subscription, for the plan it is kept with.                             *)
Fitting(code, plan) ==
  code \in Codes => provider[code].status # "none" /\ provider[code].plan = plan
ActorFits(v) ==
  /\ v.kind = "canceled" /\ v.pc # "idle" => Fitting(v.code, subs[v.row].plan)
  /\ v.kind \in SwitchKinds =>
       Fitting(v.code, v.plan) /\ (v.new # NoRow => subs[v.new].plan = v.plan)
  /\ v.kind = "upgrade" /\ v.pc \in {"bill", "link"} => Fitting(v.seen.code, v.plan)
CodesFit ==
  /\ \A r \in Rows : Fitting(subs[r].code, subs[r].plan)
  /\ \A k \in checkouts : Fitting(k.code, k.plan)
  /\ \A k \in Codes : echoes[k] > 0 => provider[k].status # "none"
  /\ \A a \in Actors : ActorFits(actor[a])

ProviderKept ==
  \A k \in Codes : provider[k].status # "none" =>
    provider'[k].status # "none" /\ provider'[k].plan = provider[k].plan

LEMMA SameProvider ==
  ASSUME UNCHANGED provider
  PROVE  ProviderKept
BY DEF ProviderKept

LEMMA FittingKept ==
  ASSUME ProviderKept, NEW code, NEW plan, Fitting(code, plan)
  PROVE  code \in Codes => provider'[code].status # "none" /\ provider'[code].plan = plan
BY DEF ProviderKept, Fitting

\* An actor that goes on, or does nothing, with the rows there are.
LEMMA FitsKept ==
  ASSUME ProviderKept, KeptPlans, NEW v \in Actor, ActorFits(v), NamesRows(v)
  PROVE  ActorFits(v)'
<1>1. v.new # NoRow => v.new \in Rows /\ subs[v.new].status # "none"
  BY DEF Actor, NamesRows
<1>2. v.pc # "idle" => v.row \in Rows /\ subs[v.row].status # "none" BY DEF NamesRows
<1>3. v.new # NoRow => subs'[v.new].plan = subs[v.new].plan BY <1>1 DEF KeptPlans
<1>4. v.pc # "idle" => subs'[v.row].plan = subs[v.row].plan BY <1>2 DEF KeptPlans
<1>5. v.kind = "canceled" /\ v.pc # "idle" => Fitting(v.code, subs[v.row].plan)'
  BY <1>4, FittingKept DEF ActorFits, Fitting
<1>6. v.kind \in SwitchKinds => Fitting(v.code, v.plan)' BY FittingKept DEF ActorFits, Fitting
<1>7. v.kind = "upgrade" /\ v.pc \in {"bill", "link"} => Fitting(v.seen.code, v.plan)'
  BY FittingKept DEF ActorFits, Fitting
<1> QED BY <1>3, <1>5, <1>6, <1>7 DEF ActorFits

LEMMA InitCodes == Init => CodesFit
<1> SUFFICES ASSUME Init PROVE CodesFit
  OBVIOUS
<1>0. ~(0 > 0) OBVIOUS
<1> PICK rowOf \in [Customers -> Rows], codeOf \in [Customers -> Codes], plan \in Plans :
    /\ \A c, d \in Customers : c # d => rowOf[c] # rowOf[d] /\ codeOf[c] # codeOf[d]
    /\ subs = [r \in Rows |->
         IF \E c \in Customers : rowOf[c] = r
         THEN LET c == CHOOSE c \in Customers : rowOf[c] = r
              IN  [Unused EXCEPT !.owner = c, !.status = "active", !.plan = plan,
                                 !.code = IF plan = Free THEN NoCode ELSE codeOf[c]]
         ELSE Unused]
    /\ provider = [k \in Codes |->
         IF plan # Free /\ \E c \in Customers : codeOf[c] = k
         THEN [status |-> "active", owner |-> CHOOSE c \in Customers : codeOf[c] = k,
               plan |-> plan]
         ELSE [status |-> "none", owner |-> "none", plan |-> NoPlan]]
    /\ echoes = [k \in Codes |-> 0]
    /\ checkouts = {}
    /\ actor = [a \in Actors |-> Idle]
    /\ entitled = [c \in Customers |-> plan]
    /\ asked = 0 /\ faults = 0
    /\ canceling = {} /\ lost = {} /\ crossed = {} /\ gaveUp = {}
  BY Zenon DEF Init
<1>1. checkouts = {} /\ echoes = [k \in Codes |-> 0] OBVIOUS
<1>2. ASSUME NEW r \in Rows PROVE Fitting(subs[r].code, subs[r].plan)
  <2>1. CASE \E c \in Customers : rowOf[c] = r
    <3> DEFINE c == CHOOSE c \in Customers : rowOf[c] = r
               code == IF plan = Free THEN NoCode ELSE codeOf[c]
    <3>1. c \in Customers BY <2>1
    <3>2. subs[r] = [Unused EXCEPT !.owner = c, !.status = "active", !.plan = plan,
                                   !.code = code]
      BY <2>1
    <3>3. code \in Codes => plan # Free /\ code = codeOf[c] BY SwitchAssumption
    <3> HIDE DEF c, code
    <3>4. subs[r].code = code /\ subs[r].plan = plan BY <3>2 DEF Unused
    <3>5. code \in Codes => provider[code].status = "active" /\ provider[code].plan = plan
      BY <3>1, <3>3
    <3> QED BY <3>4, <3>5 DEF Fitting
  <2>2. CASE ~\E c \in Customers : rowOf[c] = r
    <3>1. subs[r] = Unused BY <2>2
    <3>2. subs[r].code = NoCode BY <3>1 DEF Unused
    <3> QED BY <3>2, SwitchAssumption DEF Fitting
  <2> QED BY <2>1, <2>2
<1>3. \A k \in Codes : echoes[k] = 0 BY <1>1
<1>4. ASSUME NEW a \in Actors PROVE ActorFits(actor[a])
  <2>1. actor = [b \in Actors |-> Idle] OBVIOUS
  <2>2. actor[a] = Idle BY <2>1, Zenon
  <2>3. Idle.kind = "idle" BY DEF Idle
  <2> QED BY <2>2, <2>3 DEF ActorFits, SwitchKinds
<1>5. ASSUME NEW k \in Codes PROVE ~(echoes[k] > 0)
  <2>1. echoes[k] = 0 BY <1>3
  <2> QED BY <1>0, <2>1, Zenon
<1> QED BY <1>1, <1>2, <1>4, <1>5 DEF CodesFit

\* What every step does to the codes outside the rows.
CodesMove ==
  /\ ProviderKept
  /\ \A k \in Codes : echoes'[k] > 0 => echoes[k] > 0 \/ provider'[k].status # "none"
  /\ \A k \in checkouts' : k \in checkouts \/ Fitting(k.code, k.plan)'
StillCodes == UNCHANGED <<provider, echoes, checkouts>>

LEMMA SameCodes == ASSUME StillCodes PROVE CodesMove
BY DEF StillCodes, CodesMove, ProviderKept

LEMMA NoCodeFits ==
  ASSUME NEW plan
  PROVE  Fitting(NoCode, plan) /\ Fitting(NoCode, plan)'
BY SwitchAssumption DEF Fitting

\* A cancellation at the provider.
LEMMA CancelCodes ==
  ASSUME ProviderOK, NEW code \in Codes, provider[code].status # "none",
         provider' = [provider EXCEPT ![code].status = "canceled"],
         NEW n, echoes' = [echoes EXCEPT ![code] = n], UNCHANGED checkouts
  PROVE  CodesMove
<1>1. \A k \in Codes : k # code => provider'[k] = provider[k] /\ echoes'[k] = echoes[k]
  BY DEF ProviderOK
<1>2. provider'[code].status = "canceled" /\ provider'[code].plan = provider[code].plan
  BY DEF ProviderOK
<1>3. ProviderKept BY <1>1, <1>2 DEF ProviderKept
<1>4. ASSUME NEW k \in Codes, echoes'[k] > 0 PROVE echoes[k] > 0 \/ provider'[k].status # "none"
  <2>1. CASE k = code BY <1>2, <2>1
  <2>2. CASE k # code
    <3>1. echoes'[k] = echoes[k] BY <1>1, <2>2
    <3> QED BY <1>4, <3>1
  <2> QED BY <2>1, <2>2
<1> QED BY <1>3, <1>4 DEF CodesMove

\* A new subscription at the provider.
LEMMA BillCodes ==
  ASSUME ProviderOK, NEW code \in Codes, provider[code].status = "none", NEW who, NEW plan,
         provider' = [provider EXCEPT ![code] =
           [status |-> "active", owner |-> who, plan |-> plan]]
  PROVE  ProviderKept /\ provider'[code].status # "none" /\ provider'[code].plan = plan
<1> PICK p : p = [status |-> "active", owner |-> who, plan |-> plan] OBVIOUS
<1>1. p.status = "active" /\ p.plan = plan OBVIOUS
<1>2. \A k \in Codes : provider'[k] = IF k = code THEN p ELSE provider[k] BY DEF ProviderOK
<1> QED BY <1>1, <1>2 DEF ProviderKept

\* How an actor begins.
LEMMA BeginFits ==
  ASSUME IInv, NEW a \in Actors, NEW kind, NEW step, NEW r \in Rows, NEW plan, NEW code,
         Begin(a, kind, step, r, plan, code), UNCHANGED subs,
         kind = "canceled" => Fitting(code, subs[r].plan)',
         kind \in SwitchKinds => Fitting(code, plan)',
         kind = "upgrade" => step = "cancelAtProvider"
  PROVE  \A b \in Actors : actor'[b] = actor[b] \/ ActorFits(actor[b])'
<1> PICK v : v = [kind |-> kind, pc |-> step, row |-> r, seen |-> subs[r], plan |-> plan,
                  new |-> NoRow, code |-> code]
  OBVIOUS
<1>1. v.kind = kind /\ v.pc = step /\ v.row = r /\ v.plan = plan /\ v.new = NoRow /\ v.code = code
  OBVIOUS
<1>2. actor' = [actor EXCEPT ![a] = v] BY DEF Begin
<1>3. ActorFits(v)' BY <1>1 DEF ActorFits
<1>4. ASSUME NEW b \in Actors PROVE actor'[b] = actor[b] \/ ActorFits(actor[b])'
  <2>1. CASE b = a
    <3>1. actor'[b] = v BY <1>2, <2>1 DEF IInv, ActorsOK
    <3> QED BY <1>3, <3>1 DEF ActorFits, Fitting
  <2>2. CASE b # a BY <1>2, <2>2 DEF IInv, ActorsOK
  <2> QED BY <2>1, <2>2
<1> QED BY <1>4

StartFits ==
  /\ UNCHANGED subs /\ CodesMove
  /\ \A b \in Actors : actor'[b] = actor[b] \/ ActorFits(actor[b])'

LEMMA StartCodes ==
  ASSUME IInv, CodesFit, Next
  PROVE  StartFits \/ \E a \in Actors : Work(a) \/ Die(a)
<1>0. ProviderOK BY DEF IInv
<1>1. ASSUME NEW a \in Actors, NEW r \in Rows, NEW plan \in Plans, AskDowngrade(a, r, plan)
      PROVE  StartFits
  <2>1. UNCHANGED subs /\ StillCodes BY <1>1 DEF AskDowngrade, Ask, StillCodes
  <2>2. Begin(a, "downgradeAsked", "schedule", r, plan, NoCode) BY <1>1 DEF AskDowngrade
  <2> QED BY <2>1, <2>2, BeginFits, NoCodeFits, SameCodes DEF StartFits
<1>2. ASSUME NEW a \in Actors, NEW r \in Rows, NEW plan \in Plans, AskUpgrade(a, r, plan)
      PROVE  StartFits
  <2>1. UNCHANGED <<subs, provider, echoes>> BY <1>2 DEF AskUpgrade, Ask
  <2>2. CASE UNCHANGED actor /\ checkouts' = checkouts \cup
               {[row |-> r, plan |-> plan,
                 kind |-> IF Paid(subs[r].plan) THEN "upgrade" ELSE "newPaid",
                 left |-> MaxDeliveries, code |-> NoCode]}
    <3>1. CodesMove BY <2>1, <2>2, NoCodeFits DEF CodesMove, ProviderKept
    <3> QED BY <2>1, <2>2, <3>1 DEF StartFits
  <2>3. ASSUME NEW now \in {"upgradeNow", "newNow"}, NEW step,
               Begin(a, now, step, r, plan, NoCode), UNCHANGED checkouts
        PROVE  StartFits
    <3>1. CodesMove BY <2>1, <2>3, SameCodes DEF StillCodes
    <3> QED BY <2>1, <2>3, <3>1, BeginFits, NoCodeFits DEF StartFits
  <2> QED BY <1>2, <2>2, <2>3 DEF AskUpgrade
<1>3. ASSUME NEW a \in Actors, NEW r \in Rows, NEW kind \in {"cancelNow", "cancelLater"},
             AskCancel(a, r, kind)
      PROVE  StartFits
  <2>1. UNCHANGED subs /\ StillCodes BY <1>3 DEF AskCancel, Ask, StillCodes
  <2>2. Begin(a, kind, "cancelAtProvider", r, NoPlan, NoCode) BY <1>3 DEF AskCancel
  <2>3. kind \notin SwitchKinds BY DEF SwitchKinds
  <2> QED BY <2>1, <2>2, <2>3, BeginFits, SameCodes DEF StartFits
<1>4. ASSUME NEW k \in checkouts
      PROVE  /\ k.row \in Rows /\ Fitting(k.code, k.plan)
             /\ \A n : LET j == [k EXCEPT !.left = n] IN j.plan = k.plan /\ j.code = k.code
             /\ \A n, code : LET j == [k EXCEPT !.left = n, !.code = code]
                             IN  j.plan = k.plan /\ j.code = code
  BY DEF IInv, CheckoutsOK, Checkout, CodesFit
<1>5. ASSUME NEW a \in Actors, NEW k \in checkouts, PayUpgrade(a, k) PROVE StartFits
  <2> PICK kind \in {"upgrade", "upgradeInline"} :
        Begin(a, kind, "cancelAtProvider", k.row, k.plan, NoCode)
    BY <1>5 DEF PayUpgrade
  <2> DEFINE j == [k EXCEPT !.left = @ - 1]
  <2>1. checkouts' = (checkouts \ {k}) \cup {j} /\ UNCHANGED <<subs, provider, echoes>>
    BY <1>5 DEF PayUpgrade
  <2>2. j.plan = k.plan /\ j.code = k.code BY <1>4
  <2> HIDE DEF j
  <2>3. ProviderKept BY <2>1 DEF ProviderKept
  <2>4. Fitting(j.code, j.plan)' BY <1>4, <2>2, <2>3, FittingKept DEF Fitting
  <2>5. CodesMove BY <2>1, <2>3, <2>4 DEF CodesMove
  <2>6. \A b \in Actors : actor'[b] = actor[b] \/ ActorFits(actor[b])'
    BY <1>4, <2>1, BeginFits, NoCodeFits
  <2> QED BY <2>1, <2>5, <2>6 DEF StartFits
<1>6. ASSUME NEW a \in Actors, NEW k \in checkouts, NEW code \in Codes, PayNew(a, k, code)
      PROVE  StartFits
  <2> DEFINE j == [k EXCEPT !.left = @ - 1, !.code = code]
  <2>1. /\ checkouts' = (checkouts \ {k}) \cup {j} /\ UNCHANGED <<subs, echoes>>
        /\ Begin(a, "newPaid", "find", k.row, k.plan, code)
    BY <1>6 DEF PayNew
  <2>2. j.plan = k.plan /\ j.code = code BY <1>4
  <2> HIDE DEF j
  <2>3. ProviderKept /\ Fitting(code, k.plan)'
    <3>1. CASE k.code = NoCode
      BY <1>0, <1>6, <3>1, BillCodes DEF PayNew, Fitting
    <3>2. CASE k.code # NoCode
      <4>1. code = k.code /\ UNCHANGED provider BY <1>6, <3>2 DEF PayNew
      <4>2. ProviderKept BY <4>1, SameProvider
      <4> QED BY <1>4, <4>1, <4>2, FittingKept DEF Fitting
    <3> QED BY <3>1, <3>2
  <2>4. CodesMove BY <2>1, <2>2, <2>3 DEF CodesMove
  <2>5. \A b \in Actors : actor'[b] = actor[b] \/ ActorFits(actor[b])'
    BY <1>4, <2>1, <2>3, BeginFits
  <2> QED BY <2>1, <2>4, <2>5 DEF StartFits
<1>7. ASSUME NEW a \in Actors, NEW k \in Codes, DeliverCanceled(a, k) PROVE StartFits
  <2>1. /\ UNCHANGED <<subs, provider, checkouts>> /\ echoes[k] > 0
        /\ echoes' = [echoes EXCEPT ![k] = @ - 1]
    BY <1>7 DEF DeliverCanceled
  <2>2. provider[k].status # "none" BY <2>1 DEF CodesFit
  <2>3. ProviderKept BY <2>1, SameProvider
  <2>4. \A i \in Codes : echoes'[i] > 0 => echoes[i] > 0
    <3>1. \A i \in Codes : i # k => echoes'[i] = echoes[i] BY <2>1 DEF IInv, ProviderOK
    <3> QED BY <2>1, <3>1
  <2>5. CodesMove BY <2>1, <2>3, <2>4 DEF CodesMove
  <2>6. ASSUME NEW r \in Rows, Begin(a, "canceled", "cancelRow", r, NoPlan, k),
               subs[r].code = k \/ subs[r].plan = provider[k].plan
        PROVE  \A b \in Actors : actor'[b] = actor[b] \/ ActorFits(actor[b])'
    <3>1. Fitting(k, subs[r].plan) BY <2>2, <2>6 DEF CodesFit, Fitting
    <3>2. Fitting(k, subs[r].plan)' BY <2>1, <3>1 DEF Fitting
    <3> QED BY <2>1, <2>6, <3>2, BeginFits DEF SwitchKinds
  <2>7. UNCHANGED actor \/ \E r \in Rows : /\ Begin(a, "canceled", "cancelRow", r, NoPlan, k)
                                           /\ subs[r].code = k \/ subs[r].plan = provider[k].plan
    BY <1>7 DEF DeliverCanceled, ActiveOf
  <2>8. \A b \in Actors : actor'[b] = actor[b] \/ ActorFits(actor[b])' BY <2>6, <2>7
  <2> QED BY <2>1, <2>5, <2>8 DEF StartFits
<1>8. ASSUME NEW k \in Codes, AskProvider(k) PROVE StartFits
  <2>1. CodesMove BY <1>0, <1>8, CancelCodes DEF AskProvider
  <2> QED BY <1>8, <2>1 DEF AskProvider, StartFits
<1> QED BY <1>1, <1>2, <1>3, <1>5, <1>6, <1>7, <1>8 DEF Next

\* What a working actor does to the codes outside the rows, its own among them.
LEMMA WorkCodes ==
  ASSUME IInv, Control, CodesFit, NEW a \in Actors, Work(a) \/ Die(a)
  PROVE  /\ CodesMove
         /\ \/ actor'[a] = Idle
            \/ actor'[a].code = actor[a].code
            \/ Kind(a) \in SwitchKinds /\ Fitting(actor[a].code, actor[a].plan)'
               /\ actor'[a].plan = actor[a].plan
<1>0. Tables /\ ProviderOK /\ ~At(a, "idle") BY TablesTyped, WorkAlone DEF IInv
<1>1. ASSUME NEW step, Goto(a, step) PROVE actor'[a].code = actor[a].code
  BY <1>0, <1>1 DEF Tables, Actor, Goto
<1>2. End(a) => actor'[a] = Idle BY <1>0, EndAlone
<1>3. CASE CancelAtProvider(a)
  <2>1. actor'[a] = Idle \/ actor'[a].code = actor[a].code
    BY <1>1, <1>2, <1>3 DEF CancelAtProvider, Advance
  <2>2. CASE StillCodes BY <2>1, <2>2, SameCodes
  <2>3. CASE ~StillCodes
    <3> PICK code \in Codes :
          /\ provider[code].status = "active"
          /\ provider' = [provider EXCEPT ![code].status = "canceled"]
          /\ \E n \in 1..MaxDeliveries : echoes' = [echoes EXCEPT ![code] = n]
      BY <1>3, <2>3 DEF CancelAtProvider, StillCodes
    <3>1. UNCHANGED checkouts BY <1>3 DEF CancelAtProvider
    <3>2. CodesMove BY <1>0, <3>1, CancelCodes
    <3> QED BY <2>1, <3>2
  <2> QED BY <2>2, <2>3
<1>4. CASE Bill(a)
  <2>1. Kind(a) \in SwitchKinds
    <3>1. ControlOK(actor[a]) /\ At(a, "bill") BY <1>4 DEF Control, Bill
    <3> QED BY <3>1 DEF ControlOK, StepsOf, SwitchKinds, At, Kind
  <2>2. ASSUME NEW k \in Codes, provider[k].status = "none",
               provider' = [provider EXCEPT ![k] =
                 [status |-> "active", owner |-> Customer(a), plan |-> actor[a].plan]],
               actor' = [actor EXCEPT ![a].code = k, ![a].pc = After(a)], UNCHANGED checkouts
        PROVE  CodesMove /\ Fitting(actor[a].code, actor[a].plan)'
               /\ actor'[a].plan = actor[a].plan
    <3>1. ProviderKept /\ provider'[k].status # "none" /\ provider'[k].plan = actor[a].plan
      BY <1>0, <2>2, BillCodes
    <3>2. actor'[a].code = k /\ actor'[a].plan = actor[a].plan
      BY <1>0, <2>2 DEF Tables, Actor
    <3>3. UNCHANGED echoes BY <1>4 DEF Bill
    <3>4. CodesMove BY <2>2, <3>1, <3>3 DEF CodesMove
    <3> QED BY <3>1, <3>2, <3>4 DEF Fitting
  <2>3. CASE UNCHANGED <<provider, checkouts>> /\ Goto(a, After(a))
    BY <1>1, <1>4, <2>3, SameCodes DEF Bill, StillCodes
  <2>4. CASE UNCHANGED provider /\ End(a) /\ checkouts' = checkouts \cup
               {[row |-> actor[a].row, plan |-> actor[a].plan, kind |-> "newPaid",
                 left |-> MaxDeliveries, code |-> NoCode]}
    <3>1. ProviderKept /\ UNCHANGED echoes BY <1>4, <2>4, SameProvider DEF Bill
    <3>2. CodesMove BY <2>4, <3>1, NoCodeFits DEF CodesMove
    <3> QED BY <1>2, <2>4, <3>2
  <2> QED BY <1>4, <2>1, <2>2, <2>3, <2>4 DEF Bill
<1>5. ASSUME NEW step, actor' = [actor EXCEPT ![a].kind = step, ![a].pc = "sleep"]
      PROVE  actor'[a].code = actor[a].code
  BY <1>0, <1>5 DEF Tables, Actor
<1>6. CASE ScheduleCancel(a) \/ ScheduleDowngrade(a)
  BY <1>2, <1>5, <1>6, SameCodes DEF ScheduleCancel, ScheduleDowngrade, SameWorld, StillCodes
<1>7. ASSUME NEW r, NEW v, NEW step,
             \/ actor' = [actor EXCEPT ![a].new = r, ![a].seen = v, ![a].pc = step]
             \/ actor' = [actor EXCEPT ![a].new = r, ![a].pc = step]
             \/ actor' = [actor EXCEPT ![a].seen = v, ![a].pc = step]
             \/ actor' = [actor EXCEPT ![a].pc = step, ![a].seen = v]
      PROVE  actor'[a].code = actor[a].code
  BY <1>0, <1>7 DEF Tables, Actor
<1>8. CASE Find(a)
  <2>1. actor'[a].code = actor[a].code
    <3>1. \/ Goto(a, "insert")
          \/ \E r \in Rows :
               actor' = [actor EXCEPT ![a].new = r, ![a].seen = subs[r], ![a].pc = After(a)]
      BY <1>8 DEF Find, ActiveOf
    <3>2. ASSUME NEW r \in Rows,
                 actor' = [actor EXCEPT ![a].new = r, ![a].seen = subs[r], ![a].pc = After(a)]
          PROVE  actor'[a].code = actor[a].code
      BY <1>0, <3>2 DEF Tables, Actor
    <3> QED BY <1>1, <3>1, <3>2
  <2> QED BY <1>8, <2>1, SameCodes DEF Find, SameWorld, StillCodes
<1>9. CASE Insert(a)
  <2>1. actor'[a].code = actor[a].code
    <3> PICK r \in Rows : actor' = [actor EXCEPT ![a].new = r, ![a].seen = subs'[r],
                                                 ![a].pc = After(a)]
      BY <1>9 DEF Insert
    <3> QED BY <1>0 DEF Tables, Actor
  <2> QED BY <1>9, <2>1, SameCodes DEF Insert, SameWorld, StillCodes
<1>10. CASE InsertRefused(a)
  <2>1. actor'[a] = Idle \/ actor'[a].code = actor[a].code
    BY <1>1, <1>2, <1>7, <1>10 DEF InsertRefused
  <2> QED BY <1>10, <2>1, SameCodes DEF InsertRefused, SameWorld, StillCodes
<1>11. CASE Load(a)
  <2>1. actor'[a].code = actor[a].code BY <1>7, <1>11 DEF Load
  <2> QED BY <1>11, <2>1, SameCodes DEF Load, SameWorld, StillCodes
<1>12. CASE VerifyCancel(a)
  <2>1. actor'[a] = Idle \/ actor'[a].code = actor[a].code
    BY <1>2, <1>7, <1>12 DEF VerifyCancel
  <2> QED BY <1>12, <2>1, SameCodes DEF VerifyCancel, SameWorld, StillCodes
<1>13. CASE \/ CancelRow(a) \/ Wake(a) \/ VerifyDowngrade(a) \/ Claim(a) \/ Look(a)
            \/ InsertFree(a) \/ Provision(a) \/ Mark(a) \/ Renew(a) \/ Reopen(a)
            \/ ReviveRefused(a) \/ Link(a) \/ LinkInline(a) \/ Die(a)
  <2>1. StillCodes
    BY <1>13 DEF CancelRow, Wake, VerifyDowngrade, Claim, Look, InsertFree, Provision, Mark,
                 Renew, Reopen, ReviveRefused, Link, LinkInline, Die, SameWorld, StillCodes
  <2>2. End(a) \/ \E step \in Steps : Goto(a, step)
    <3>1. After(a) \in Steps BY AfterStep
    <3> QED BY <1>13, <3>1
            DEF CancelRow, Wake, VerifyDowngrade, Claim, Look, InsertFree, Provision, Mark,
                Renew, Reopen, ReviveRefused, Link, LinkInline, Die, Advance, Steps
  <2> QED BY <1>1, <1>2, <2>1, <2>2, SameCodes
<1> QED BY <1>3, <1>4, <1>6, <1>8, <1>9, <1>10, <1>11, <1>12, <1>13 DEF Work

\* What is found or made is of the plan that the actor works for.
LEMMA FoundFits ==
  ASSUME IInv, Control, CodesFit, NEW a \in Actors, Work(a) \/ Die(a), Moves(a),
         actor[a].pc \in {"find", "insert"}, actor'[a].new # actor[a].new
  PROVE  actor'[a].new \in Rows /\ subs'[actor'[a].new].plan = actor[a].plan
<1>1. Tables /\ KeptPlans /\ actor[a] \in Actor /\ ~At(a, "idle")
  BY TablesTyped, WorkRows DEF RowsMove, Tables, At
<1>2. /\ Work(a) /\ actor'[a].new # NoRow /\ ~End(a)
      /\ \A step : ~Goto(a, step)
  <2>1. actor'[a].new # NoRow BY DEF Moves
  <2>2. ~End(a) BY <1>1, <2>1, EndAlone DEF Idle
  <2>3. \A step : ~Goto(a, step) BY <1>1, GotoAlone
  <2> QED BY <2>1, <2>2, <2>3 DEF Die
<1>3. CASE Find(a)
  <2>1. PICK r \in ActiveOf(Customer(a), actor[a].plan) :
          actor' = [actor EXCEPT ![a].new = r, ![a].seen = subs[r], ![a].pc = After(a)]
    BY <1>2, <1>3 DEF Find
  <2>2. actor'[a].new = r BY <1>1, <2>1 DEF Tables, Actor
  <2>3. r \in Rows /\ subs[r].status # "none" /\ subs[r].plan = actor[a].plan
    BY DEF ActiveOf, Active
  <2> QED BY <1>1, <2>2, <2>3 DEF KeptPlans
<1>4. CASE Insert(a)
  <2> DEFINE u == [Unused EXCEPT !.owner = Customer(a), !.status = "active",
                         !.plan = actor[a].plan, !.code = NewCode(a),
                         !.cancelAt = (Kind(a) = "upgradeNow" /\ actor[a].code = NoCode)]
  <2>1. PICK r \in Rows : /\ subs' = [subs EXCEPT ![r] = u]
                          /\ actor' = [actor EXCEPT ![a].new = r, ![a].seen = subs'[r],
                                                    ![a].pc = After(a)]
    BY <1>4 DEF Insert
  <2>2. u.plan = actor[a].plan BY DEF Unused
  <2> HIDE DEF u
  <2>3. subs'[r] = u /\ actor'[a].new = r BY <1>1, <2>1 DEF Tables, Actor
  <2> QED BY <2>2, <2>3
<1>5. CASE InsertRefused(a)
  <2>1. PICK r \in Rows :
          /\ Kind(a) = "newPaid" /\ Taken(NewCode(a)) /\ subs[r].owner = Customer(a)
          /\ subs[r].code = NewCode(a)
          /\ actor' = [actor EXCEPT ![a].new = r, ![a].pc = "reopen"]
    BY <1>2, <1>5 DEF InsertRefused
  <2>2. actor'[a].new = r BY <1>1, <2>1 DEF Tables, Actor
  <2>3. subs[r].code = actor[a].code /\ actor[a].code # NoCode
    BY <2>1 DEF NewCode, Taken
  <2>4. actor[a].code \in Codes BY <1>1, <2>3 DEF Actor
  <2>5. Fitting(subs[r].code, subs[r].plan) /\ Fitting(actor[a].code, actor[a].plan)
    BY <2>1 DEF CodesFit, ActorFits, Kind, SwitchKinds
  <2>6. subs[r].plan = actor[a].plan BY <2>3, <2>4, <2>5 DEF Fitting
  <2>7. subs[r].status # "none"
    BY <2>3, SwitchAssumption DEF IInv, RowsOK, Unused
  <2> QED BY <1>1, <2>2, <2>6, <2>7 DEF KeptPlans
<1> QED BY <1>2, <1>3, <1>4, <1>5, StepIs DEF At

\* The rows keep fitting.
LEMMA RowsFit ==
  ASSUME IInv, Control, CodesFit, NEW a \in Actors, Work(a) \/ Die(a), NEW q \in Rows
  PROVE  Fitting(subs[q].code, subs[q].plan)'
<1>1. RowsMove(a) /\ CodesMove /\ KeptPlans /\ ~At(a, "idle")
  BY WorkRows, WorkCodes, WorkAlone DEF RowsMove
<1>2. ProviderKept BY <1>1 DEF CodesMove
<1>3. ASSUME NEW code, NEW plan, Fitting(code, plan), subs'[q].code = code, subs'[q].plan = plan
      PROVE  Fitting(subs[q].code, subs[q].plan)'
  BY <1>2, <1>3, FittingKept DEF Fitting
<1>4. /\ ActorFits(actor[a]) /\ ControlOK(actor[a]) /\ NamesRows(actor[a])
      /\ Fitting(subs[q].code, subs[q].plan)
  BY DEF CodesFit, Control, IInv, ActorsOK
<1>5. CASE subs'[q] = subs[q] BY <1>3, <1>4, <1>5
<1>6. CASE subs[q].status = "none" /\ NewOne(a, subs'[q])
  <2>1. CASE subs'[q].code = NoCode BY <1>3, <2>1, NoCodeFits
  <2>2. CASE At(a, "insert") /\ subs'[q].plan = actor[a].plan /\ subs'[q].code = NewCode(a)
    <3>1. Kind(a) \in SwitchKinds
      BY <1>4, <2>2 DEF ControlOK, StepsOf, SwitchKinds, At, Kind
    <3>2. Fitting(actor[a].code, actor[a].plan) BY <1>4, <3>1 DEF ActorFits, Kind
    <3>3. NewCode(a) \in Sentinels \/ NewCode(a) = actor[a].code BY DEF NewCode, Sentinels
    <3>4. Fitting(NewCode(a), actor[a].plan)
      BY <3>2, <3>3, SwitchAssumption DEF Fitting, Sentinels
    <3> QED BY <1>3, <2>2, <3>4
  <2> QED BY <1>6, <2>1, <2>2 DEF NewOne
<1>7. CASE subs[q].status # "none"
  <2>1. CodeMoves(a, q, subs'[q]) /\ subs'[q].plan = subs[q].plan
    BY <1>1, <1>7 DEF RowsMove, RowMoves, KeptPlans
  <2>2. CASE subs'[q].code = subs[q].code BY <1>3, <1>4, <2>1, <2>2
  <2>3. CASE q = actor[a].row /\ Kind(a) = "canceled" /\ subs'[q].code = actor[a].code
    BY <1>1, <1>3, <1>4, <2>1, <2>3 DEF ActorFits, Kind, At
  <2>4. CASE q = actor[a].new /\ At(a, "link")
             /\ \/ subs'[q].code = actor[a].code
                \/ Kind(a) = "upgrade" /\ subs'[q].code = actor[a].seen.code
    <3>1. Kind(a) \in {"upgrade", "upgradeInline"}
      BY <1>4, <2>4 DEF ControlOK, StepsOf, At, Kind
    <3>2. q # NoRow /\ Kind(a) \in SwitchKinds BY <3>1, SwitchAssumption DEF SwitchKinds
    <3>3. Fitting(actor[a].code, actor[a].plan) /\ subs[q].plan = actor[a].plan
      BY <1>4, <2>4, <3>2 DEF ActorFits, Kind
    <3>4. Kind(a) = "upgrade" => Fitting(actor[a].seen.code, actor[a].plan)
      BY <1>4, <2>4 DEF ActorFits, Kind, At
    <3> QED BY <1>3, <2>1, <2>4, <3>3, <3>4
  <2> QED BY <2>1, <2>2, <2>3, <2>4 DEF CodeMoves
<1> QED BY <1>1, <1>5, <1>6, <1>7 DEF RowsMove

LEMMA ActorStaysFit ==
  ASSUME IInv, Control, CodesFit, NEW a \in Actors, Work(a) \/ Die(a)
  PROVE  ActorFits(actor[a])'
<1>1. ~At(a, "idle") /\ (actor'[a] = Idle \/ Moves(a)) BY WorkAlone
<1>2. CASE actor'[a] = Idle
  <2>1. actor'[a].kind = "idle" BY <1>2 DEF Idle
  <2> QED BY <2>1 DEF ActorFits, SwitchKinds
<1>3. CASE Moves(a) /\ actor'[a] # Idle
  <2> DEFINE v == actor[a]
             w == actor'[a]
  <2>1. /\ KeptPlans /\ ProviderKept /\ ActorFits(v) /\ NamesRows(v) /\ ControlOK(v)
        /\ v \in Actor /\ v.row \in Rows /\ subs[v.row].status # "none" /\ Work(a)
    BY <1>1, <1>3, WorkRows, WorkCodes, Working, TablesTyped, EndAlone
       DEF RowsMove, CodesMove, CodesFit, IInv, ActorsOK, Control, Die
  <2>2. w.row = v.row /\ w.plan = v.plan /\ w.kind = NextKind(v) /\ w.pc \in NextSteps(a)
    BY <1>3 DEF Moves
  <2>3. w.code = v.code \/ (Kind(a) \in SwitchKinds /\ Fitting(actor[a].code, actor[a].plan)')
    BY <1>3, <2>1, <2>2, WorkCodes DEF Fitting
  <2>4. ASSUME w.kind = "canceled" PROVE Fitting(actor[a].code, subs[actor[a].row].plan)'
    <3>1. v.kind = "canceled" BY <2>2, <2>4 DEF NextKind
    <3>2. w.code = v.code BY <2>3, <3>1 DEF SwitchKinds, Kind
    <3>3. Fitting(v.code, subs[v.row].plan) /\ subs'[w.row].plan = subs[v.row].plan
      BY <1>1, <2>1, <2>2, <3>1 DEF ActorFits, KeptPlans, At
    <3> QED BY <2>1, <3>2, <3>3, FittingKept DEF Fitting
  <2>5. ASSUME w.kind \in SwitchKinds
        PROVE  Fitting(actor[a].code, actor[a].plan)' /\ (w.new # NoRow => subs'[w.new].plan = w.plan)
    <3>1. v.kind \in SwitchKinds BY <2>2, <2>5 DEF NextKind, SwitchKinds
    <3>2. Fitting(v.code, v.plan) /\ (v.new # NoRow => subs[v.new].plan = v.plan)
      BY <2>1, <3>1 DEF ActorFits
    <3>3. Fitting(actor[a].code, actor[a].plan)' BY <2>1, <2>2, <2>3, <3>2, FittingKept DEF Fitting
    <3>4. CASE w.new = v.new
      <4>1. v.new # NoRow => v.new \in Rows /\ subs[v.new].status # "none"
        BY <2>1 DEF NamesRows, Actor
      <4> QED BY <2>1, <2>2, <3>2, <3>3, <3>4, <4>1 DEF KeptPlans
    <3>5. CASE w.new # v.new
      <4>1. v.pc \in {"find", "insert"} BY <1>3, <3>5 DEF Moves
      <4>2. subs'[w.new].plan = v.plan BY <1>3, <2>1, <3>5, <4>1, FoundFits
      <4> QED BY <2>2, <3>3, <4>2
    <3> QED BY <3>4, <3>5
  <2>6. ASSUME w.kind = "upgrade", w.pc \in {"bill", "link"}
        PROVE  Fitting(actor[a].seen.code, actor[a].plan)'
    <3>1. v.kind = "upgrade" BY <2>2, <2>6 DEF NextKind
    <3>2. v.pc \in {"cancelAtProvider", "cancelRow", "find", "insert", "load", "bill", "link",
                    "provision"}
      BY <1>1, <2>1, <3>1 DEF ControlOK, StepsOf, At
    <3>3. v.pc \in {"load", "bill"} BY <2>2, <2>6, <3>1, <3>2 DEF NextSteps, After, At, Kind
    <3>4. CASE v.pc = "bill"
      <4>1. w.seen = v.seen BY <1>3, <3>4 DEF Moves
      <4> QED BY <2>1, <2>2, <3>1, <3>4, <4>1, FittingKept DEF ActorFits, Fitting
    <3>5. CASE v.pc = "load"
      <4>1. Load(a) BY <2>1, <3>5, StepIs DEF At
      <4>2. w.seen = subs[v.new] BY <2>1, <4>1, TablesTyped DEF Load, Tables, Actor
      <4>3. v.new # NoRow BY <2>1, <3>5 DEF NamesRows, Written
      <4>4. v.new \in Rows BY <2>1, <4>3 DEF Actor
      <4>5. subs[v.new].plan = v.plan BY <2>1, <3>1, <4>3 DEF ActorFits, SwitchKinds
      <4>6. Fitting(subs[v.new].code, v.plan) BY <4>4, <4>5 DEF CodesFit
      <4> QED BY <2>1, <2>2, <4>2, <4>6, FittingKept DEF Fitting
    <3> QED BY <3>3, <3>4, <3>5
  <2> QED BY <2>4, <2>5, <2>6 DEF ActorFits
<1> QED BY <1>1, <1>2, <1>3

LEMMA NextCodes == IInv /\ Control /\ CodesFit /\ [Next]_vars => CodesFit'
<1> SUFFICES ASSUME IInv, Control, CodesFit, [Next]_vars PROVE CodesFit'
  OBVIOUS
<1>1. ASSUME CodesMove, KeptPlans,
             \A r \in Rows : Fitting(subs[r].code, subs[r].plan)',
             \A b \in Actors : actor'[b] = actor[b] \/ ActorFits(actor[b])'
      PROVE  CodesFit'
  <2>1. ProviderKept BY <1>1 DEF CodesMove
  <2>2. ASSUME NEW k \in checkouts' PROVE Fitting(k.code, k.plan)'
    BY <1>1, <2>1, FittingKept DEF CodesMove, CodesFit, Fitting
  <2>3. ASSUME NEW k \in Codes, echoes'[k] > 0 PROVE provider'[k].status # "none"
    BY <1>1, <2>1, <2>3 DEF CodesMove, CodesFit, ProviderKept
  <2>4. ASSUME NEW b \in Actors PROVE ActorFits(actor[b])'
    <3>1. CASE ActorFits(actor[b])' BY <3>1
    <3>2. CASE actor'[b] = actor[b]
      <4> PICK v \in Actor : v = actor[b] BY DEF IInv, ActorsOK
      <4>1. ActorFits(v) /\ NamesRows(v) BY DEF CodesFit, IInv, ActorsOK
      <4>2. ActorFits(v)' BY <1>1, <2>1, <4>1, FitsKept
      <4> QED BY <3>2, <4>2 DEF ActorFits, Fitting
    <3> QED BY <1>1, <3>1, <3>2
  <2> QED BY <1>1, <2>2, <2>3, <2>4 DEF CodesFit
<1>2. CASE StartFits
  <2>1. KeptPlans /\ CodesMove /\ ProviderKept /\ UNCHANGED subs
    BY <1>2 DEF StartFits, KeptPlans, CodesMove
  <2>2. ASSUME NEW r \in Rows PROVE Fitting(subs[r].code, subs[r].plan)'
    BY <2>1, FittingKept DEF CodesFit, Fitting
  <2> QED BY <1>1, <1>2, <2>1, <2>2 DEF StartFits
<1>3. ASSUME NEW a \in Actors, Work(a) \/ Die(a) PROVE CodesFit'
  <2>1. KeptPlans /\ CodesMove /\ Alone(a)
    BY <1>3, WorkRows, WorkCodes, WorkAlone DEF RowsMove
  <2>2. \A b \in Actors : actor'[b] = actor[b] \/ ActorFits(actor[b])'
    BY <1>3, <2>1, ActorStaysFit DEF Alone
  <2> QED BY <1>1, <1>3, <2>1, <2>2, RowsFit
<1>4. CASE UNCHANGED vars
  BY <1>4 DEF vars, CodesFit, ActorFits, Fitting
<1> QED BY <1>2, <1>3, <1>4, StartCodes

-----------------------------------------------------------------------------
(* A customer has or had a subscription of a plan.                         *)
Held(c, plan) ==
  \E r \in Rows : subs[r].status # "none" /\ subs[r].owner = c /\ subs[r].plan = plan

(* So it is with what customers are entitled to, and with the free plan    *)
(* once a cancellation comes to provision it.                              *)
HeldInv ==
  /\ \A c \in Customers : Held(c, entitled[c])
  /\ \A a \in Actors : Kind(a) \in CancelKinds /\ At(a, "provision") => Held(Customer(a), Free)

LEMMA HeldKept ==
  ASSUME KeptPlans, NEW c, NEW plan, Held(c, plan)
  PROVE  Held(c, plan)'
BY DEF KeptPlans, Held

\* A cancellation provisions after it found or made an active free subscription.
LEMMA FallsBack ==
  ASSUME IInv, Control, NEW a \in Actors, Work(a) \/ Die(a), Moves(a),
         Kind(a) \in CancelKinds, actor'[a].pc = "provision"
  PROVE  \E r \in Rows : /\ subs'[r].status = "active" /\ subs'[r].owner = Customer(a)
                         /\ subs'[r].plan = Free
<1>1. /\ Tables /\ ControlOK(actor[a]) /\ Work(a) /\ subs \in [Rows -> Row] /\ ~At(a, "idle")
  <2>1. Tables /\ ControlOK(actor[a]) /\ ~At(a, "idle")
    BY TablesTyped, WorkAlone DEF Control
  <2>2. ~End(a) BY <2>1, EndAlone DEF Idle
  <2> QED BY <2>1, <2>2 DEF Die, Tables
<1>2. actor[a].pc \in {"look", "insertFree"}
  <2>1. actor[a].pc \in {"cancelAtProvider", "cancelRow", "claim", "look", "insertFree",
                         "provision", "mark", "schedule", "sleep", "verify"}
    BY <1>1 DEF ControlOK, StepsOf, CancelKinds, Kind, At
  <2>2. "provision" \in NextSteps(a) BY DEF Moves
  <2> QED BY <2>1, <2>2 DEF NextSteps, After, CancelKinds, At, Kind
<1>3. CASE actor[a].pc = "look"
  <2>1. Look(a) /\ UNCHANGED subs BY <1>1, <1>3, StepIs DEF At, Look
  <2>2. actor'[a].pc = IF ActiveOf(Customer(a), Free) # {} THEN "provision" ELSE "insertFree"
    BY <1>1, <2>1, GotoAlone DEF Look
  <2>3. ActiveOf(Customer(a), Free) # {} BY <2>2
  <2> QED BY <2>1, <2>3 DEF ActiveOf, Active
<1>4. CASE actor[a].pc = "insertFree"
  <2> DEFINE u == [Unused EXCEPT !.owner = Customer(a), !.status = "active", !.plan = Free,
                                 !.origin = actor[a].row]
  <2>1. PICK r \in Rows : subs' = [subs EXCEPT ![r] = u]
    BY <1>1, <1>4, StepIs DEF InsertFree, At
  <2>2. u.status = "active" /\ u.owner = Customer(a) /\ u.plan = Free BY DEF Unused
  <2> HIDE DEF u
  <2>3. subs'[r] = u BY <1>1, <2>1
  <2> QED BY <2>2, <2>3
<1> QED BY <1>2, <1>3, <1>4

\* What a switch comes to provision is there.
LEMMA SwitchHolds ==
  ASSUME IInv, Control, CodesFit, NEW a \in Actors, Kind(a) \in SwitchKinds, Ready(actor[a])
  PROVE  /\ actor[a].new \in Rows /\ subs[actor[a].new].status # "none"
         /\ subs[actor[a].new].owner = Customer(a) /\ subs[actor[a].new].plan = actor[a].plan
<1>1. ControlOK(actor[a]) /\ ActorFits(actor[a]) /\ NamesRows(actor[a]) /\ actor[a] \in Actor
  BY DEF Control, CodesFit, IInv, ActorsOK
<1>2. actor[a].new # NoRow BY <1>1 DEF ControlOK, Kind
<1>3. actor[a].new \in Rows BY <1>1, <1>2 DEF Actor
<1> QED BY <1>1, <1>2, <1>3 DEF NamesRows, ActorFits, Customer, Kind

LEMMA InitHeld == Init => HeldInv
<1> SUFFICES ASSUME Init PROVE HeldInv
  OBVIOUS
<1>1. \A c \in Customers : Held(c, entitled[c]) BY InitTyped DEF Fresh, Held, Active
<1>2. \A a \in Actors : ~At(a, "provision") BY InitTyped DEF Fresh, At
<1> QED BY <1>1, <1>2 DEF HeldInv

LEMMA NextHeld == IInv /\ Control /\ CodesFit /\ HeldInv /\ [Next]_vars => HeldInv'
<1> SUFFICES ASSUME IInv, Control, CodesFit, HeldInv, [Next]_vars PROVE HeldInv'
  OBVIOUS
<1>1. ASSUME NEW b \in Actors, KeptPlans, actor'[b] = actor[b],
             Kind(b)' \in CancelKinds, At(b, "provision")'
      PROVE  Held(Customer(b), Free)'
  <2>1. ~At(b, "idle") /\ Kind(b) \in CancelKinds /\ At(b, "provision") BY <1>1 DEF At, Kind
  <2>2. actor[b].row \in Rows /\ subs[actor[b].row].status # "none" BY <2>1, Working
  <2>3. Customer(b)' = Customer(b) BY <1>1, <2>2 DEF Customer, KeptPlans
  <2>4. Held(Customer(b), Free) BY <2>1 DEF HeldInv
  <2> QED BY <1>1, <2>3, <2>4 DEF Held, KeptPlans
<1>2. ASSUME KeptPlans, UNCHANGED entitled PROVE \A c \in Customers : Held(c, entitled[c])'
  BY <1>2 DEF HeldInv, Held, KeptPlans
<1>3. UNCHANGED subs => KeptPlans BY DEF KeptPlans
<1>4. ASSUME StartStep PROVE HeldInv'
  <2>1. KeptPlans /\ UNCHANGED entitled BY <1>3, <1>4 DEF StartStep
  <2>2. ASSUME NEW b \in Actors, Kind(b)' \in CancelKinds, At(b, "provision")'
        PROVE  Held(Customer(b), Free)'
    <3>1. CASE actor'[b] = actor[b] BY <1>1, <2>1, <2>2, <3>1
    <3>2. CASE actor'[b] # actor[b]
      <4>1. Opens(b) BY <1>4, <3>2 DEF StartStep, Opens, Alone
      <4> QED BY <2>2, <4>1 DEF Opens, At
    <3> QED BY <3>1, <3>2
  <2>3. \A c \in Customers : Held(c, entitled[c])' BY <1>2, <2>1
  <2> QED BY <2>2, <2>3 DEF HeldInv
<1>5. ASSUME NEW a \in Actors, Work(a) \/ Die(a) PROVE HeldInv'
  <2>1. ~At(a, "idle") /\ Alone(a) /\ (actor'[a] = Idle \/ Moves(a)) BY <1>5, WorkAlone
  <2>2. KeptPlans BY <1>5, WorkRows DEF RowsMove
  <2>3. ASSUME NEW b \in Actors, Kind(b)' \in CancelKinds, At(b, "provision")'
        PROVE  Held(Customer(b), Free)'
    <3>1. CASE b # a
      <4>1. actor'[b] = actor[b] BY <2>1, <3>1 DEF Alone
      <4> QED BY <1>1, <2>2, <2>3, <4>1
    <3>2. CASE b = a
      <4>1. Moves(a) /\ actor'[a].pc = "provision" BY <2>1, <2>3, <3>2 DEF At, Idle
      <4>2. Kind(a) \in CancelKinds
        BY <2>3, <3>2, <4>1 DEF Moves, NextKind, Kind, CancelKinds
      <4>3. actor[a].row \in Rows /\ subs[actor[a].row].status # "none" BY <2>1, Working
      <4>4. Customer(a)' = Customer(a) BY <2>2, <4>1, <4>3 DEF Customer, KeptPlans, Moves
      <4>5. PICK r \in Rows : /\ subs'[r].status = "active" /\ subs'[r].owner = Customer(a)
                              /\ subs'[r].plan = Free
        BY <1>5, <4>1, <4>2, FallsBack
      <4> QED BY <3>2, <4>4, <4>5 DEF Held
    <3> QED BY <3>1, <3>2
  <2>4. \A c \in Customers : Held(c, entitled[c])'
    <3>1. CASE Provision(a)
      <4> DEFINE plan == IF actor[a].plan = NoPlan THEN Free ELSE actor[a].plan
      <4>1. entitled' = [entitled EXCEPT ![Customer(a)] = plan] BY <3>1 DEF Provision
      <4>2. Held(Customer(a), plan)
        <5>1. ControlOK(actor[a]) /\ At(a, "provision") BY <3>1 DEF Control, Provision
        <5>2. CASE Kind(a) \in CancelKinds
          BY <5>1, <5>2 DEF HeldInv, ControlOK, Kind
        <5>3. CASE Kind(a) \in SwitchKinds
          <6>1. plan = actor[a].plan BY <5>1, <5>3, SwitchAssumption DEF ControlOK, Kind
          <6>2. Ready(actor[a]) BY <5>1 DEF Ready, At
          <6> QED BY <5>3, <6>1, <6>2, SwitchHolds DEF Held
        <5>4. Kind(a) \in CancelKinds \cup SwitchKinds
          BY <5>1 DEF ControlOK, StepsOf, At, Kind, CancelKinds, SwitchKinds
        <5> QED BY <5>2, <5>3, <5>4
      <4>3. Customer(a) \in Customers BY <2>1, Working
      <4> HIDE DEF plan
      <4>4. ASSUME NEW c \in Customers PROVE Held(c, entitled'[c])
        <5>1. entitled'[c] = IF c = Customer(a) THEN plan ELSE entitled[c]
          BY <4>1, <4>3 DEF IInv, CustomersOK
        <5> QED BY <4>2, <5>1 DEF HeldInv
      <4> QED BY <2>2, <4>4 DEF Held, KeptPlans
    <3>2. CASE ~Provision(a)
      <4>1. UNCHANGED entitled
        BY <1>5, <3>2
           DEF Work, Die, CancelAtProvider, CancelRow, ScheduleCancel, ScheduleDowngrade, Wake,
               VerifyCancel, VerifyDowngrade, Claim, Look, InsertFree, Mark, Find, Insert,
               InsertRefused, Renew, Reopen, ReviveRefused, Load, Bill, Link, LinkInline
      <4> QED BY <1>2, <2>2, <4>1
    <3> QED BY <3>1, <3>2
  <2> QED BY <2>3, <2>4 DEF HeldInv
<1>6. CASE UNCHANGED vars
  <2>1. KeptPlans /\ UNCHANGED <<entitled, actor>> BY <1>3, <1>6 DEF vars
  <2>2. \A c \in Customers : Held(c, entitled[c])' BY <1>2, <2>1
  <2> QED BY <1>1, <2>1, <2>2 DEF HeldInv
<1> QED BY <1>4, <1>5, <1>6, StartOrWork

(* A workflow may die, a payment repeat and a switch overtake another at   *)
(* any point: nobody is given the entitlements of a plan that no           *)
(* subscription of theirs has had, because provisioning comes after the    *)
(* row is found or inserted on every path, and the row that a payment      *)
(* takes for its own by its code is one of the plan it paid for.           *)
THEOREM EntitledToOwnPlans == Spec => []EntitledWasHeld
<1> DEFINE Inv == IInv /\ Control /\ CodesFit /\ HeldInv
<1>1. Init => Inv BY InitTyped, InitControl, InitCodes, InitHeld
<1>2. Inv /\ [Next]_vars => Inv' BY NextTyped, NextControl, NextCodes, NextHeld
<1>3. Inv => EntitledWasHeld BY DEF HeldInv, Held, EntitledWasHeld
<1> QED BY <1>1, <1>2, <1>3, PTL DEF Spec

-----------------------------------------------------------------------------
(* Why switching keeps a subscription.  Of the customers that asked for no *)
(* cancellation and met no exception:                                      *)
Exempt == gaveUp \cup canceling \cup crossed
Busy(a) == ~At(a, "idle")

(* who cancels has asked for it;                                           *)
AskedFirst ==
  \A a \in Actors : Busy(a) /\ Kind(a) \in {"cancelNow", "cancelLater", "cancelDowngrade"}
    => Customer(a) \in canceling

(* an active row is not claimed, nor was it when it was read by an actor   *)
(* that may write the claim back;                                          *)
Restores(v) ==
  \/ v.kind = "downgradeAsked"
  \/ v.pc = "renew"
  \/ v.kind = "upgradeInline" /\ v.pc \in {"bill", "link"}
Unclaimed ==
  /\ \A r \in Rows : Active(r) /\ subs[r].owner \notin Exempt => ~subs[r].claimed
  /\ \A a \in Actors : Busy(a) /\ Restores(actor[a]) /\ Customer(a) \notin Exempt
       => ~actor[a].seen.claimed

(* the row of a cancellation stays canceled;                               *)
StaysCanceled ==
  \A a \in Actors :
    Busy(a) /\ Kind(a) = "canceled" /\ ~At(a, "cancelRow") /\ Customer(a) \notin Exempt
    => subs[actor[a].row].status = "canceled"

(* what a new subscription replaces is of another plan;                    *)
Fits(a) == actor[a].plan # subs[actor[a].row].plan
NewRows ==
  /\ \A k \in checkouts : k.kind = "newPaid" => subs[k.row].plan # k.plan
  /\ \A a \in Actors : Busy(a) /\ Kind(a) \in {"newNow", "newPaid"} => Fits(a)

(* and one that has none is about to get one, from an actor that did not   *)
(* find another delivery of its event ahead of it.                         *)
Overtaken(a) ==
  \E b \in Actors : /\ Kind(b) = "canceled" /\ actor[b].row = actor[a].row
                    /\ actor[b].pc \in {"provision", "mark"}
Owing(a) ==
  \/ Kind(a) \in {"upgrade", "upgradeInline"} /\ actor[a].pc \in {"find", "insert"}
  \/ Kind(a) = "upgradeNow" /\ actor[a].pc \in {"bill", "insert"}
  \/ Kind(a) = "downgrade" /\ actor[a].pc \in {"cancelAtProvider", "bill", "find", "insert"}
  \/ Kind(a) = "canceled" /\ \/ actor[a].pc \in {"look", "insertFree"}
                             \/ /\ At(a, "claim") /\ ~subs[actor[a].row].claimed
                                /\ ~Overtaken(a)
Owed(c) == \E a \in Actors : Busy(a) /\ Customer(a) = c /\ Owing(a)
Provided == faults = 0 => \A c \in Customers \ Exempt : HasPlan(c) \/ Owed(c)

KeepInv == AskedFirst /\ Unclaimed /\ StaysCanceled /\ NewRows /\ Provided

LEMMA InitKeep == Init => KeepInv
<1> SUFFICES ASSUME Init PROVE KeepInv
  OBVIOUS
<1>1. IInv /\ Fresh BY InitTyped
<1>2. AskedFirst /\ Unclaimed /\ StaysCanceled /\ NewRows
  BY <1>1 DEF Fresh, AskedFirst, Unclaimed, StaysCanceled, NewRows, Busy, At
<1>3. Provided BY <1>1 DEF Fresh, Provided, HasPlan
<1> QED BY <1>2, <1>3 DEF KeepInv

LEMMA StartKeeps ==
  ASSUME IInv, Control, KeepInv, StartStep
  PROVE  KeepInv'
<1>1. /\ UNCHANGED <<subs, entitled, lost, crossed, gaveUp, faults>>
      /\ canceling \subseteq canceling' /\ Exempt \subseteq Exempt'
  BY DEF StartStep, Exempt
<1>2. ASSUME NEW b \in Actors
      PROVE  \/ /\ actor'[b] = actor[b] /\ Customer(b)' = Customer(b)
             \/ Opens(b)
  BY <1>1 DEF StartStep, Opens, Alone, Customer
<1>3. AskedFirst'
  <2> SUFFICES ASSUME NEW b \in Actors, Busy(b)',
                      Kind(b)' \in {"cancelNow", "cancelLater", "cancelDowngrade"}
               PROVE  Customer(b)' \in canceling'
    BY DEF AskedFirst
  <2>1. CASE Opens(b) BY <1>1, <2>1 DEF Opens, Customer, Kind
  <2>2. CASE actor'[b] = actor[b] /\ Customer(b)' = Customer(b)
    BY <1>1, <2>2 DEF KeepInv, AskedFirst, Busy, At, Kind
  <2> QED BY <1>2, <2>1, <2>2
<1>4. Unclaimed'
  <2>1. \A r \in Rows : (Active(r) /\ subs[r].owner \notin Exempt => ~subs[r].claimed)'
    BY <1>1 DEF KeepInv, Unclaimed, Active
  <2>2. ASSUME NEW b \in Actors, Busy(b)', Restores(actor[b])', Customer(b)' \notin Exempt'
        PROVE  ~actor'[b].seen.claimed
    <3>1. CASE Opens(b)
      <4>1. /\ actor'[b].row \in Rows /\ actor'[b].seen = subs[actor'[b].row]
            /\ Active(actor'[b].row)
        BY <2>2, <3>1 DEF Opens, Restores
      <4>2. subs[actor'[b].row].owner \notin Exempt BY <1>1, <2>2 DEF Customer
      <4> QED BY <4>1, <4>2 DEF KeepInv, Unclaimed
    <3>2. CASE actor'[b] = actor[b] /\ Customer(b)' = Customer(b)
      BY <1>1, <2>2, <3>2 DEF KeepInv, Unclaimed, Busy, At, Restores
    <3> QED BY <1>2, <3>1, <3>2
  <2> QED BY <2>1, <2>2 DEF Unclaimed
<1>5. StaysCanceled'
  <2> SUFFICES ASSUME NEW b \in Actors, Busy(b)', Kind(b)' = "canceled", ~At(b, "cancelRow")',
                      Customer(b)' \notin Exempt'
               PROVE  subs'[actor'[b].row].status = "canceled"
    BY DEF StaysCanceled
  <2>1. CASE Opens(b) BY <2>1 DEF Opens, Kind, At
  <2>2. CASE actor'[b] = actor[b] /\ Customer(b)' = Customer(b)
    BY <1>1, <2>2 DEF KeepInv, StaysCanceled, Busy, At, Kind
  <2> QED BY <1>2, <2>1, <2>2
<1>6. NewRows'
  <2>1. ASSUME NEW k \in checkouts', k.kind = "newPaid" PROVE subs'[k.row].plan # k.plan
    BY <1>1, <2>1 DEF StartStep, CheckoutsKept, KeepInv, NewRows
  <2>2. ASSUME NEW b \in Actors, Busy(b)', Kind(b)' \in {"newNow", "newPaid"}
        PROVE  Fits(b)'
    <3>1. CASE Opens(b)
      BY <1>1, <2>2, <3>1 DEF Opens, Kind, Fits, KeepInv, NewRows
    <3>2. CASE actor'[b] = actor[b] /\ Customer(b)' = Customer(b)
      BY <1>1, <2>2, <3>2 DEF KeepInv, NewRows, Busy, At, Kind, Fits
    <3> QED BY <1>2, <3>1, <3>2
  <2> QED BY <2>1, <2>2 DEF NewRows
<1>7. Provided'
  <2> SUFFICES ASSUME faults' = 0, NEW c \in Customers, c \notin Exempt'
               PROVE  HasPlan(c)' \/ Owed(c)'
    BY DEF Provided
  <2>1. HasPlan(c) \/ Owed(c) BY <1>1 DEF KeepInv, Provided
  <2>2. CASE HasPlan(c) BY <1>1, <2>2 DEF HasPlan, Active
  <2>3. CASE Owed(c)
    <3>1. PICK b \in Actors : Busy(b) /\ Customer(b) = c /\ Owing(b) BY <2>3 DEF Owed
    <3>2. actor'[b] = actor[b] /\ Customer(b)' = Customer(b)
      BY <1>2, <3>1 DEF Opens, Busy
    <3>3. Overtaken(b)' => Overtaken(b)
      <4> SUFFICES ASSUME NEW d \in Actors, Kind(d)' = "canceled", actor'[d].row = actor'[b].row,
                          actor'[d].pc \in {"provision", "mark"}
                   PROVE  Overtaken(b)
        BY DEF Overtaken
      <4>1. actor'[d] = actor[d] BY <1>2 DEF Opens, Kind
      <4> QED BY <3>2, <4>1 DEF Overtaken, Kind
    <3> QED BY <1>1, <3>1, <3>2, <3>3 DEF Owed, Busy, Owing, At, Kind
  <2> QED BY <2>1, <2>2, <2>3
<1> QED BY <1>3, <1>4, <1>5, <1>6, <1>7 DEF KeepInv

\* What a step of a working actor leaves as it is.
Around(a) ==
  /\ Busy(a) /\ Alone(a) /\ (actor'[a] = Idle \/ Moves(a)) /\ RowsMove(a)
  /\ actor[a].row \in Rows /\ subs[actor[a].row].status # "none"
  /\ actor'[a].pc # "idle" => Moves(a) /\ Customer(a)' = Customer(a) /\ Work(a)
  /\ \A b \in Actors : b # a /\ Busy(b) => Customer(b)' = Customer(b)
  /\ canceling' = canceling /\ gaveUp \subseteq gaveUp' /\ crossed \subseteq crossed'
  /\ Exempt \subseteq Exempt'
  /\ faults' = 0 => faults = 0 /\ Work(a)

LEMMA WorkAround ==
  ASSUME IInv, Control, NEW a \in Actors, Work(a) \/ Die(a)
  PROVE  Around(a)
<1>1. Busy(a) /\ Alone(a) /\ (actor'[a] = Idle \/ Moves(a)) /\ RowsMove(a)
  BY WorkAlone, WorkRows DEF Busy
<1>2. \A b \in Actors : Busy(b) => actor[b].row \in Rows /\ subs[actor[b].row].status # "none"
  BY Working DEF Busy
<1>3. actor'[a].pc # "idle" => Moves(a) /\ Work(a)
  <2>1. Die(a) => actor'[a] = Idle BY TablesTyped, EndAlone DEF Die
  <2> QED BY <1>1, <2>1 DEF Idle
<1>4. \A b \in Actors : Busy(b) /\ actor'[b].row = actor[b].row => Customer(b)' = Customer(b)
  BY <1>1, <1>2 DEF RowsMove, KeptPlans, Customer
<1>5. canceling' = canceling /\ gaveUp \subseteq gaveUp' /\ crossed \subseteq crossed'
  BY DEF Work, Die, CancelAtProvider, CancelRow, ScheduleCancel, ScheduleDowngrade, Wake,
         VerifyCancel, VerifyDowngrade, Claim, Look, InsertFree, Provision, Mark, Find,
         Insert, InsertRefused, Renew, Reopen, ReviveRefused, Load, Bill, Link, LinkInline,
         SameWorld
<1>6. faults' = 0 => faults = 0 /\ Work(a)
  <2>1. faults \in Nat BY BoundsNat DEF IInv, BoundsOK
  <2>2. Die(a) => faults' = faults + 1 BY DEF Die
  <2>3. Work(a) => faults' = faults \/ faults' = faults + 1
    BY DEF Work, CancelAtProvider, CancelRow, ScheduleCancel, ScheduleDowngrade, Wake,
           VerifyCancel, VerifyDowngrade, Claim, Look, InsertFree, Provision, Mark, Find,
           Insert, InsertRefused, Renew, Reopen, ReviveRefused, Load, Bill, Link, LinkInline,
           SameWorld
  <2> QED BY <2>1, <2>2, <2>3
<1>7. actor'[a].pc # "idle" => Customer(a)' = Customer(a) BY <1>1, <1>3, <1>4 DEF Moves
<1>8. \A b \in Actors : b # a /\ Busy(b) => Customer(b)' = Customer(b)
  BY <1>1, <1>4 DEF Alone
<1> QED BY <1>1, <1>2, <1>3, <1>5, <1>6, <1>7, <1>8 DEF Around, Exempt

\* The customer of what an actor has found or made is its own.
LEMMA NewOwner ==
  ASSUME IInv, NEW a \in Actors, NEW q \in Rows, q = actor[a].new
  PROVE  subs[q].owner = Customer(a)
BY SwitchAssumption DEF IInv, ActorsOK, NamesRows, Customer

(* Only a downgrade and a payment bring a canceled row of a customer that  *)
(* asked for no cancellation back, and say so.                             *)
LEMMA Reactivated ==
  ASSUME IInv, Control, AskedFirst, NEW a \in Actors, Work(a) \/ Die(a), Around(a),
         NEW q \in Rows, subs[q].status = "canceled", subs[q].owner \notin Exempt'
  PROVE  subs'[q].status = "canceled"
<1>1. StatusMoves(a, q, subs'[q]) /\ ControlOK(actor[a])
  BY DEF Around, RowsMove, RowMoves, Control
<1>2. UNCHANGED subs => subs'[q].status = "canceled" OBVIOUS
<1>3. CASE Die(a) BY <1>2, <1>3 DEF Die
<1>4. CASE Work(a) /\ q = actor[a].row /\ At(a, "schedule")
  <2>1. Customer(a) \notin Exempt' BY <1>4 DEF Customer
  <2>2. Kind(a) \in {"cancelLater", "downgradeAsked"}
    BY <1>1, <1>4 DEF ControlOK, StepsOf, At, Kind
  <2>3. Kind(a) = "downgradeAsked" BY <2>1, <2>2 DEF AskedFirst, Around, Exempt
  <2>4. CASE ScheduleDowngrade(a)
    <3>1. Customer(a) \in crossed' BY <1>4, <2>4 DEF ScheduleDowngrade
    <3> QED BY <2>1, <3>1 DEF Exempt
  <2>5. CASE ReviveRefused(a) BY <1>2, <2>5 DEF ReviveRefused
  <2> QED BY <1>4, <2>3, <2>4, <2>5, StepIs DEF ScheduleCancel
<1>5. CASE Work(a) /\ q = actor[a].new /\ actor[a].pc \in {"renew", "reopen"}
  <2>1. Customer(a) \notin Exempt' BY <1>5, NewOwner
  <2>2. CASE Renew(a)
    <3>1. Customer(a) \in crossed' BY <1>5, <2>2 DEF Renew
    <3> QED BY <2>1, <3>1 DEF Exempt
  <2>3. CASE Reopen(a)
    <3>1. Customer(a) \in crossed' BY <1>5, <2>3 DEF Reopen
    <3> QED BY <2>1, <3>1 DEF Exempt
  <2>4. CASE ReviveRefused(a) BY <1>2, <2>4 DEF ReviveRefused
  <2> QED BY <1>5, <2>2, <2>3, <2>4, StepIs DEF At
<1> QED BY <1>1, <1>3, <1>4, <1>5 DEF StatusMoves

LEMMA KeepsAsked ==
  ASSUME IInv, Control, KeepInv, NEW a \in Actors, Work(a) \/ Die(a), Around(a)
  PROVE  AskedFirst'
<1> SUFFICES ASSUME NEW b \in Actors, Busy(b)',
                    Kind(b)' \in {"cancelNow", "cancelLater", "cancelDowngrade"}
             PROVE  Customer(b)' \in canceling'
  BY DEF AskedFirst
<1>1. CASE b # a
  BY <1>1 DEF Around, Alone, KeepInv, AskedFirst, Busy, At, Kind
<1>2. CASE b = a
  <2>1. Moves(a) /\ Customer(a)' = Customer(a) BY <1>2 DEF Around, Busy, At
  <2>2. Kind(a) \in {"cancelNow", "cancelLater", "cancelDowngrade"}
    BY <1>2, <2>1 DEF Moves, NextKind, Kind
  <2> QED BY <1>2, <2>1, <2>2 DEF Around, KeepInv, AskedFirst
<1> QED BY <1>1, <1>2

\* What an actor has just found or made is not claimed.
LEMMA SeenUnclaimed ==
  ASSUME IInv, Control, KeepInv, NEW a \in Actors, Work(a) \/ Die(a), Around(a),
         Customer(a) \notin Exempt, actor[a].pc \in {"find", "insert"},
         actor'[a].pc \notin {"idle", "find", "insert", "reopen"}
  PROVE  ~actor'[a].seen.claimed
<1>1. Tables /\ Work(a) BY TablesTyped DEF Around
<1>2. ~End(a) /\ ~Goto(a, "find") /\ ~Goto(a, "insert")
  BY <1>1, EndAlone, GotoAlone DEF Idle
<1>3. CASE Find(a)
  <2>1. PICK r \in ActiveOf(Customer(a), actor[a].plan) :
          actor' = [actor EXCEPT ![a].new = r, ![a].seen = subs[r], ![a].pc = After(a)]
    BY <1>2, <1>3 DEF Find
  <2>2. actor'[a].seen = subs[r] BY <1>1, <2>1 DEF Tables, Actor
  <2> QED BY <2>2 DEF KeepInv, Unclaimed, ActiveOf
<1>4. CASE Insert(a)
  <2> DEFINE u == [Unused EXCEPT !.owner = Customer(a), !.status = "active",
                         !.plan = actor[a].plan, !.code = NewCode(a),
                         !.cancelAt = (Kind(a) = "upgradeNow" /\ actor[a].code = NoCode)]
  <2>1. PICK r \in Rows : /\ subs' = [subs EXCEPT ![r] = u]
                          /\ actor' = [actor EXCEPT ![a].new = r, ![a].seen = subs'[r],
                                                    ![a].pc = After(a)]
    BY <1>4 DEF Insert
  <2>2. ~u.claimed BY DEF Unused
  <2> HIDE DEF u
  <2>3. subs'[r] = u /\ actor'[a].seen = subs'[r] BY <1>1, <2>1 DEF Tables, Actor
  <2> QED BY <2>2, <2>3
<1>5. CASE InsertRefused(a)
  <2>1. PICK r \in Rows : actor' = [actor EXCEPT ![a].new = r, ![a].pc = "reopen"]
    BY <1>2, <1>5 DEF InsertRefused
  <2>2. actor'[a].pc = "reopen" BY <1>1, <2>1 DEF Tables, Actor
  <2> QED BY <2>2
<1> QED BY <1>1, <1>3, <1>4, <1>5, StepIs DEF At

LEMMA KeepsUnclaimed ==
  ASSUME IInv, Control, KeepInv, NEW a \in Actors, Work(a) \/ Die(a), Around(a)
  PROVE  Unclaimed'
<1>0. RowsMove(a) /\ KeptPlans /\ Busy(a) /\ Exempt \subseteq Exempt' /\ ControlOK(actor[a])
  BY DEF Around, Control, RowsMove
<1>1. ASSUME NEW r \in Rows, subs'[r].status = "active", subs'[r].owner \notin Exempt',
             subs'[r].claimed
      PROVE  FALSE
  <2>1. subs[r].status # "none"
    <3>1. CASE subs[r].status = "none"
      <4>1. subs'[r] = subs[r] \/ ~subs'[r].claimed BY <1>0, <3>1 DEF RowsMove, NewOne
      <4> QED BY <1>1, <3>1, <4>1
    <3> QED BY <3>1
  <2>2. subs'[r].owner = subs[r].owner /\ subs[r].owner \notin Exempt'
        /\ subs[r].owner \notin Exempt
    BY <1>0, <1>1, <2>1 DEF KeptPlans
  <2>3. subs[r].status \in {"active", "canceled"} BY <2>1 DEF IInv, RowsOK, Row
  <2>4. subs[r].status # "canceled" BY <1>1, <2>2, Reactivated DEF KeepInv
  <2>5. Active(r) /\ ~subs[r].claimed
    BY <2>2, <2>3, <2>4 DEF KeepInv, Unclaimed, Active
  <2>6. ClaimMoves(a, r, subs'[r]) BY <1>0, <2>1 DEF RowsMove, RowMoves
  <2>7. ASSUME r = actor[a].row \/ r = actor[a].new, Restores(actor[a])
        PROVE  ~actor[a].seen.claimed
    <3>1. subs[r].owner = Customer(a) BY <2>7, NewOwner DEF Customer
    <3> QED BY <1>0, <2>2, <2>7, <3>1 DEF KeepInv, Unclaimed
  <2>8. CASE r = actor[a].row /\ actor[a].pc \in {"claim", "mark"}
    <3>1. Customer(a) \notin Exempt /\ Customer(a) \notin canceling
      BY <2>2, <2>8 DEF Customer, Exempt
    <3>2. Kind(a) \notin {"cancelNow", "cancelLater", "cancelDowngrade"}
      BY <1>0, <3>1 DEF KeepInv, AskedFirst
    <3>3. Kind(a) = "canceled" BY <1>0, <2>8, <3>2 DEF ControlOK, StepsOf, Kind
    <3>4. subs[r].status = "canceled"
      BY <1>0, <2>8, <3>1, <3>3 DEF KeepInv, StaysCanceled, At
    <3> QED BY <2>4, <3>4
  <2>9. CASE r = actor[a].row /\ Kind(a) = "downgradeAsked"
             /\ subs'[r].claimed = actor[a].seen.claimed
    <3>1. Restores(actor[a]) BY <2>9 DEF Restores, Kind
    <3> QED BY <1>1, <2>7, <2>9, <3>1
  <2>10. CASE r = actor[a].new /\ At(a, "renew") /\ subs'[r].claimed = actor[a].seen.claimed
    <3>1. Restores(actor[a]) BY <2>10 DEF Restores, At
    <3> QED BY <1>1, <2>7, <2>10, <3>1
  <2>11. CASE r = actor[a].new /\ At(a, "link") /\ Kind(a) = "upgradeInline"
              /\ actor[a].seen.claimed
    <3>1. Restores(actor[a]) BY <2>11 DEF Restores, At, Kind
    <3> QED BY <2>7, <2>11, <3>1
  <2> QED BY <1>1, <2>5, <2>6, <2>8, <2>9, <2>10, <2>11 DEF ClaimMoves
<1>2. ASSUME NEW b \in Actors, Busy(b)', Restores(actor[b])', Customer(b)' \notin Exempt'
      PROVE  ~actor'[b].seen.claimed
  <2>1. CASE b = a
    <3> DEFINE v == actor[a]
               w == actor'[a]
    <3>1. Moves(a) /\ Customer(a)' = Customer(a) /\ Customer(a) \notin Exempt
      BY <1>0, <1>2, <2>1 DEF Around, Busy, At
    <3>2. w.kind # "downgradeAsked" BY <3>1 DEF Moves, NextKind
    <3>3. \/ w.pc = "renew"
          \/ w.kind = "upgradeInline" /\ w.pc \in {"bill", "link"}
      BY <1>2, <2>1, <3>2 DEF Restores
    <3>4. w.pc \in NextSteps(a) /\ w.kind = NextKind(v) /\ v.pc \in StepsOf(v.kind)
      BY <1>0, <3>1 DEF Moves, ControlOK, Busy, At
    <3>5. v.pc \in {"find", "insert"} \/ (v.kind = "upgradeInline" /\ v.pc = "bill")
      <4>1. CASE w.pc = "renew" BY <3>4, <4>1 DEF NextSteps, After, At, Kind
      <4>2. CASE w.kind = "upgradeInline" /\ w.pc \in {"bill", "link"}
        <5>1. v.kind = "upgradeInline" BY <3>4, <4>2 DEF NextKind
        <5>2. v.pc \in {"cancelAtProvider", "cancelRow", "find", "insert", "bill", "link",
                        "provision"}
          BY <3>4, <5>1 DEF StepsOf
        <5> QED BY <3>4, <4>2, <5>1, <5>2 DEF NextSteps, After, At, Kind
      <4> QED BY <3>3, <4>1, <4>2
    <3>6. CASE v.pc \in {"find", "insert"}
      <4>1. w.pc \notin {"idle", "find", "insert", "reopen"} BY <3>3
      <4> QED BY <2>1, <3>1, <3>6, <4>1, SeenUnclaimed
    <3>7. CASE v.kind = "upgradeInline" /\ v.pc = "bill"
      <4>1. w.seen = v.seen BY <3>1, <3>7 DEF Moves
      <4>2. ~v.seen.claimed BY <1>0, <3>1, <3>7 DEF KeepInv, Unclaimed, Restores
      <4> QED BY <2>1, <4>1, <4>2
    <3> QED BY <3>5, <3>6, <3>7
  <2>2. CASE b # a
    <3>1. actor'[b] = actor[b] /\ Busy(b) BY <1>2, <2>2 DEF Around, Alone, Busy, At
    <3>2. Customer(b)' = Customer(b) BY <2>2, <3>1 DEF Around
    <3> QED BY <1>0, <1>2, <3>1, <3>2 DEF KeepInv, Unclaimed, Restores
  <2> QED BY <2>1, <2>2
<1> QED BY <1>1, <1>2 DEF Unclaimed, Active

LEMMA KeepsCanceled ==
  ASSUME IInv, Control, KeepInv, NEW a \in Actors, Work(a) \/ Die(a), Around(a)
  PROVE  StaysCanceled'
<1>0. Exempt \subseteq Exempt' /\ AskedFirst BY DEF Around, KeepInv
<1> SUFFICES ASSUME NEW b \in Actors, Busy(b)', Kind(b)' = "canceled", ~At(b, "cancelRow")',
                    Customer(b)' \notin Exempt'
             PROVE  subs'[actor'[b].row].status = "canceled"
  BY DEF StaysCanceled
<1> DEFINE q == actor[b].row
<1>1. /\ Busy(b) /\ Kind(b) = "canceled" /\ actor'[b].row = q /\ Customer(b)' = Customer(b)
      /\ b # a => actor'[b] = actor[b]
  <2>1. CASE b = a
    <3>1. Moves(a) /\ Customer(a)' = Customer(a) BY <2>1 DEF Around, Busy, At
    <3> QED BY <2>1, <3>1 DEF Around, Moves, NextKind, Kind
  <2>2. CASE b # a
    <3>1. actor'[b] = actor[b] BY <2>2 DEF Around, Alone
    <3>2. Busy(b) BY <3>1 DEF Busy, At
    <3> QED BY <2>2, <3>1, <3>2 DEF Around, Kind
  <2> QED BY <2>1, <2>2
<1>2. q \in Rows /\ subs[q].status # "none" /\ subs[q].owner = Customer(b)
  BY <1>1, Working DEF Busy, Customer
<1>3. CASE ~At(b, "cancelRow")
  <2>1. subs[q].status = "canceled" BY <1>0, <1>1, <1>3 DEF KeepInv, StaysCanceled
  <2>2. subs'[q].status = "canceled" BY <1>0, <1>1, <1>2, <2>1, Reactivated
  <2> QED BY <1>1, <2>2
<1>4. CASE At(b, "cancelRow")
  <2>1. b = a BY <1>1, <1>4 DEF At
  <2>2. CancelRow(a) BY <1>4, <2>1, StepIs DEF Around, Busy, At
  <2> DEFINE v == [subs[q] EXCEPT !.status = "canceled",
                     !.code = IF Kind(a) = "canceled" THEN actor[a].code ELSE @]
  <2>3. subs' = [subs EXCEPT ![q] = v] BY <2>1, <2>2 DEF CancelRow, IInv, RowsOK
  <2>4. v.status = "canceled" BY <1>2 DEF IInv, RowsOK, Row
  <2> HIDE DEF v
  <2>5. subs'[q] = v BY <1>2, <2>3 DEF IInv, RowsOK
  <2> QED BY <1>1, <2>4, <2>5
<1> QED BY <1>3, <1>4

LEMMA KeepsNewRows ==
  ASSUME IInv, Control, KeepInv, NEW a \in Actors, Work(a) \/ Die(a), Around(a)
  PROVE  NewRows'
<1>0. Busy(a) /\ actor[a].row \in Rows /\ subs[actor[a].row].status # "none" /\ KeptPlans
  BY DEF Around, RowsMove
<1>1. ASSUME NEW k \in checkouts', k.kind = "newPaid" PROVE subs'[k.row].plan # k.plan
  <2>1. CASE k \in checkouts
    <3>1. k.row \in Rows /\ subs[k.row].status # "none"
      BY <2>1 DEF IInv, CheckoutsOK, Checkout
    <3>2. subs[k.row].plan # k.plan BY <1>1, <2>1 DEF KeepInv, NewRows
    <3> QED BY <1>0, <3>1, <3>2 DEF KeptPlans
  <2>2. CASE k \notin checkouts
    <3>1. Bill(a)
      BY <2>2 DEF Work, Die, CancelAtProvider, CancelRow, ScheduleCancel, ScheduleDowngrade,
             Wake, VerifyCancel, VerifyDowngrade, Claim, Look, InsertFree, Provision, Mark, Find,
             Insert, InsertRefused, Renew, Reopen, ReviveRefused, Load, Link, LinkInline,
             SameWorld
    <3>2. Kind(a) = "newNow" /\ k = [row |-> actor[a].row, plan |-> actor[a].plan,
                 kind |-> "newPaid", left |-> MaxDeliveries, code |-> NoCode]
      BY <2>2, <3>1 DEF Bill
    <3>3. Fits(a) BY <1>0, <3>2 DEF KeepInv, NewRows
    <3> QED BY <1>0, <3>2, <3>3 DEF Fits, KeptPlans
  <2> QED BY <2>1, <2>2
<1>2. ASSUME NEW b \in Actors, Busy(b)', Kind(b)' \in {"newNow", "newPaid"}
      PROVE  Fits(b)'
  <2>1. /\ Busy(b) /\ Kind(b) \in {"newNow", "newPaid"}
        /\ actor'[b].row = actor[b].row /\ actor'[b].plan = actor[b].plan
    <3>1. CASE b = a
      <4>1. Moves(a) BY <1>2, <3>1 DEF Around, Busy, At
      <4> QED BY <1>0, <1>2, <3>1, <4>1 DEF Moves, NextKind, Kind
    <3>2. CASE b # a
      <4>1. actor'[b] = actor[b] BY <3>2 DEF Around, Alone
      <4> QED BY <1>2, <4>1 DEF Busy, At, Kind
    <3> QED BY <3>1, <3>2
  <2>2. actor[b].row \in Rows /\ subs[actor[b].row].status # "none"
    BY <2>1, Working DEF Busy
  <2>3. Fits(b) BY <2>1 DEF KeepInv, NewRows
  <2> QED BY <1>0, <2>1, <2>2, <2>3 DEF Fits, KeptPlans
<1> QED BY <1>1, <1>2 DEF NewRows

\* An actor that owes a subscription goes on owing it, or brings it.
LEMMA OwingGoesOn ==
  ASSUME IInv, Control, NEW a \in Actors, Work(a), Around(a), Owing(a),
         NEW c \in Customers, c = Customer(a), c \notin Exempt'
  PROVE  HasPlan(c)' \/ Owed(c)'
<1>0. subs \in [Rows -> Row] /\ Tables BY TablesTyped DEF IInv, RowsOK
<1>1. ASSUME actor'[a].pc # "idle", Owing(a)' PROVE Owed(c)'
  BY <1>1 DEF Around, Owed, Busy, At
<1>2. ASSUME actor'[a].pc # "idle" PROVE Kind(a)' = NextKind(actor[a])
  BY <1>2 DEF Around, Moves, Kind
<1>3. ASSUME NEW r \in Rows, subs'[r].status = "active", subs'[r].owner = c
      PROVE  HasPlan(c)'
  BY <1>3 DEF HasPlan, Active
<1>4. CASE Kind(a) \in {"upgrade", "upgradeInline", "upgradeNow", "downgrade"}
           /\ actor[a].pc \in {"find", "insert", "bill", "cancelAtProvider"}
  <2>1. actor'[a].pc # "idle" => Kind(a)' = Kind(a) BY <1>2, <1>4 DEF NextKind, Kind
  <2>2. CASE actor[a].pc = "find"
    <3>1. Find(a) /\ UNCHANGED subs BY <2>2, StepIs DEF At, Find
    <3>2. CASE ActiveOf(c, actor[a].plan) # {}
      BY <1>3, <3>1, <3>2 DEF ActiveOf, Active
    <3>3. CASE ActiveOf(c, actor[a].plan) = {}
      <4>1. Goto(a, "insert") BY <3>1, <3>3 DEF Find
      <4>2. actor'[a].pc = "insert" BY <1>0, <4>1, GotoAlone
      <4>3. Owing(a)' BY <1>4, <2>1, <4>2 DEF Owing, Kind
      <4> QED BY <1>1, <4>2, <4>3
    <3> QED BY <3>2, <3>3
  <2>3. CASE actor[a].pc = "insert"
    <3>1. CASE Insert(a)
      <4> DEFINE u == [Unused EXCEPT !.owner = Customer(a), !.status = "active",
                           !.plan = actor[a].plan, !.code = NewCode(a),
                           !.cancelAt = (Kind(a) = "upgradeNow" /\ actor[a].code = NoCode)]
      <4>1. PICK r \in Rows : subs' = [subs EXCEPT ![r] = u] BY <3>1 DEF Insert
      <4>2. u.status = "active" /\ u.owner = c BY DEF Unused
      <4> HIDE DEF u
      <4>3. subs'[r] = u BY <1>0, <4>1
      <4> QED BY <1>3, <4>2, <4>3
    <3>2. CASE InsertRefused(a)
      <4>1. Kind(a) \in {"upgrade", "downgrade"} /\ Goto(a, "find")
        BY <1>4, <3>2 DEF InsertRefused, Exempt
      <4>2. actor'[a].pc = "find" BY <1>0, <4>1, GotoAlone
      <4>3. Owing(a)' BY <2>1, <4>1, <4>2 DEF Owing, Kind
      <4> QED BY <1>1, <4>2, <4>3
    <3> QED BY <2>3, <3>1, <3>2, StepIs DEF At
  <2>4. CASE actor[a].pc = "bill"
    <3>1. Kind(a) \in {"upgradeNow", "downgrade"} BY <1>4, <2>4 DEF Owing, At
    <3>2. Bill(a) BY <2>4, StepIs DEF At
    <3>3. \/ Goto(a, After(a))
          \/ \E k : actor' = [actor EXCEPT ![a].code = k, ![a].pc = After(a)]
      BY <3>1, <3>2 DEF Bill
    <3>4. actor'[a].pc = After(a) BY <1>0, <3>3, GotoAlone DEF Tables, Actor
    <3>5. After(a) = IF Kind(a) = "downgrade" THEN "find" ELSE "insert"
      BY <2>4, <3>1 DEF After, At
    <3>6. Owing(a)' BY <2>1, <3>1, <3>4, <3>5 DEF Owing
    <3> QED BY <1>1, <3>4, <3>5, <3>6
  <2>5. CASE actor[a].pc = "cancelAtProvider"
    <3>1. Kind(a) = "downgrade" BY <1>4, <2>5 DEF Owing, At
    <3>2. After(a) = "bill" BY <2>5, <3>1 DEF After, At
    <3>3. Goto(a, "bill") BY <2>5, <3>2, StepIs DEF CancelAtProvider, Advance, At
    <3>4. actor'[a].pc = "bill" BY <1>0, <3>3, GotoAlone
    <3>5. Owing(a)' BY <2>1, <3>1, <3>4 DEF Owing
    <3> QED BY <1>1, <3>4, <3>5
  <2> QED BY <1>4, <2>2, <2>3, <2>4, <2>5
<1>5. CASE Kind(a) = "canceled" /\ actor[a].pc \in {"look", "insertFree", "claim"}
  <2>1. actor'[a].pc # "idle" => Kind(a)' = Kind(a) BY <1>2, <1>5 DEF NextKind, Kind
  <2>2. CASE actor[a].pc = "claim"
    <3>1. Claim(a) BY <2>2, StepIs DEF At
    <3>2. ~subs[actor[a].row].claimed BY <1>5, <2>2 DEF Owing, At
    <3>3. Goto(a, "look") BY <3>1, <3>2 DEF Claim
    <3>4. actor'[a].pc = "look" BY <1>0, <3>3, GotoAlone
    <3>5. Owing(a)' BY <1>5, <2>1, <3>4 DEF Owing
    <3> QED BY <1>1, <3>4, <3>5
  <2>3. CASE actor[a].pc = "look"
    <3>1. Look(a) /\ UNCHANGED subs BY <2>3, StepIs DEF At, Look
    <3>2. CASE ActiveOf(c, Free) # {} BY <1>3, <3>1, <3>2 DEF ActiveOf, Active
    <3>3. CASE ActiveOf(c, Free) = {}
      <4>1. Goto(a, "insertFree") BY <3>1, <3>3 DEF Look
      <4>2. actor'[a].pc = "insertFree" BY <1>0, <4>1, GotoAlone
      <4>3. Owing(a)' BY <1>5, <2>1, <4>2 DEF Owing
      <4> QED BY <1>1, <4>2, <4>3
    <3> QED BY <3>2, <3>3
  <2>4. CASE actor[a].pc = "insertFree"
    <3> DEFINE u == [Unused EXCEPT !.owner = Customer(a), !.status = "active", !.plan = Free,
                                   !.origin = actor[a].row]
    <3>1. InsertFree(a) BY <2>4, StepIs DEF At
    <3>2. PICK r \in Rows : subs' = [subs EXCEPT ![r] = u] BY <3>1 DEF InsertFree
    <3>3. u.status = "active" /\ u.owner = c BY DEF Unused
    <3> HIDE DEF u
    <3>4. subs'[r] = u BY <1>0, <3>2
    <3> QED BY <1>3, <3>3, <3>4
  <2> QED BY <1>5, <2>2, <2>3, <2>4
<1> QED BY <1>4, <1>5 DEF Owing, At

\* Whoever takes an active row away owes another, or has it already.
LEMMA TakenIsOwed ==
  ASSUME IInv, Control, CodesFit, KeepInv, NEW a \in Actors, Work(a), Around(a),
         NEW c \in Customers, c \notin Exempt', NEW r \in Rows, Active(r), subs[r].owner = c
  PROVE  HasPlan(c)' \/ Owed(c)'
<1> DEFINE own == actor[a].row
<1>0. /\ RowsMove(a) /\ Busy(a) /\ own \in Rows /\ subs[own].status # "none"
      /\ Exempt \subseteq Exempt' /\ ControlOK(actor[a]) /\ KeptPlans /\ Tables
  BY TablesTyped DEF Around, Control, RowsMove
<1>1. subs[r].status = "active" /\ subs'[r].owner = c
  BY <1>0 DEF Active, KeptPlans
<1>2. CASE subs'[r].status = "active" BY <1>1, <1>2 DEF HasPlan, Active
<1>3. CASE subs'[r].status # "active"
  <2>1. StatusMoves(a, r, subs'[r]) BY <1>0, <1>1 DEF RowsMove, RowMoves
  <2>2. r = own /\ (At(a, "cancelRow") \/ Kind(a) = "cancelDowngrade")
    BY <1>1, <1>3, <2>1 DEF StatusMoves
  <2>3. c = Customer(a) /\ c \notin canceling /\ c \notin Exempt
    BY <1>0, <2>2 DEF Customer, Exempt
  <2>4. Kind(a) \notin {"cancelNow", "cancelLater", "cancelDowngrade"}
    BY <1>0, <2>3 DEF KeepInv, AskedFirst
  <2>5. At(a, "cancelRow") /\ CancelRow(a) BY <2>2, <2>4, StepIs
  <2>6. Kind(a) \in {"canceled", "downgrade", "upgrade", "upgradeInline", "upgradeNow", "newNow",
                     "newPaid"}
    BY <1>0, <2>4, <2>5 DEF ControlOK, StepsOf, At, Kind
  <2>7. CASE Kind(a) \in {"newNow", "newPaid"}
    <3> DEFINE n == actor[a].new
    <3>1. /\ n \in Rows /\ subs[n].status # "none"
          /\ subs[n].owner = Customer(a) /\ subs[n].plan = actor[a].plan
      <4>1. Kind(a) \in SwitchKinds /\ Ready(actor[a])
        BY <2>5, <2>7 DEF SwitchKinds, Ready, At, Kind
      <4> QED BY <4>1, SwitchHolds
    <3>2. Fits(a) BY <1>0, <2>7 DEF KeepInv, NewRows
    <3>3. subs[n].status = "active"
      <4>1. c \notin crossed' BY DEF Exempt
      <4> QED BY <2>3, <2>5, <2>7, <4>1 DEF CancelRow
    <3>4. n # own BY <3>1, <3>2 DEF Fits
    <3>5. subs'[n] = subs[n]
      <4>1. subs \in [Rows -> Row] BY <1>0 DEF Tables
      <4>2. \E v : subs' = [subs EXCEPT ![own] = v]
        BY <2>5, <4>1 DEF CancelRow
      <4> QED BY <1>0, <3>1, <3>4, <4>1, <4>2
    <3> QED BY <2>3, <3>1, <3>3, <3>5 DEF HasPlan, Active
  <2>8. CASE Kind(a) \in {"canceled", "downgrade", "upgrade", "upgradeInline", "upgradeNow"}
    <3>1. After(a) = CASE Kind(a) = "canceled" -> "claim"
                       [] Kind(a) = "downgrade" -> "cancelAtProvider"
                       [] Kind(a) \in {"upgrade", "upgradeInline"} -> "find"
                       [] Kind(a) = "upgradeNow" -> "bill"
      BY <2>5, <2>8 DEF After, At
    <3>2. After(a) # "idle" BY <2>8, <3>1
    <3>3. Goto(a, After(a)) BY <2>5, <3>2 DEF CancelRow, Advance
    <3>4. actor'[a].pc = After(a) BY <1>0, <3>3, GotoAlone
    <3>5. Kind(a)' = Kind(a) /\ actor'[a].row = own
      BY <1>0, <3>3, GotoAlone DEF Kind
    <3>6. ~subs'[own].claimed
      <4>1. ~subs[own].claimed BY <1>1, <2>2, <2>3 DEF KeepInv, Unclaimed, Active
      <4>2. ClaimMoves(a, own, subs'[own]) BY <1>0 DEF RowsMove, RowMoves
      <4>3. subs'[own].claimed = subs[own].claimed BY <2>5, <4>2 DEF ClaimMoves, At
      <4> QED BY <4>1, <4>3
    <3>7. Kind(a) = "canceled" => ~Overtaken(a)'
      <4> SUFFICES ASSUME Kind(a) = "canceled", NEW b \in Actors, Kind(b)' = "canceled",
                          actor'[b].row = actor'[a].row, actor'[b].pc \in {"provision", "mark"}
                   PROVE  FALSE
        BY DEF Overtaken
      <4>1. b # a BY <3>1, <3>4
      <4>2. actor'[b] = actor[b] BY <4>1 DEF Around, Alone
      <4>3. /\ Busy(b) /\ Kind(b) = "canceled" /\ ~At(b, "cancelRow")
            /\ actor[b].row = own /\ Customer(b) = c
        BY <2>2, <3>5, <4>2 DEF Busy, At, Kind, Customer
      <4>4. subs[own].status = "canceled" BY <2>3, <4>3 DEF KeepInv, StaysCanceled
      <4> QED BY <1>1, <2>2, <4>4
    <3>8. Owing(a)' BY <2>8, <3>1, <3>4, <3>5, <3>6, <3>7 DEF Owing, At
    <3>9. Busy(a)' /\ Customer(a)' = c BY <2>3, <3>2, <3>4 DEF Busy, At, Around
    <3> QED BY <3>8, <3>9 DEF Owed
  <2> QED BY <2>6, <2>7, <2>8
<1> QED BY <1>2, <1>3

\* A claim that comes to be owed to another actor than it was owed by.
LEMMA ClaimGoesOver ==
  ASSUME IInv, Control, KeepInv, NEW a \in Actors, Work(a), Around(a),
         NEW c \in Customers, c \notin Exempt', NEW b \in Actors, b # a,
         Busy(b), Customer(b) = c, Owing(b), ~Owing(b)'
  PROVE  HasPlan(c)' \/ Owed(c)'
<1> DEFINE q == actor[b].row
<1>0. /\ RowsMove(a) /\ Busy(a) /\ Exempt \subseteq Exempt' /\ c \notin Exempt
      /\ ControlOK(actor[a]) /\ actor'[b] = actor[b]
  BY DEF Around, Control, Alone
<1>1. /\ Kind(b) = "canceled" /\ At(b, "claim") /\ ~subs[q].claimed /\ ~Overtaken(b)
      /\ subs'[q].claimed \/ Overtaken(b)'
  BY <1>0 DEF Owing, Kind, At
<1>2. q \in Rows /\ subs[q].status # "none" /\ subs[q].owner = c
  BY Working DEF Busy, Customer
<1>3. CASE subs'[q].claimed
  <2>1. ClaimMoves(a, q, subs'[q]) BY <1>0, <1>2 DEF RowsMove, RowMoves
  <2>2. q = actor[a].row \/ q = actor[a].new BY <1>1, <1>3, <2>1 DEF ClaimMoves
  <2>3. Customer(a) = c BY <1>2, <2>2, NewOwner DEF Customer
  <2>4. Restores(actor[a]) => ~actor[a].seen.claimed BY <1>0, <2>3 DEF KeepInv, Unclaimed
  <2>5. q = actor[a].row /\ actor[a].pc \in {"claim", "mark"}
    BY <1>1, <1>3, <2>1, <2>4 DEF ClaimMoves, Restores, At, Kind
  <2>6. Kind(a) \notin {"cancelNow", "cancelLater", "cancelDowngrade"}
    BY <1>0, <2>3 DEF KeepInv, AskedFirst, Exempt
  <2>7. Kind(a) = "canceled" BY <1>0, <2>5, <2>6 DEF ControlOK, StepsOf, Kind
  <2>8. actor[a].pc # "mark" BY <1>1, <2>5, <2>7 DEF Overtaken
  <2>9. Owing(a) BY <1>1, <2>5, <2>7, <2>8 DEF Owing, At, Overtaken
  <2> QED BY <2>3, <2>9, OwingGoesOn
<1>4. CASE Overtaken(b)'
  <2>1. PICK d \in Actors : /\ Kind(d)' = "canceled" /\ actor'[d].row = q
                            /\ actor'[d].pc \in {"provision", "mark"}
    BY <1>0, <1>4 DEF Overtaken
  <2>2. d = a
    <3>1. d # a => actor'[d] = actor[d] BY DEF Around, Alone
    <3> QED BY <1>1, <2>1, <3>1 DEF Overtaken, Kind
  <2>3. Moves(a) /\ actor'[a].pc \in {"provision", "mark"} /\ actor'[a].row = q
    BY <2>1, <2>2 DEF Around
  <2>4. Kind(a) = "canceled" /\ actor[a].row = q
    BY <1>0, <2>1, <2>2, <2>3 DEF Moves, NextKind, Kind
  <2>5. actor'[a].pc # "mark"
    <3>1. ASSUME actor'[a].pc = "mark" PROVE actor[a].pc = "provision"
      <4>1. "mark" \in NextSteps(a) BY <2>3, <3>1 DEF Moves
      <4>2. actor[a].pc \in {"cancelRow", "claim", "look", "insertFree", "provision", "mark"}
        BY <1>0, <2>4 DEF ControlOK, StepsOf, Kind, Busy, At
      <4> QED BY <2>4, <4>1, <4>2 DEF NextSteps, After, At, Kind
    <3> QED BY <1>1, <2>4, <3>1 DEF Overtaken
  <2>6. PICK r \in Rows : subs'[r].status = "active" /\ subs'[r].owner = Customer(a)
    BY <2>3, <2>4, <2>5, FallsBack DEF CancelKinds
  <2>7. Customer(a) = c BY <1>2, <2>4 DEF Customer
  <2> QED BY <2>6, <2>7 DEF HasPlan, Active
<1> QED BY <1>1, <1>3, <1>4

LEMMA KeepsProvided ==
  ASSUME IInv, Control, CodesFit, KeepInv, NEW a \in Actors, Work(a) \/ Die(a), Around(a)
  PROVE  Provided'
<1> SUFFICES ASSUME faults' = 0, NEW c \in Customers, c \notin Exempt'
             PROVE  HasPlan(c)' \/ Owed(c)'
  BY DEF Provided
<1>0. faults = 0 /\ Work(a) /\ c \notin Exempt BY DEF Around
<1>1. HasPlan(c) \/ Owed(c) BY <1>0 DEF KeepInv, Provided
<1>2. CASE HasPlan(c)
  <2>1. PICK r \in Rows : Active(r) /\ subs[r].owner = c BY <1>2 DEF HasPlan
  <2> QED BY <1>0, <2>1, TakenIsOwed
<1>3. CASE Owed(c)
  <2>1. PICK b \in Actors : Busy(b) /\ Customer(b) = c /\ Owing(b) BY <1>3 DEF Owed
  <2>2. CASE b = a BY <1>0, <2>1, <2>2, OwingGoesOn
  <2>3. CASE b # a
    <3>1. actor'[b] = actor[b] /\ Customer(b)' = c BY <2>1, <2>3 DEF Around, Alone
    <3>2. CASE Owing(b)' BY <2>1, <3>1, <3>2 DEF Owed, Busy, At
    <3>3. CASE ~Owing(b)' BY <1>0, <2>1, <2>3, <3>3, ClaimGoesOver
    <3> QED BY <3>2, <3>3
  <2> QED BY <2>2, <2>3
<1> QED BY <1>1, <1>2, <1>3

LEMMA NextKeep == IInv /\ Control /\ CodesFit /\ KeepInv /\ [Next]_vars => KeepInv'
<1> SUFFICES ASSUME IInv, Control, CodesFit, KeepInv, [Next]_vars PROVE KeepInv'
  OBVIOUS
<1>1. CASE StartStep BY <1>1, StartKeeps
<1>2. ASSUME NEW a \in Actors, Work(a) \/ Die(a) PROVE KeepInv'
  <2>1. Around(a) BY <1>2, WorkAround
  <2> QED BY <1>2, <2>1, KeepsAsked, KeepsUnclaimed, KeepsCanceled, KeepsNewRows, KeepsProvided
          DEF KeepInv
<1>3. CASE UNCHANGED vars
  <2>1. StartStep BY <1>3 DEF vars, StartStep, CheckoutsKept
  <2> QED BY <2>1, StartKeeps
<1> QED BY <1>1, <1>2, <1>3, StartOrWork

(* For any number of customers, plans, actors and requests: no overlap of  *)
(* switches, payments and their repeats leaves a customer without a        *)
(* subscription, outside the exceptions that PlanNeverLost names.          *)
THEOREM PlanIsKept == Spec => []PlanNeverLost
<1> DEFINE Inv == IInv /\ Control /\ CodesFit /\ KeepInv
<1>1. Init => Inv BY InitTyped, InitControl, InitCodes, InitKeep
<1>2. Inv /\ [Next]_vars => Inv' BY NextTyped, NextControl, NextCodes, NextKeep
<1>3. Inv => PlanNeverLost
  BY DEF KeepInv, Provided, Owed, Busy, Exempt, PlanNeverLost, Quiet
<1> QED BY <1>1, <1>2, <1>3, PTL DEF Spec
=============================================================================
