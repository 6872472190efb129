----------------------- MODULE SubscriptionSyncProofs -----------------------
(***************************************************************************)
(* Proofs about what the provider and this database know of each other.    *)
(* SubscriptionSync, for any rows, handlers, periods, delays and faults:   *)
(* its types, that no row's period runs beyond what was paid for but the   *)
(* 30 days of an event without a date, and that access follows the         *)
(* provider while its events are handled in order.                         *)
(* CatalogSync, for any plans, prices and requests: its types, that a      *)
(* checkout sells only what the row was linked to, and that the provider   *)
(* charges the listed price.                                               *)
(***************************************************************************)
EXTENDS SubscriptionSync, CatalogSync, TLAPS

Busy == [pc : {"write", "link", "insert", "merge"}, ev : Event, id : Ids \cup {0}, snap : Row]

(* The invariant: whatever carries a date on its way to a row - the        *)
(* provider's subscription, an event not delivered, a handler at work, a   *)
(* reconciliation about to write - carries one that is paid for; and only  *)
(* the event of a checkout session makes a row without carrying one.       *)
PaidFor(e, until) == e.end <= until /\ (e.kind = "payment" => e.paid + Period <= until)
Undated(e) == e.kind \in {"active", "created"} /\ e.plan /\ e.end = Never
FromSession(e) == Undated(e) => e.kind = "created" /\ key = "session" /\ e.paid = Start
Within(e) == PaidFor(e, covered) /\ FromSession(e)
Makes(e) == e.kind = "payment" \/ (e.kind \in {"active", "created"} /\ e.plan)
Allowed(end) == end <= covered \/ (key = "session" /\ end = Start + Fallback)

ClockOK ==
  /\ now \in Nat /\ key \in {"code", "session", "reference"} /\ covered \in Nat /\ moves \in Nat
  /\ hist \subseteq {"late", "lost", "raced", "twice"}
  /\ faults \in Nat
\* A payment extends what is covered: that never lies beyond the next one.
ProviderOK ==
  /\ provider \in [status : {"none", "active", "canceling", "past_due", "canceled"},
                   end : Nat, failed : Nat]
  /\ provider.status = "none" => provider.end = Never /\ now = Start
  /\ provider.end <= covered
  /\ covered <= provider.end \/ covered <= now + Period
EventsOK == pending \subseteq Event /\ \A e \in pending : Within(e)
HandlersOK ==
  /\ handler \in [Handlers -> [pc : {"idle"}] \cup Busy]
  /\ \A h \in Handlers : handler[h].pc # "idle" => Within(handler[h].ev)
  /\ \A h \in Handlers : /\ handler[h].pc = "merge" => handler[h].ev.kind = "payment"
                         /\ handler[h].pc = "insert" => Makes(handler[h].ev)
RowsOK == rows \in Rows /\ \A i \in Ids : Allowed(rows[i].end)
CheckOK ==
  /\ cache \subseteq Rows
  /\ check \in [pc : {"idle"}] \cup [pc : {"sweep"}, seen : Rows, put : BOOLEAN]
RecOK ==
  /\ rec \in [pc : {"idle"}] \cup [pc : {"fetch"}, id : Ids, snap : Row]
             \cup [pc : {"write"}, id : Ids, snap : Row, end : Nat,
                   verdict : {"terminal", "pending", "active", "stale"}]
  /\ rec.pc = "write" => rec.end <= covered

IInv == ClockOK /\ ProviderOK /\ EventsOK /\ HandlersOK /\ RowsOK /\ CheckOK /\ RecOK

LEMMA IInvImplies == IInv => TypeOK
BY DEF IInv, ClockOK, ProviderOK, EventsOK, HandlersOK, RowsOK, CheckOK, RecOK, TypeOK, Busy

-----------------------------------------------------------------------------
LEMMA NoRowTyped == NoRow \in Row /\ NoRow.end = 0
BY DEF NoRow, Row, Never, Live

LEMMA InitHolds == Init => IInv
<1>1. ASSUME Init PROVE rows \in Rows /\ \A i \in Ids : Allowed(rows[i].end)
  BY <1>1, NoRowTyped DEF Init, Rows, Never, Allowed
<1> QED BY <1>1, SyncAssumption DEF Init, IInv, ClockOK, ProviderOK, EventsOK, HandlersOK, RowsOK,
             CheckOK, RecOK, Never, Start

(* What each group of variables needs to stay as it is. *)
LEMMA HandlersRest ==
  ASSUME HandlersOK, covered \in Nat, covered' \in Nat, covered <= covered',
         UNCHANGED <<handler, key>>, Period \in Nat
  PROVE  HandlersOK'
<1>1. ASSUME NEW h \in Handlers, handler[h].pc # "idle" PROVE Within(handler[h].ev)'
  <2>1. handler[h].ev \in Event BY <1>1 DEF HandlersOK, Busy
  <2>2. Within(handler[h].ev) BY <1>1 DEF HandlersOK
  <2> QED BY <2>1, <2>2 DEF Within, PaidFor, Event, FromSession, Undated
<1> QED BY <1>1 DEF HandlersOK, Makes

LEMMA HandlersSet ==
  ASSUME HandlersOK, UNCHANGED <<covered, key>>, NEW h \in Handlers,
         NEW w \in [pc : {"idle"}] \cup Busy,
         w.pc # "idle" => Within(w.ev), w.pc = "merge" => w.ev.kind = "payment",
         w.pc = "insert" => Makes(w.ev),
         handler' = [handler EXCEPT ![h] = w]
  PROVE  HandlersOK'
<1>1. handler' \in [Handlers -> [pc : {"idle"}] \cup Busy] BY DEF HandlersOK
<1>2. ASSUME NEW g \in Handlers
      PROVE  /\ (handler[g].pc # "idle" => Within(handler[g].ev))'
             /\ (handler[g].pc = "merge" => handler[g].ev.kind = "payment")'
             /\ (handler[g].pc = "insert" => Makes(handler[g].ev))'
  <2>1. CASE g = h BY <2>1 DEF HandlersOK, Within, FromSession, Undated, Makes
  <2>2. CASE g # h
    <3>1. handler'[g] = handler[g] BY <2>2 DEF HandlersOK
    <3> QED BY <3>1 DEF HandlersOK, Within, FromSession, Undated, Makes
  <2> QED BY <2>1, <2>2
<1> QED BY <1>1, <1>2 DEF HandlersOK

LEMMA Rested ==
  ASSUME HandlersOK, UNCHANGED <<covered, key>>, NEW h \in Handlers, Rest(h)
  PROVE  HandlersOK'
<1> DEFINE w == [pc |-> "idle"]
<1>1. w \in [pc : {"idle"}] \cup Busy /\ w.pc = "idle" OBVIOUS
<1>2. handler' = [handler EXCEPT ![h] = w] BY DEF Rest
<1> HIDE DEF w
<1> QED BY <1>1, <1>2, HandlersSet

LEMMA Gone ==
  ASSUME HandlersOK, UNCHANGED <<covered, key>>, NEW h \in Handlers,
         NEW pc \in {"write", "link", "insert", "merge"}, NEW e \in Event, NEW i \in Ids \cup {0},
         rows \in Rows, Within(e), pc = "merge" => e.kind = "payment",
         pc = "insert" => Makes(e), Go(h, pc, e, i)
  PROVE  HandlersOK'
<1> DEFINE snap == IF i \in Ids THEN rows[i] ELSE NoRow
           w == [pc |-> pc, ev |-> e, id |-> i, snap |-> snap]
<1>1. snap \in Row BY NoRowTyped DEF Rows
<1>2. handler' = [handler EXCEPT ![h] = w] BY DEF Go
<1> HIDE DEF snap
<1>3. w \in Busy /\ w.ev = e /\ w.pc = pc BY <1>1 DEF Busy
<1> HIDE DEF w
<1> QED BY <1>2, <1>3, HandlersSet

LEMMA TouchedTyped ==
  ASSUME NEW row \in Row, now \in Nat
  PROVE  Touched(row) \in Row /\ Touched(row).end = row.end
BY DEF Touched, Row, Never

LEMMA RowUpdated ==
  ASSUME RowsOK, UNCHANGED <<covered, key>>, now \in Nat, NEW i \in Ids, NEW row \in Row,
         Allowed(row.end), Update(i, row)
  PROVE  RowsOK'
<1> DEFINE next == [rows EXCEPT ![i] = Touched(row)]
<1>1. Touched(row) \in Row /\ Allowed(Touched(row).end) BY TouchedTyped
<1>2. next \in Rows /\ \A j \in Ids : Allowed(next[j].end) BY <1>1 DEF RowsOK, Rows
<1>3. rows' = IF Unique(next) THEN next ELSE rows BY DEF Update
<1> HIDE DEF next
<1> QED BY <1>2, <1>3 DEF RowsOK, Allowed

-----------------------------------------------------------------------------
(* The provider. *)

LEMMA Moved ==
  ASSUME IInv, NEW status \in {"active", "canceling", "past_due", "canceled"},
         NEW end \in Nat, NEW failed \in Nat, NEW events \in SUBSET Event,
         Move(status, end, failed, events), covered' \in Nat, covered <= covered',
         end <= covered', covered' <= end \/ covered' <= now + Period,
         \A e \in events : PaidFor(e, covered') /\ FromSession(e)
  PROVE  IInv'
<1>1. /\ UNCHANGED <<now, key, rows, handler, cache, check, rec, hist, faults>>
      /\ moves' = moves + 1
      /\ provider' = [status |-> status, end |-> end, failed |-> failed]
      /\ pending' = pending \cup events
  BY DEF Move
<1>2. covered \in Nat BY DEF IInv, ClockOK
<1>3. ClockOK' BY <1>1 DEF IInv, ClockOK
<1>4. ProviderOK' BY <1>1 DEF ProviderOK
<1>5. EventsOK'
  <2>1. ASSUME NEW e \in pending PROVE Within(e)'
    <3>1. e \in Event /\ Within(e) BY DEF IInv, EventsOK
    <3> QED BY <3>1, <1>1, <1>2, SyncAssumption DEF Within, PaidFor, Event, FromSession, Undated
  <2>2. ASSUME NEW e \in events PROVE Within(e)' BY <1>1 DEF Within, FromSession, Undated
  <2>3. pending' \subseteq Event BY <1>1 DEF IInv, EventsOK
  <2> QED BY <2>1, <2>2, <2>3, <1>1 DEF EventsOK
<1>6. HandlersOK' BY <1>1, <1>2, HandlersRest, SyncAssumption DEF IInv
<1>7. RowsOK'
  <2>1. ASSUME NEW i \in Ids PROVE rows[i].end \in Nat BY DEF IInv, RowsOK, Rows, Row
  <2> QED BY <2>1, <1>1, <1>2 DEF IInv, RowsOK, Allowed
<1>8. CheckOK' BY <1>1 DEF IInv, CheckOK
<1>9. RecOK'
  <2>1. rec.pc = "write" => rec.end \in Nat BY DEF IInv, RecOK
  <2> QED BY <2>1, <1>1, <1>2 DEF IInv, RecOK
<1> QED BY <1>3, <1>4, <1>5, <1>6, <1>7, <1>8, <1>9 DEF IInv

Kind == {"payment", "created", "active", "past_due", "not_renew", "canceled"}

LEMMA Sent ==
  ASSUME now \in Nat, moves \in Nat, NEW sort \in Kind, NEW by \in {"plan_id", "code", "plan"},
         NEW end \in Nat, NEW plan \in BOOLEAN
  PROVE  /\ Send(sort, by, end, plan) \in Event
         /\ Send(sort, by, end, plan).kind = sort /\ Send(sort, by, end, plan).end = end
         /\ Send(sort, by, end, plan).paid = now /\ Send(sort, by, end, plan).plan = plan
BY DEF Send, Event, Kind

(* The event of a payment carries a period that Pays has covered. *)
LEMMA SentPaid ==
  ASSUME now \in Nat, moves \in Nat, NEW until \in Nat, NEW sort \in Kind,
         NEW by \in {"plan_id", "code", "plan"}, NEW end \in Nat, NEW plan \in BOOLEAN,
         end <= until, sort = "payment" => now + Period <= until,
         (sort \in {"active", "created"} /\ plan /\ end = Never)
           => sort = "created" /\ key = "session" /\ now = Start
  PROVE  /\ PaidFor(Send(sort, by, end, plan), until)
         /\ FromSession(Send(sort, by, end, plan))
<1> DEFINE e == Send(sort, by, end, plan)
<1>1. e.end = end /\ e.kind = sort /\ e.paid = now /\ e.plan = plan BY Sent
<1> HIDE DEF e
<1>2. PaidFor(e, until) BY <1>1 DEF PaidFor
<1>3. FromSession(e) BY <1>1 DEF FromSession, Undated
<1> QED BY <1>2, <1>3 DEF e

LEMMA Covers ==
  ASSUME ClockOK, ProviderOK, NEW end \in Nat, provider.end <= end, Pays(end)
  PROVE  /\ covered' \in Nat /\ covered <= covered' /\ end <= covered'
         /\ now + Period <= covered' /\ (covered' <= end \/ covered' <= now + Period)
BY SyncAssumption DEF Pays, ClockOK, ProviderOK

LEMMA Renewed ==
  ASSUME now \in Nat, moves \in Nat, NEW end \in Nat, NEW until \in Nat, end <= until,
         now + Period <= until, end # Never
  PROVE  /\ Renewal(end) \subseteq Event
         /\ \A e \in Renewal(end) : PaidFor(e, until) /\ FromSession(e)
<1> DEFINE e1 == Send("payment", "plan_id", Never, TRUE)
           e2 == Send("active", "code", end, TRUE)
<1>1. e1 \in Event BY Sent DEF Kind, Never
<1>2. e2 \in Event BY Sent DEF Kind
<1>3. PaidFor(e1, until) /\ FromSession(e1)
  <2>1. Never \in Nat /\ Never <= until BY DEF Never
  <2>2. "payment" \in Kind BY DEF Kind
  <2> QED BY <2>1, <2>2, SentPaid
<1>4. PaidFor(e2, until) /\ FromSession(e2)
  <2>1. "active" \in Kind /\ "active" # "payment" BY DEF Kind
  <2> QED BY <2>1, SentPaid
<1>5. Renewal(end) \subseteq {e1, e2} BY DEF Renewal
<1> HIDE DEF e1, e2
<1> QED BY <1>1, <1>2, <1>3, <1>4, <1>5

LEMMA ProviderStep ==
  ASSUME IInv, Provider
  PROVE  IInv'
<1> USE DEF Never
<1>1. /\ now \in Nat /\ moves \in Nat /\ covered \in Nat /\ Period \in Nat
      /\ ClockOK /\ ProviderOK
      /\ provider.end \in Nat /\ provider.failed \in Nat /\ provider.end <= covered
      /\ covered <= provider.end \/ covered <= now + Period
  BY SyncAssumption DEF IInv, ClockOK, ProviderOK
<1>2. CASE Begin
  <2> DEFINE sort == IF key = "code" THEN "active" ELSE "created"
             end == IF key = "session" THEN 0 ELSE now + Period
             e1 == Send("payment", "plan_id", 0, TRUE)
             e2 == Send(sort, "code", end, TRUE)
  <2>0. key \in {"code", "session", "reference"} BY <1>1 DEF ClockOK
  <2>1. Announced = e2 BY <2>0 DEF Announced
  <2>2. Pays(now + Period) /\ Move("active", now + Period, 0, {e1, e2}) BY <1>2, <2>1 DEF Begin
  <2>3. covered' = now + Period BY <2>2, <1>1 DEF Pays
  <2>4. /\ sort \in {"active", "created"} /\ end \in Nat /\ end <= now + Period
        /\ end = 0 => sort = "created" /\ key = "session"
    BY <1>1, <2>0, SyncAssumption
  <2>5. now = Start BY <1>2 DEF Begin, IInv, ProviderOK
  <2> HIDE DEF sort, end
  <2>6. e1 \in Event /\ e2 \in Event
    <3>1. sort \in Kind /\ 0 \in Nat /\ "payment" \in Kind BY <2>4 DEF Kind
    <3>2. e1 \in Event BY <1>1, <3>1, Sent
    <3>3. e2 \in Event BY <1>1, <2>4, <3>1, Sent
    <3> QED BY <3>2, <3>3
  <2>7. /\ covered' \in Nat /\ now + Period <= covered' /\ 0 <= covered'
        /\ now + Period \in Nat /\ 0 \in Nat /\ "payment" \in Kind /\ sort \in Kind
        /\ end <= covered'
    BY <1>1, <2>3, <2>4 DEF Kind
  <2>8. PaidFor(e1, covered') /\ FromSession(e1) BY <1>1, <2>7, SentPaid
  <2>9. PaidFor(e2, covered') /\ FromSession(e2) BY <1>1, <2>4, <2>5, <2>7, SentPaid
  <2> HIDE DEF e1, e2
  <2>10. covered <= now + Period /\ now + Period \in Nat BY <1>1, <1>2 DEF Begin, ProviderOK
  <2> QED BY <1>1, <2>2, <2>3, <2>6, <2>7, <2>8, <2>9, <2>10, Moved
<1>3. ASSUME NEW events \in SUBSET Event, NEW status \in {"active"},
             Pays(provider.end + Period), \A e \in events : PaidFor(e, covered') /\ FromSession(e),
             Move("active", provider.end + Period, 0, events)
      PROVE  IInv'
  <2>1. provider.end + Period \in Nat /\ provider.end <= provider.end + Period BY <1>1
  <2>2. /\ covered' \in Nat /\ covered <= covered' /\ provider.end + Period <= covered'
        /\ covered' <= provider.end + Period \/ covered' <= now + Period
    BY <1>1, <1>3, <2>1, Covers
  <2> QED BY <1>1, <1>3, <2>1, <2>2, Moved
<1>4. ASSUME Pays(provider.end + Period)
      PROVE  /\ Renewal(provider.end + Period) \subseteq Event
             /\ \A e \in Renewal(provider.end + Period) : PaidFor(e, covered') /\ FromSession(e)
             /\ \A by \in {"code", "plan"} :
                  LET e == Send("payment", by, provider.end + Period, TRUE)
                  IN e \in Event /\ PaidFor(e, covered') /\ FromSession(e)
  <2>1. /\ provider.end + Period \in Nat /\ provider.end <= provider.end + Period
        /\ provider.end + Period # 0
    BY <1>1, SyncAssumption
  <2>2. covered' \in Nat /\ provider.end + Period <= covered' /\ now + Period <= covered'
    BY <1>1, <1>4, <2>1, Covers
  <2>3. ASSUME NEW by \in {"code", "plan"}
        PROVE  /\ Send("payment", by, provider.end + Period, TRUE) \in Event
               /\ PaidFor(Send("payment", by, provider.end + Period, TRUE), covered')
               /\ FromSession(Send("payment", by, provider.end + Period, TRUE))
    <3>1. "payment" \in Kind /\ by \in {"plan_id", "code", "plan"} BY DEF Kind
    <3>2. Send("payment", by, provider.end + Period, TRUE) \in Event BY <1>1, <2>1, <3>1, Sent
    <3>3. /\ PaidFor(Send("payment", by, provider.end + Period, TRUE), covered')
          /\ FromSession(Send("payment", by, provider.end + Period, TRUE))
      BY <1>1, <2>1, <2>2, <3>1, SentPaid
    <3> QED BY <3>2, <3>3
  <2> QED BY <1>1, <2>1, <2>2, <2>3, Renewed
<1>5. CASE Renew
  <2>1. CASE Move("active", provider.end + Period, 0, Renewal(provider.end + Period))
    BY <1>5, <2>1, <1>3, <1>4 DEF Renew
  <2>2. ASSUME NEW by \in {"code", "plan"},
               Move("active", provider.end + Period, 0, {Send("payment", by, provider.end + Period, TRUE)})
        PROVE  IInv'
    <3> DEFINE e == Send("payment", by, provider.end + Period, TRUE)
    <3>1. Pays(provider.end + Period) BY <1>5 DEF Renew
    <3>2. e \in Event /\ PaidFor(e, covered') /\ FromSession(e) BY <3>1, <1>4
    <3>3. Move("active", provider.end + Period, 0, {e}) BY <2>2
    <3> HIDE DEF e
    <3> QED BY <3>1, <3>2, <3>3, <1>3
  <2> QED BY <1>5, <2>1, <2>2 DEF Renew
<1>6. CASE Recover
  <2> DEFINE e == Send("payment", "code", provider.end + Period, TRUE)
  <2>1. Pays(provider.end + Period) BY <1>6 DEF Recover
  <2>2. e \in Event /\ PaidFor(e, covered') /\ FromSession(e) BY <2>1, <1>4
  <2>3. Move("active", provider.end + Period, 0,
             IF key # "reference" THEN Renewal(provider.end + Period) ELSE {e})
    BY <1>6 DEF Recover
  <2> HIDE DEF e
  <2> QED BY <2>1, <2>2, <2>3, <1>3, <1>4
\* The other moves leave the period and what is covered as they are.
<1>7. ASSUME NEW status \in {"active", "canceling", "past_due", "canceled"}, NEW failed \in Nat,
             NEW sort \in {"active", "past_due", "not_renew", "canceled"},
             NEW end \in {0, provider.end}, UNCHANGED covered,
             Move(status, provider.end, failed, {Send(sort, "code", end, key # "reference")}),
             sort = "active" /\ key # "reference" => end # 0
      PROVE  IInv'
  <2> DEFINE e == Send(sort, "code", end, key # "reference")
  <2>1. end \in Nat /\ end <= covered /\ sort \in Kind BY <1>1 DEF Kind
  <2>2. e \in Event BY <1>1, <2>1, Sent
  <2>3. PaidFor(e, covered) /\ FromSession(e)
    <3>1. (key # "reference") \in BOOLEAN /\ sort # "created" /\ sort # "payment" OBVIOUS
    <3> QED BY <1>1, <1>7, <2>1, <3>1, SentPaid
  <2>4. Move(status, provider.end, failed, {e}) BY <1>7
  <2> HIDE DEF e
  <2> QED BY <1>1, <1>7, <2>2, <2>3, <2>4, Moved
<1>8. CASE RenewalFails BY <1>1, <1>7, <1>8 DEF RenewalFails
<1>9. CASE CancelAtEnd BY <1>1, <1>7, <1>9 DEF CancelAtEnd
<1>10. CASE Uncancel
  <2> DEFINE end == IF key # "reference" THEN provider.end ELSE 0
  <2>1. end \in {0, provider.end} /\ (key # "reference" => end # 0) BY <1>1, <1>10 DEF Uncancel
  <2>2. UNCHANGED covered
        /\ Move("active", provider.end, 0, {Send("active", "code", end, key # "reference")})
    BY <1>10 DEF Uncancel
  <2> HIDE DEF end
  <2> QED BY <1>7, <2>1, <2>2
<1>11. CASE End BY <1>1, <1>7, <1>11 DEF End
<1> QED BY <1>2, <1>5, <1>6, <1>8, <1>9, <1>10, <1>11 DEF Provider

-----------------------------------------------------------------------------
(* Events and their handlers. *)

LEMMA Lookups ==
  /\ \A statuses : Found(statuses) \subseteq Ids
  /\ \A code : ByCode(code) \subseteq Ids
  /\ Best \subseteq Ids
BY DEF Found, ByCode, Best

LEMMA TargetsInIds == ASSUME NEW e PROVE Targets(e) \subseteq Ids
BY Lookups DEF Targets

LEMMA LinkedInIds == ASSUME NEW e PROVE Linked(e) \subseteq Ids
BY Lookups DEF Linked

LEMMA Looked ==
  ASSUME HandlersOK, RowsOK, UNCHANGED <<covered, key>>, NEW h \in Handlers, NEW e \in Event, Within(e),
         Look(h, e)
  PROVE  HandlersOK'
<1>1. rows \in Rows BY DEF RowsOK
<1>2. ASSUME NEW i \in Targets(e), Go(h, "write", e, i) PROVE HandlersOK'
  <2>1. i \in Ids \cup {0} BY TargetsInIds
  <2> QED BY <1>1, <1>2, <2>1, Gone
<1>3. ASSUME NEW i \in Linked(e), Go(h, "link", e, i) PROVE HandlersOK'
  <2>1. i \in Ids \cup {0} BY LinkedInIds
  <2> QED BY <1>1, <1>3, <2>1, Gone
<1>4. ASSUME Inserts(e), Go(h, "insert", e, 0) PROVE HandlersOK'
  <2>1. 0 \in Ids \cup {0} /\ Makes(e) BY <1>4 DEF Inserts, Makes
  <2> QED BY <1>1, <1>4, <2>1, Gone
<1>5. ASSUME Rest(h) PROVE HandlersOK' BY <1>5, Rested
<1> QED BY <1>2, <1>3, <1>4, <1>5 DEF Look

LEMMA RowsSame == ASSUME RowsOK, UNCHANGED <<rows, covered, key>> PROVE RowsOK'
BY DEF RowsOK, Allowed

LEMMA EventsFewer ==
  ASSUME EventsOK, UNCHANGED <<covered, key>>, pending' \subseteq pending PROVE EventsOK'
BY DEF EventsOK, Within, FromSession, Undated

LEMMA Raised == ASSUME faults \in Nat, NEW fault, Raise(fault) PROVE faults' \in Nat
BY DEF Raise

LEMMA DeliverStep ==
  ASSUME IInv, NEW h \in Handlers, NEW e \in pending, Deliver(h, e)
  PROVE  IInv'
<1>1. UNCHANGED <<now, key, provider, covered, moves, rows, cache, check, rec>> /\ Look(h, e)
  BY DEF Deliver
<1>2. e \in Event /\ Within(e) BY DEF IInv, EventsOK
<1>3. HandlersOK' BY <1>1, <1>2, Looked DEF IInv
<1>4. pending' \subseteq pending BY DEF Deliver
<1>5. hist' \subseteq hist \cup {"late"} BY DEF Deliver
<1>6. faults' \in Nat BY Raised DEF Deliver, IInv, ClockOK
<1>7. ClockOK' BY <1>1, <1>5, <1>6 DEF IInv, ClockOK
<1>8. EventsOK' BY <1>1, <1>4, EventsFewer DEF IInv
<1>9. RowsOK' BY <1>1, RowsSame DEF IInv
<1> QED BY <1>1, <1>3, <1>7, <1>8, <1>9 DEF IInv, ProviderOK, CheckOK, RecOK

LEMMA LoseStep ==
  ASSUME IInv, NEW e \in pending, Lose(e)
  PROVE  IInv'
<1>1. /\ UNCHANGED <<now, key, provider, covered, moves, rows, handler, cache, check, rec>>
      /\ pending' \subseteq pending /\ hist' \subseteq hist \cup {"lost"} /\ Raise("lost")
  BY DEF Lose
<1>2. ClockOK' BY <1>1, Raised DEF IInv, ClockOK
<1>3. EventsOK' BY <1>1, EventsFewer DEF IInv
<1>4. HandlersOK' BY <1>1, HandlersRest, SyncAssumption DEF IInv, ClockOK
<1>5. RowsOK' BY <1>1, RowsSame DEF IInv
<1> QED BY <1>1, <1>2, <1>3, <1>4, <1>5 DEF IInv, ProviderOK, CheckOK, RecOK

(* Whatever an event sets, the period is one that is paid for. *)
LEMMA UpdatedTyped ==
  ASSUME NEW e \in Event, NEW snap \in Row, NEW row \in Row, now \in Nat, covered \in Nat,
         Within(e), Allowed(row.end)
  PROVE  Updated(e, snap, row) \in Row /\ Allowed(Updated(e, snap, row).end)
<1> DEFINE new == Updated(e, snap, row)
<1>1. /\ e.end \in Nat /\ e.end <= covered /\ PaidEnd(e) \in Nat
      /\ e.kind = "payment" => PaidEnd(e) <= covered
  BY SyncAssumption DEF Event, Within, PaidFor, PaidEnd
<1>2. PastDueSince(snap) \in Nat BY DEF PastDueSince, Row
<1> HIDE DEF new
<1>3. CASE e.kind = "payment" /\ e.by = "plan_id"
  <2>1. new = [row EXCEPT !.status = "active", !.end = PaidEnd(e), !.since = snap.since]
    BY <1>3 DEF new, Updated
  <2> QED BY <1>1, <1>3, <2>1 DEF Row, Live, new, Allowed
<1>4. CASE e.kind = "payment" /\ e.by # "plan_id"
  <2>1. new = [row EXCEPT !.status = "active", !.end = e.end] BY <1>4 DEF new, Updated
  <2> QED BY <1>1, <2>1 DEF Row, Live, new, Allowed
<1>5. CASE e.kind = "active"
  <2>1. new = [row EXCEPT !.status = "active", !.end = IF e.end # Never THEN e.end ELSE row.end,
                          !.code = "sub"]
    BY <1>5 DEF new, Updated
  <2> QED BY <1>1, <2>1 DEF Row, Live, new, Allowed
<1>6. CASE e.kind = "past_due"
  <2>1. new = [row EXCEPT !.status = "past_due", !.since = PastDueSince(snap)]
    BY <1>6 DEF new, Updated
  <2> QED BY <1>2, <2>1 DEF Row, Live, new, Allowed
<1>7. CASE e.kind = "not_renew"
  <2>1. new = [row EXCEPT !.status = "pending_cancel", !.cancelAt = snap.end]
    BY <1>7 DEF new, Updated
  <2> QED BY <2>1 DEF Row, Live, new, Allowed
<1>8. CASE e.kind = "canceled"
  <2>1. new = [row EXCEPT !.status = "canceled", !.ended = TRUE] BY <1>8 DEF new, Updated
  <2> QED BY <2>1 DEF Row, Live, new, Allowed
<1>9. CASE e.kind = "created"
  <2>1. new = row BY <1>9 DEF new, Updated
  <2> QED BY <2>1 DEF new
<1> QED BY <1>3, <1>4, <1>5, <1>6, <1>7, <1>8, <1>9 DEF Event

LEMMA NewRowTyped ==
  ASSUME NEW e \in Event, Within(e), Makes(e)
  PROVE  NewRow(e) \in Row /\ Allowed(NewRow(e).end)
<1>1. PaidEnd(e) \in Nat /\ e.end \in Nat /\ e.paid \in Nat /\ Fallback \in Nat
  BY SyncAssumption DEF Event, PaidEnd
<1>2. FirstEnd(e) \in Nat /\ Allowed(FirstEnd(e))
  BY <1>1 DEF FirstEnd, Makes, Allowed, Within, PaidFor, FromSession, Undated, PaidEnd
<1> HIDE DEF FirstEnd
<1> QED BY <1>1, <1>2, NoRowTyped DEF NewRow, Row, Live

(* What a handler's step leaves of the rest. *)
LEMMA Handled ==
  ASSUME IInv, UNCHANGED <<now, key, provider, covered, moves, pending, check, rec, faults>>,
         cache' \in {cache, {}}, hist' \in {hist, hist \cup {"twice"}}, HandlersOK', RowsOK'
  PROVE  IInv'
<1>1. ClockOK' BY DEF IInv, ClockOK
<1>2. EventsOK' BY EventsFewer DEF IInv
<1>3. CheckOK' BY DEF IInv, CheckOK
<1> QED BY <1>1, <1>2, <1>3 DEF IInv, ProviderOK, RecOK

LEMMA HandleStep ==
  ASSUME IInv, NEW h \in Handlers, Handle(h)
  PROVE  IInv'
<1>1. /\ HandlersOK /\ RowsOK /\ now \in Nat /\ covered \in Nat
      /\ rows \in Rows /\ \A i \in Ids : rows[i] \in Row /\ Allowed(rows[i].end)
  BY DEF IInv, ClockOK, RowsOK, Rows
<1>2. ASSUME handler[h].pc # "idle"
      PROVE  /\ handler[h] \in Busy /\ handler[h].ev \in Event /\ handler[h].snap \in Row
             /\ handler[h].id \in Ids \cup {0} /\ Within(handler[h].ev)
             /\ handler[h].pc = "merge" => handler[h].ev.kind = "payment"
             /\ handler[h].pc = "insert" => Makes(handler[h].ev)
  <2>1. handler[h] \in Busy BY <1>1, <1>2 DEF HandlersOK
  <2> QED BY <1>1, <1>2, <2>1 DEF HandlersOK, Busy
<1>3. CASE WriteRow(h)
  <2> DEFINE w == handler[h]
  <2>1. UNCHANGED <<now, key, provider, covered, moves, pending, check, rec, hist, faults>>
        /\ cache' = {} /\ Rest(h) /\ Update(w.id, Updated(w.ev, w.snap, rows[w.id]))
        /\ handler[h].pc # "idle"
    BY <1>3 DEF WriteRow
  <2>2. CASE w.id \in Ids
    <3>1. /\ Updated(w.ev, w.snap, rows[w.id]) \in Row
          /\ Allowed(Updated(w.ev, w.snap, rows[w.id]).end)
      BY <1>1, <1>2, <2>1, <2>2, UpdatedTyped
    <3>2. RowsOK' BY <1>1, <2>1, <2>2, <3>1, RowUpdated
    <3> QED BY <1>1, <2>1, <3>2, Rested, Handled
  <2>3. CASE w.id \notin Ids
    <3>1. rows' = rows
      <4> DEFINE next == [rows EXCEPT ![w.id] = Touched(Updated(w.ev, w.snap, rows[w.id]))]
      <4>1. next = rows BY <1>1, <2>3 DEF Rows
      <4>2. rows' = IF Unique(next) THEN next ELSE rows BY <2>1 DEF Update
      <4> HIDE DEF next
      <4> QED BY <4>1, <4>2
    <3>2. RowsOK' BY <1>1, <2>1, <3>1, RowsSame
    <3> QED BY <1>1, <2>1, <3>2, Rested, Handled
  <2> QED BY <2>2, <2>3
<1>4. CASE LinkRow(h)
  <2> DEFINE i == handler[h].id
             row == [rows[i] EXCEPT !.code = "sub"]
  <2>1. UNCHANGED <<now, key, provider, covered, moves, pending, check, rec, hist, faults>>
        /\ cache' = {} /\ Rest(h) /\ Update(i, row)
    BY <1>4 DEF LinkRow
  <2>2. CASE i \in Ids
    <3>1. row \in Row /\ Allowed(row.end) BY <1>1, <2>2 DEF Row
    <3>2. RowsOK'
      <4> HIDE DEF i, row
      <4> QED BY <1>1, <2>1, <2>2, <3>1, RowUpdated
    <3> QED BY <1>1, <2>1, <3>2, Rested, Handled
  <2>3. CASE i \notin Ids
    <3>1. rows' = rows
      <4> DEFINE next == [rows EXCEPT ![i] = Touched(row)]
      <4>1. next = rows BY <1>1, <2>3 DEF Rows
      <4>2. rows' = IF Unique(next) THEN next ELSE rows BY <2>1 DEF Update
      <4> HIDE DEF next
      <4> QED BY <4>1, <4>2
    <3>2. RowsOK' BY <1>1, <2>1, <3>1, RowsSame
    <3> QED BY <1>1, <2>1, <3>2, Rested, Handled
  <2> QED BY <2>2, <2>3
<1>5. CASE InsertRow(h)
  <2> DEFINE e == handler[h].ev
  <2>1. UNCHANGED <<now, key, provider, covered, moves, pending, check, rec, faults>>
        /\ handler[h].pc = "insert"
    BY <1>5 DEF InsertRow
  <2>2. e \in Event /\ Within(e) /\ Makes(e) BY <1>2, <2>1
  <2>3. ASSUME NEW i, rows' = [rows EXCEPT ![i] = NewRow(e)] PROVE RowsOK'
    <3>1. NewRow(e) \in Row /\ Allowed(NewRow(e).end) BY <2>2, NewRowTyped
    <3> HIDE DEF e
    <3> QED BY <1>1, <2>1, <2>3, <3>1 DEF RowsOK, Rows, Allowed
  <2>4. ASSUME Go(h, "merge", e, 0), e.kind = "payment" PROVE HandlersOK'
    <3>1. 0 \in Ids \cup {0} OBVIOUS
    <3> HIDE DEF e
    <3> QED BY <1>1, <2>1, <2>2, <2>4, <3>1, Gone
  <2>5. Rest(h) => HandlersOK' BY <1>1, <2>1, Rested
  <2>6. CASE /\ \E i \in Free : rows' = [rows EXCEPT ![i] = NewRow(e)]
             /\ hist' \in {hist, hist \cup {"twice"}} /\ cache' = {} /\ Rest(h)
    BY <2>1, <2>3, <2>5, <2>6, Handled
  <2>7. CASE /\ Rest(h) \/ (e.kind = "payment" /\ Go(h, "merge", e, 0))
             /\ UNCHANGED <<rows, cache, hist>>
    BY <1>1, <2>1, <2>4, <2>5, <2>7, RowsSame, Handled
  <2> QED BY <1>5, <2>3, <2>5, <2>1, <2>7, Handled DEF InsertRow
<1>6. CASE MergeRow(h)
  <2> DEFINE e == handler[h].ev
  <2>1. UNCHANGED <<now, key, provider, covered, moves, pending, check, rec, hist, faults>>
        /\ cache' = {} /\ Rest(h) /\ handler[h].pc = "merge"
    BY <1>6 DEF MergeRow
  <2>2. e \in Event /\ PaidEnd(e) \in Nat /\ PaidEnd(e) <= covered
    BY <1>2, <2>1, SyncAssumption DEF Within, PaidFor, PaidEnd, Event
  <2>3. ASSUME NEW i \in Ids, Update(i, [rows[i] EXCEPT !.status = "active", !.end = PaidEnd(e)])
        PROVE  RowsOK'
    <3> DEFINE row == [rows[i] EXCEPT !.status = "active", !.end = PaidEnd(e)]
    <3> HIDE DEF e
    <3>1. row \in Row /\ Allowed(row.end) BY <1>1, <2>2 DEF Row, Live, Allowed
    <3>2. Update(i, row) BY <2>3
    <3> HIDE DEF row
    <3> QED BY <1>1, <2>1, <3>1, <3>2, RowUpdated
  <2>4. \/ \E i \in ByCode(NewRow(e).code) :
             Update(i, [rows[i] EXCEPT !.status = "active", !.end = PaidEnd(e)])
        \/ UNCHANGED rows
    BY <1>6 DEF MergeRow
  <2>5. RowsOK' BY <1>1, <2>1, <2>3, <2>4, Lookups, RowsSame
  <2> QED BY <1>1, <2>1, <2>5, Rested, Handled
<1> QED BY <1>3, <1>4, <1>5, <1>6 DEF Handle

-----------------------------------------------------------------------------
(* Requests, the reconciliation and time. *)

LEMMA CheckStep ==
  ASSUME IInv, Check
  PROVE  IInv'
<1>1. rows \in Rows /\ now \in Nat /\ covered \in Nat /\ cache \subseteq Rows
      /\ \A i \in Ids : rows[i] \in Row /\ Allowed(rows[i].end)
  BY DEF IInv, ClockOK, RowsOK, CheckOK, Rows
<1>2. CASE CheckRead
  <2>1. UNCHANGED <<now, key, provider, covered, moves, pending, rows, handler, cache, rec, hist,
                    faults>>
    BY <1>2 DEF CheckRead
  <2>2. PICK seen \in Rows : check' = [pc |-> "sweep", seen |-> seen, put |-> cache = {}]
    BY <1>1, <1>2 DEF CheckRead
  <2>3. CheckOK'
    <3>1. (cache = {}) \in BOOLEAN OBVIOUS
    <3> QED BY <2>1, <2>2, <3>1 DEF IInv, CheckOK
  <2> QED BY <2>1, <2>3, HandlersRest, SyncAssumption
          DEF IInv, ClockOK, ProviderOK, EventsOK, Within, FromSession, Undated, RowsOK, Allowed, RecOK
<1>3. CASE CheckSweep
  <2> DEFINE new(i) == CASE i \in Canceled(check.seen) ->
                              Touched([rows[i] EXCEPT !.status = "canceled", !.ended = TRUE])
                         [] i \in GoneStale(check.seen) ->
                              Touched([rows[i] EXCEPT !.status = "past_due"])
                         [] OTHER -> rows[i]
             next == [i \in Ids |-> new(i)]
  <2>1. UNCHANGED <<now, key, provider, covered, moves, pending, handler, rec, faults>>
        /\ check' = [pc |-> "idle"] /\ check.pc = "sweep"
        /\ rows' = IF Unique(next) THEN next ELSE rows
    BY <1>3 DEF CheckSweep
  <2>2. hist' \subseteq hist \cup {"raced"} BY <1>3 DEF CheckSweep
  <2>3. cache' \in {{}, {check.seen}} BY <1>3 DEF CheckSweep
  <2>4. ASSUME NEW i \in Ids PROVE new(i) \in Row /\ Allowed(new(i).end)
    <3> DEFINE a == [rows[i] EXCEPT !.status = "canceled", !.ended = TRUE]
               b == [rows[i] EXCEPT !.status = "past_due"]
    <3>1. a \in Row /\ Allowed(a.end) BY <1>1 DEF Row, Live
    <3>2. b \in Row /\ Allowed(b.end) BY <1>1 DEF Row, Live
    <3>3. Touched(a) \in Row /\ Allowed(Touched(a).end)
      <4> HIDE DEF a
      <4> QED BY <1>1, <3>1, TouchedTyped
    <3>4. Touched(b) \in Row /\ Allowed(Touched(b).end)
      <4> HIDE DEF b
      <4> QED BY <1>1, <3>2, TouchedTyped
    <3>5. new(i) \in {Touched(a), Touched(b), rows[i]} OBVIOUS
    <3> HIDE DEF a, b, new
    <3> QED BY <1>1, <3>3, <3>4, <3>5
  <2> HIDE DEF new
  <2>5. next \in Rows /\ \A i \in Ids : Allowed(next[i].end) BY <2>4 DEF Rows
  <2> HIDE DEF next
  <2>6. RowsOK' BY <2>1, <2>5 DEF IInv, RowsOK, Allowed
  <2>7. check.seen \in Rows BY <2>1 DEF IInv, CheckOK
  <2>8. CheckOK' BY <2>1, <2>3, <2>7 DEF CheckOK
  <2>9. ClockOK' BY <2>1, <2>2 DEF IInv, ClockOK
  <2> QED BY <1>1, <2>1, <2>6, <2>8, <2>9, HandlersRest, SyncAssumption
          DEF IInv, ProviderOK, EventsOK, Within, FromSession, Undated, RecOK
<1> QED BY <1>2, <1>3 DEF Check

(* What the reconciliation writes is the provider's period as it read it.  *)
LEMMA ReconciledTyped ==
  ASSUME IInv, rec.pc = "write", NEW row \in Row, Allowed(row.end)
  PROVE  Reconciled(row) \in Row /\ Allowed(Reconciled(row).end)
<1>1. rec.snap \in Row /\ rec.end \in Nat /\ rec.end <= covered /\ rec.snap.end \in Nat
  BY DEF IInv, RecOK, Row
<1>2. Reconciled(row) \in
        {[row EXCEPT !.status = "canceled", !.ended = TRUE],
         [row EXCEPT !.status = "pending_cancel", !.cancelAt = rec.snap.end],
         [row EXCEPT !.status = "active", !.end = rec.end],
         [row EXCEPT !.status = "past_due"], row}
  BY DEF Reconciled
<1>3. ASSUME NEW new \in {[row EXCEPT !.status = "canceled", !.ended = TRUE],
                          [row EXCEPT !.status = "pending_cancel", !.cancelAt = rec.snap.end],
                          [row EXCEPT !.status = "active", !.end = rec.end],
                          [row EXCEPT !.status = "past_due"], row}
      PROVE  new \in Row /\ Allowed(new.end)
  BY <1>1, <1>3 DEF Row, Live, Allowed
<1> QED BY <1>2, <1>3

LEMMA ReconcileStep ==
  ASSUME IInv, Reconcile
  PROVE  IInv'
<1>1. /\ RowsOK /\ now \in Nat /\ covered \in Nat
      /\ provider.end \in Nat /\ provider.end <= covered
      /\ \A i \in Ids : rows[i] \in Row /\ Allowed(rows[i].end)
  BY DEF IInv, ClockOK, ProviderOK, RowsOK, Rows
<1>2. ASSUME UNCHANGED <<now, key, provider, covered, moves, pending, rows, handler, cache, check,
                         hist, faults>>, RecOK'
      PROVE  IInv'
  BY <1>1, <1>2, HandlersRest, SyncAssumption
     DEF IInv, ClockOK, ProviderOK, EventsOK, Within, FromSession, Undated, RowsOK, Allowed, CheckOK
<1>3. CASE RecLoad
  <2>1. PICK i \in Ids : rec' = [pc |-> "fetch", id |-> i, snap |-> rows[i]]
    BY <1>3, Lookups DEF RecLoad
  <2>2. RecOK' BY <1>1, <2>1 DEF RecOK
  <2> QED BY <1>2, <1>3, <2>2 DEF RecLoad
<1>4. CASE RecFetch
  <2>1. rec.pc = "fetch" /\ rec.id \in Ids /\ rec.snap \in Row BY <1>4 DEF RecFetch, IInv, RecOK
  <2>2. \A row : Answers(row) \subseteq {"error", "terminal", "pending", "active"} BY DEF Answers
  <2>3. PICK answer \in Answers(rec.snap) :
          LET advanced == answer = "active" /\ provider.end > rec.snap.end
              verdict == IF answer = "error" \/ (answer = "active" /\ ~advanced)
                         THEN IF now > rec.snap.end + Stale THEN "stale" ELSE "none"
                         ELSE answer
          IN rec' = IF verdict = "none" THEN [pc |-> "idle"]
                    ELSE [pc |-> "write", id |-> rec.id, snap |-> rec.snap, verdict |-> verdict,
                          end |-> provider.end]
    BY <1>4 DEF RecFetch
  <2>4. \/ rec' = [pc |-> "idle"]
        \/ \E verdict \in {"terminal", "pending", "active", "stale"} :
             rec' = [pc |-> "write", id |-> rec.id, snap |-> rec.snap, verdict |-> verdict,
                     end |-> provider.end]
    BY <2>2, <2>3
  <2>5. UNCHANGED covered BY <1>4 DEF RecFetch
  <2>6. RecOK' BY <1>1, <2>1, <2>4, <2>5 DEF RecOK
  <2> QED BY <1>2, <1>4, <2>6 DEF RecFetch
<1>5. CASE RecWrite
  <2> DEFINE new == Reconciled(rows[rec.id])
  <2>1. /\ UNCHANGED <<now, key, provider, covered, moves, pending, handler, check, faults>>
        /\ rec.pc = "write" /\ rec' = [pc |-> "idle"]
        /\ hist' \subseteq hist \cup {"raced"} /\ cache' \in {cache, {}}
        /\ UNCHANGED rows \/ Update(rec.id, new)
    BY <1>5 DEF RecWrite
  <2>2. rec.id \in Ids BY <2>1 DEF IInv, RecOK
  <2>3. new \in Row /\ Allowed(new.end) BY <1>1, <2>1, <2>2, ReconciledTyped
  <2> HIDE DEF new
  <2>4. RowsOK' BY <1>1, <2>1, <2>2, <2>3, RowsSame, RowUpdated
  <2>5. ClockOK' BY <2>1 DEF IInv, ClockOK
  <2>6. CheckOK' BY <2>1 DEF IInv, CheckOK
  <2>7. RecOK' BY <2>1 DEF RecOK
  <2> QED BY <1>1, <2>1, <2>4, <2>5, <2>6, <2>7, HandlersRest, SyncAssumption
          DEF IInv, ProviderOK, EventsOK, Within, FromSession, Undated
<1> QED BY <1>3, <1>4, <1>5 DEF Reconcile

LEMMA TickStep ==
  ASSUME IInv, Tick
  PROVE  IInv'
<1>1. UNCHANGED <<key, provider, covered, moves, pending, rows, handler, check, rec, hist, faults>>
      /\ now' = now + 1 /\ cache' = {} /\ provider.status # "none"
  BY DEF Tick
<1>2. now \in Nat /\ covered \in Nat BY DEF IInv, ClockOK
<1>3. ProviderOK' BY <1>1, <1>2, SyncAssumption DEF IInv, ProviderOK
<1> QED BY <1>1, <1>2, <1>3, HandlersRest, SyncAssumption
        DEF IInv, ClockOK, EventsOK, Within, FromSession, Undated, RowsOK, Allowed, CheckOK, RecOK

LEMMA Stutter == IInv /\ UNCHANGED vars => IInv'
BY HandlersRest, SyncAssumption
   DEF vars, IInv, ClockOK, ProviderOK, EventsOK, Within, FromSession, Undated, RowsOK, Allowed, CheckOK, RecOK

LEMMA Step == IInv /\ [Next]_vars => IInv'
<1> SUFFICES ASSUME IInv, [Next]_vars PROVE IInv' OBVIOUS
<1>1. CASE Provider BY <1>1, ProviderStep
<1>2. CASE Tick BY <1>2, TickStep
<1>3. ASSUME NEW h \in Handlers, Handle(h) PROVE IInv' BY <1>3, HandleStep
<1>4. ASSUME NEW h \in Handlers, NEW e \in pending, Deliver(h, e) PROVE IInv'
  BY <1>4, DeliverStep
<1>5. ASSUME NEW e \in pending, Lose(e) PROVE IInv' BY <1>5, LoseStep
<1>6. CASE Check BY <1>6, CheckStep
<1>7. CASE Reconcile BY <1>7, ReconcileStep
<1>8. CASE UNCHANGED vars BY <1>8, Stutter
<1> QED BY <1>1, <1>2, <1>3, <1>4, <1>5, <1>6, <1>7, <1>8 DEF Next

LEMMA Invariant == Spec => []IInv
BY InitHolds, Step, PTL DEF Spec

(* Whatever the provider, its events, requests and reconciliations do, and *)
(* however often events are lost or repeated, rows, handlers and cache     *)
(* stay well typed.                                                        *)
THEOREM TypeCorrect == Spec => []TypeOK
BY Invariant, IInvImplies, PTL

-----------------------------------------------------------------------------
(* Access follows the provider.  The window of grace is longer than any    *)
(* provider's retries of a failed renewal (dunning.ts:10); and those are   *)
(* over before the next period and its grace would be.                     *)
Retries == Window <= Grace /\ Window <= Period + Stale

(* While every event was handled in order and nothing overtook a write     *)
(* (hist = {}), the customer has one row, the first.                       *)
Sole == rows[1]
Exists == 1 \in Ids /\ Sole.status # "none"

\* The events whose handling has not ended.
Open == pending \cup {handler[h].ev : h \in Working}

\* The events that set the end of the period, and the end they set.
Dated(e) == e.kind = "payment" \/ (e.kind \in {"active", "created"} /\ e.end # Never)
Yield(e) == IF e.kind = "payment" /\ e.by = "plan_id" THEN PaidEnd(e) ELSE e.end
Reaches(e) == Dated(e) => Yield(e) >= provider.end
\* A payment that names the code sets the end of whatever row it meets.
Settles(e) == e.kind = "payment" /\ key # "reference"
\* The event that names the code of the subscription to a customer who has none.
First(e) == e.kind \in {"active", "created"} /\ e.batch = 1

OneRow == \A i \in Ids : i # 1 => rows[i].status = "none"

Times ==
  /\ now >= 1
  /\ Retries /\ provider.status = "active" => now <= provider.end + Stale
  /\ provider.status = "canceling" => now <= provider.end
  /\ provider.status = "past_due" => /\ provider.failed = provider.end /\ provider.end <= now
                                     /\ now <= provider.failed + Window
  /\ moves > 0 => provider.end >= 1
  /\ moves = 0 <=> provider.status = "none"
  /\ moves = 0 => Open = {} /\ ~Exists

\* Handlers are at work on the oldest open events, and one open event is the newest.
InTurn ==
  /\ \A e \in Open : 1 <= e.batch /\ e.batch <= moves
  /\ \A h \in Working : \A e \in Open : handler[h].ev.batch <= e.batch
  /\ Open # {} => \E e \in Open : e.batch = moves

\* What an event says of the provider's last move, if it tells of that one.
Tells(e) ==
  \/ /\ provider.status = "active" /\ e.kind \in {"payment", "active", "created"}
     /\ Reaches(e)
  \/ provider.status = "canceling" /\ e.kind = "not_renew"
  \/ provider.status = "past_due" /\ e.kind = "past_due"
  \/ provider.status = "canceled" /\ e.kind = "canceled"
WellSent(e) ==
  /\ e.paid >= 1
  /\ key # "reference" => e.plan /\ (e.kind = "payment" => e.by = "plan_id")
  /\ e.kind = "created" => /\ e.batch = 1 /\ e.plan
                           /\ key = IF e.end = Never THEN "session" ELSE "reference"
  /\ e.kind = "active" => IF key # "reference" THEN e.end # Never ELSE e.end = Never /\ e.batch > 1
  /\ e.kind = "payment" /\ key = "reference" =>
       IF e.by = "plan_id" THEN e.batch = 1 ELSE e.batch > 1 /\ e.end # Never
  /\ e.batch = 1 => e.kind \in {"payment", "active", "created"}
  /\ e.kind = "canceled" => provider.status = "canceled"
  /\ e.batch = moves => Tells(e)
AllSent == \A e \in Open : WellSent(e)

\* A row is canceled before the provider ends only at the date of its cancellation.
SoleKept ==
  Exists =>
    /\ Sole.end # Never
    /\ Sole.status = "canceled" => Sole.ended
    /\ Sole.ended /\ provider.status # "canceled" => Sole.cancelAt # Never
    /\ key # "reference" => Sole.code = "sub"

Linking == moves > 0 => (Exists /\ Sole.code = "sub") \/ \E e \in Open : First(e)

\* What a handler found stays true until it writes.
Doing(w) ==
  /\ w.pc = "write" =>
       /\ w.id = 1 /\ Exists /\ w.ev.kind # "created" /\ w.snap.end # Never
       /\ w.snap.ended => Sole.ended
       /\ w.ev.kind = "not_renew" /\ w.ev.batch = moves =>
            w.snap.end >= provider.end \/ Sole.ended
  /\ w.pc = "link" => w.ev.kind = "created" /\ w.id = 1 /\ Exists
  /\ w.pc = "insert" =>
       /\ (w.ev.kind = "payment" /\ w.ev.by = "plan_id") \/ First(w.ev)
       /\ w.ev.batch > 1 => w.ev.kind = "payment" /\ Exists
  /\ w.pc = "merge" => w.ev.kind = "payment" /\ w.ev.by = "plan_id" /\ Exists
AllDoing == \A h \in Handlers : handler[h].pc # "idle" => Doing(handler[h])

\* The provider's period has reached the row, or is on its way and not overtaken.
Reached == Exists /\ (Sole.end >= provider.end \/ Sole.ended)
Carries(e) ==
  /\ Dated(e) /\ (e.batch = 1 => ~Exists \/ Settles(e))
  /\ \A f \in Open : f.batch >= e.batch => Reaches(f)
Ends == moves > 0 => \/ \E e \in Open : Carries(e)
                     \/ Reached /\ \A f \in Open : Reaches(f)

\* The row says what the provider says, or the event that does is on its way.
Right ==
  /\ Exists
  /\ \/ /\ provider.status = "active" /\ Reached
        /\ Sole.cancelAt # Never \/ (Sole.status = "active" /\ Sole.end >= provider.end)
     \/ /\ provider.status = "canceling" /\ Reached /\ Sole.status = "pending_cancel"
        /\ Sole.ended \/ Sole.cancelAt >= provider.end
     \/ /\ provider.status = "past_due" /\ Sole.status = "past_due"
        /\ Sole.since # Never \/ Sole.updated >= provider.failed
     \/ provider.status = "canceled" /\ Sole.status = "canceled"
Later == \E e \in Open : e.batch = moves /\ (moves = 1 => ~Exists \/ Settles(e))
Newest == Retries /\ moves > 0 => Right \/ Later

\* Until the first payment is handled there may be no row, or one of an undated event.
FirstPaid ==
  key # "reference" /\ moves > 0 /\ (~Exists \/ Sole.end > covered) => FirstPaymentOpen

Reading ==
  /\ rec.pc # "idle" => rec.id = 1 /\ rec.snap.status = "active" /\ rec.snap.end # Never
  /\ rec.pc = "write" => /\ rec.verdict = "stale" => now > rec.snap.end + Stale
                         /\ rec.verdict = "terminal" => provider.status = "canceled"

Follows ==
  hist = {} => /\ OneRow /\ Times /\ InTurn /\ AllSent /\ SoleKept /\ Linking /\ AllDoing
               /\ Ends /\ Newest /\ FirstPaid /\ Reading

LEMMA OpenTyped ==
  ASSUME IInv
  PROVE  /\ now \in Nat /\ moves \in Nat /\ covered \in Nat /\ key \in {"code", "session", "reference"}
         /\ provider.end \in Nat /\ provider.failed \in Nat /\ Period \in Nat /\ Period >= 1
         /\ Stale \in Nat /\ Grace \in Nat /\ Window \in Nat
         /\ provider.status \in {"none", "active", "canceling", "past_due", "canceled"}
         /\ \A e \in Open : e \in Event /\ e.batch \in Nat /\ e.end \in Nat /\ e.paid \in Nat
         /\ \A i \in Ids : rows[i] \in Row
         /\ 1 \in Ids => Sole \in Row /\ Sole.end \in Nat
<1>1. \A e \in Open : e \in Event BY DEF IInv, EventsOK, HandlersOK, Busy, Open, Working
<1>2. \A e \in Event : e.batch \in Nat /\ e.end \in Nat /\ e.paid \in Nat BY DEF Event
<1>3. \A i \in Ids : rows[i] \in Row /\ rows[i].end \in Nat BY DEF IInv, RowsOK, Rows, Row
<1> QED BY <1>1, <1>2, <1>3, SyncAssumption DEF IInv, ClockOK, ProviderOK, Sole

LEMMA Dues ==
  ASSUME IInv, NEW e \in Open
  PROVE  /\ PaidEnd(e) \in Nat /\ PaidEnd(e) >= e.paid + 1 /\ Yield(e) \in Nat
         /\ e.kind \in Kind /\ e.by \in {"plan_id", "code", "plan"} /\ e.plan \in BOOLEAN
<1>1. e \in Event /\ e.paid \in Nat /\ e.end \in Nat /\ Period \in Nat /\ Period >= 1
  BY OpenTyped
<1> QED BY <1>1 DEF PaidEnd, Yield, Event, Kind

LEMMA FollowsInit == Init => Follows
<1> SUFFICES ASSUME Init PROVE Follows OBVIOUS
<1>1. Working = {} /\ pending = {} BY DEF Init, Working
<1>2. Open = {} BY <1>1 DEF Open
<1>3. \A i \in Ids : rows[i].status = "none" BY DEF Init, NoRow
<1>4. ~Exists BY <1>3 DEF Exists, Sole
<1>5. now = 1 /\ moves = 0 /\ provider.status = "none" /\ provider.failed = 0 /\ rec.pc = "idle"
  BY DEF Init, Never, Start
<1>6. OneRow /\ AllSent /\ SoleKept BY <1>2, <1>3, <1>4 DEF OneRow, AllSent, SoleKept
<1>8. Times BY <1>2, <1>4, <1>5 DEF Times
<1>9. InTurn BY <1>1, <1>2 DEF InTurn
<1>7. \A h \in Handlers : handler[h].pc = "idle" BY DEF Init
<1> QED BY <1>4, <1>5, <1>6, <1>7, <1>8, <1>9 
      DEF Follows, Linking, AllDoing, Ends, Newest, FirstPaid, Reading

(* The provider's moves.  Its events are newer than every other: they      *)
(* change nothing of what the earlier ones say.                            *)
LEMMA MoveOpens ==
  ASSUME IInv, NEW status, NEW end \in Nat, NEW failed, NEW events,
         Move(status, end, failed, events)
  PROVE  /\ Open' = Open \cup events /\ Working' = Working
         /\ provider'.status = status /\ provider'.end = end /\ provider'.failed = failed
         /\ moves' = moves + 1 /\ UNCHANGED <<now, key, rows, handler, rec, hist>>
         /\ UNCHANGED <<Exists, Sole>>
<1>1. /\ UNCHANGED <<now, key, rows, handler, cache, check, rec, hist, faults>>
      /\ moves' = moves + 1 /\ pending' = pending \cup events
      /\ provider' = [status |-> status, end |-> end, failed |-> failed]
  BY DEF Move
<1>2. Working' = Working BY <1>1 DEF Working
<1>3. Open' = Open \cup events BY <1>1, <1>2 DEF Open
<1> QED BY <1>1, <1>2, <1>3 DEF Exists, Sole

LEMMA MoveInTurn ==
  ASSUME IInv, InTurn, NEW events, events # {}, \A e \in events : e.batch = moves + 1,
         Open' = Open \cup events, Working' = Working, moves' = moves + 1, UNCHANGED handler
  PROVE  InTurn'
<1>1. moves \in Nat /\ \A e \in Open : e.batch \in Nat BY OpenTyped
<1>2. \A h \in Working : handler[h].ev \in Open BY DEF Open
<1>3. \A e \in Open' : 1 <= e.batch /\ e.batch <= moves' BY <1>1 DEF InTurn
<1>4. ASSUME NEW h \in Working, NEW e \in Open' PROVE handler[h].ev.batch <= e.batch
  <2>1. CASE e \in Open BY <2>1 DEF InTurn
  <2>2. CASE e \in events BY <1>1, <1>2, <2>2 DEF InTurn
  <2> QED BY <2>1, <2>2
<1> QED BY <1>3, <1>4 DEF InTurn

(* An event sent before the last move stays well formed. *)
LEMMA StillSent ==
  ASSUME IInv, InTurn, NEW e \in Open, WellSent(e), moves' = moves + 1, UNCHANGED key,
         provider.status # "canceled"
  PROVE  WellSent(e)'
<1>1. moves \in Nat /\ e.batch \in Nat /\ e.batch <= moves BY OpenTyped DEF InTurn
<1>2. e.batch # moves' BY <1>1
<1> QED BY <1>2 DEF WellSent

LEMMA MoveDoing ==
  ASSUME IInv, InTurn, AllDoing, moves' = moves + 1, UNCHANGED <<handler, Exists, Sole>>
  PROVE  AllDoing'
<1> SUFFICES ASSUME NEW h \in Handlers, handler[h].pc # "idle"
             PROVE  Doing(handler[h])'
  BY DEF AllDoing
<1> DEFINE w == handler[h]
<1>1. w.ev \in Open BY DEF Open, Working
<1>2. w.ev.batch # moves' BY <1>1, OpenTyped DEF InTurn
<1>3. Doing(w) BY DEF AllDoing
<1> QED BY <1>2, <1>3 DEF Doing

(* What every move keeps; what is left is what its own events tell.        *)
LEMMA Moves ==
  ASSUME IInv, Follows, hist = {}, NEW status, NEW end \in Nat, NEW failed, NEW events,
         Move(status, end, failed, events), events # {}, \A e \in events : e.batch = moves + 1,
         provider.status # "canceled",
         moves = 0 => /\ \E e \in events : First(e)
                      /\ \E e \in events : e.kind = "payment",
         covered' \in Nat, covered <= covered', Times', \A e \in events : WellSent(e)', Ends'
  PROVE  Follows'
<1>1. /\ Open' = Open \cup events /\ Working' = Working
      /\ provider'.status = status /\ provider'.end = end /\ provider'.failed = failed
      /\ moves' = moves + 1 /\ UNCHANGED <<now, key, rows, handler, rec, hist>>
      /\ UNCHANGED <<Exists, Sole>>
  BY MoveOpens
<1>2. OneRow /\ Times /\ InTurn /\ AllSent /\ SoleKept /\ Linking /\ AllDoing /\ Ends /\ Newest
      /\ FirstPaid /\ Reading /\ moves \in Nat
  BY OpenTyped DEF Follows
<1>3. OneRow' BY <1>1, <1>2 DEF OneRow
<1>4. InTurn' BY <1>1, <1>2, MoveInTurn
<1>5. AllSent'
  <2>1. ASSUME NEW e \in Open PROVE WellSent(e)' BY <1>1, <1>2, StillSent DEF AllSent
  <2> QED BY <1>1, <2>1 DEF AllSent
<1>6. SoleKept' BY <1>1, <1>2 DEF SoleKept
<1>7. Linking' BY <1>1, <1>2 DEF Linking
<1>8. AllDoing' BY <1>1, <1>2, MoveDoing
<1>9. Newest' BY <1>1, <1>2 DEF Newest, Later, Times
<1>10. Reading' BY <1>1, <1>2 DEF Reading
<1>11. FirstPaid'
  <2> SUFFICES ASSUME key # "reference", ~Exists \/ Sole.end > covered'
               PROVE  FirstPaymentOpen'
    BY <1>1 DEF FirstPaid
  <2>1. FirstPaymentOpen' <=> \E e \in Open' : e.kind = "payment" /\ e.batch = 1
    BY DEF FirstPaymentOpen, Open
  <2>2. CASE moves = 0 BY <1>1, <2>1, <2>2
  <2>3. CASE moves > 0
    <3>1. Exists => Sole.end \in Nat BY OpenTyped DEF Exists
    <3>2. ~Exists \/ Sole.end > covered BY <3>1, OpenTyped
    <3>3. FirstPaymentOpen BY <1>2, <2>3, <3>2 DEF FirstPaid
    <3> QED BY <1>1, <2>1, <3>3 DEF FirstPaymentOpen, Open
  <2> QED BY <1>2, <2>2, <2>3
<1> QED BY <1>3, <1>4, <1>5, <1>6, <1>7, <1>8, <1>9, <1>10, <1>11 DEF Follows

LEMMA EndsPaid ==
  ASSUME IInv, InTurn, NEW events, NEW e \in events, Open' = Open \cup events,
         \A f \in events : f.batch = moves + 1 /\ Reaches(f)', Dated(e),
         moves = 0 => ~Exists', moves' = moves + 1
  PROVE  Ends'
<1>1. moves \in Nat /\ \A f \in Open : f.batch \in Nat /\ f.batch <= moves BY OpenTyped DEF InTurn
<1>2. ASSUME NEW f \in Open', f.batch >= e.batch PROVE Reaches(f)'
  <2>1. f \notin Open BY <1>1, <1>2
  <2> QED BY <2>1
<1>3. e.batch = 1 => ~Exists' BY <1>1
<1>4. Carries(e)' BY <1>2, <1>3 DEF Carries, Dated
<1> QED BY <1>4 DEF Ends

LEMMA EndsMoved ==
  ASSUME Ends, moves > 0, NEW events, Open' = Open \cup events, provider'.end = provider.end,
         UNCHANGED <<Exists, Sole, key>>, \A f \in events : Reaches(f)'
  PROVE  Ends'
<1>1. ASSUME NEW f \in Open PROVE Reaches(f) => Reaches(f)' BY DEF Reaches, Dated, Yield, PaidEnd
<1>2. ASSUME NEW e \in Open, Carries(e) PROVE Carries(e)'
  BY <1>1, <1>2 DEF Carries, Dated, Settles
<1>3. Reached => Reached' BY DEF Reached
<1> QED BY <1>1, <1>2, <1>3 DEF Ends

(* The first payment, and the event of the subscription that it opens.     *)
LEMMA FollowsFirst ==
  ASSUME IInv, Follows, hist = {}, provider.status = "none",
         NEW events, NEW p \in events, NEW q \in events, Move("active", now + Period, 0, events),
         p.kind = "payment", q.kind # "payment",
         \A e \in events :
           /\ e.batch = moves + 1 /\ e.paid = now /\ e.plan
           /\ \/ e.kind = "payment" /\ e.by = "plan_id"
              \/ e.kind = "active" /\ e.end = now + Period /\ key # "reference"
              \/ e.kind = "created" /\ e.end = now + Period /\ key = "reference"
              \/ e.kind = "created" /\ e.end = 0 /\ key = "session",
         covered' \in Nat, covered <= covered'
  PROVE  Follows'
<1> USE DEF Never
<1> DEFINE end == now + Period
<1>1. InTurn /\ Times BY DEF Follows
<1>2. /\ now \in Nat /\ now >= 1 /\ Period \in Nat /\ Period >= 1 /\ Stale \in Nat /\ moves = 0
      /\ ~Exists /\ end \in Nat /\ end # 0 /\ key \in {"code", "session", "reference"}
  BY <1>1, OpenTyped DEF Times
<1> HIDE DEF end
<1>3. /\ Open' = Open \cup events /\ provider'.status = "active" /\ provider'.end = end
      /\ provider'.failed = 0 /\ moves' = moves + 1 /\ UNCHANGED <<now, key, Exists>>
  BY <1>2, MoveOpens DEF end
<1>4. Times' BY <1>2, <1>3 DEF Times, end
<1>5. ASSUME NEW e \in events PROVE Reaches(e)'
  BY <1>2, <1>3 DEF Reaches, Dated, Yield, PaidEnd, end
<1>6. \A e \in events : e.batch = 1 BY <1>2
<1>7. ASSUME NEW e \in events PROVE WellSent(e)'
  BY <1>2, <1>3, <1>5, <1>6 DEF WellSent, Tells, end
<1>8. Dated(p) BY DEF Dated
<1>9. Ends' BY <1>1, <1>2, <1>3, <1>5, <1>8, EndsPaid
<1>10. First(q) BY <1>6 DEF First
<1> QED BY <1>2, <1>4, <1>7, <1>9, <1>10, Moves DEF end

LEMMA FollowsBegin ==
  ASSUME IInv, Follows, hist = {}, Begin
  PROVE  Follows'
<1> USE DEF Never
<1> PICK e1 : e1 = Send("payment", "plan_id", 0, TRUE) OBVIOUS
<1> PICK e2 : e2 = Announced OBVIOUS
<1> PICK events : events = {e1, e2} OBVIOUS
<1>1. key \in {"code", "session", "reference"} BY OpenTyped
<1>2. /\ e1.kind = "payment" /\ e1.by = "plan_id" /\ e1.paid = now /\ e1.plan
      /\ e1.batch = moves + 1
  BY DEF Send
<1>3. /\ e2.plan /\ e2.batch = moves + 1 /\ e2.paid = now
      /\ \/ e2.kind = "active" /\ e2.end = now + Period /\ key = "code"
         \/ e2.kind = "created" /\ e2.end = now + Period /\ key = "reference"
         \/ e2.kind = "created" /\ e2.end = 0 /\ key = "session"
  <2>1. CASE key = "code"
    <3>1. e2 = Send("active", "code", now + Period, TRUE) BY <2>1 DEF Announced
    <3> QED BY <2>1, <3>1 DEF Send
  <2>2. CASE key = "session"
    <3>1. e2 = Send("created", "code", 0, TRUE) BY <2>2 DEF Announced
    <3> QED BY <2>2, <3>1 DEF Send
  <2>3. CASE key = "reference"
    <3>1. e2 = Send("created", "code", now + Period, TRUE) BY <2>3 DEF Announced
    <3> QED BY <2>3, <3>1 DEF Send
  <2> QED BY <1>1, <2>1, <2>2, <2>3
<1>4. \A e \in events :
        /\ e.batch = moves + 1 /\ e.paid = now /\ e.plan
        /\ \/ e.kind = "payment" /\ e.by = "plan_id"
           \/ e.kind = "active" /\ e.end = now + Period /\ key # "reference"
           \/ e.kind = "created" /\ e.end = now + Period /\ key = "reference"
           \/ e.kind = "created" /\ e.end = 0 /\ key = "session"
  BY <1>2, <1>3
<1>5. e1 \in events /\ e2 \in events /\ e2.kind # "payment" BY <1>3
<1>6. Move("active", now + Period, 0, events) /\ provider.status = "none" BY DEF Begin
<1>7. covered' \in Nat /\ covered <= covered'
  <2>1. /\ now + Period \in Nat /\ ClockOK /\ ProviderOK /\ Pays(now + Period)
        /\ provider.end <= now + Period
    BY OpenTyped DEF Begin, IInv, ProviderOK
  <2> QED BY <2>1, Covers
<1> QED BY <1>2, <1>4, <1>5, <1>6, <1>7, FollowsFirst

(* A payment or a recovery, and the events that tell of it.                *)
LEMMA FollowsPaid ==
  ASSUME IInv, Follows, hist = {}, provider.status \in {"active", "past_due"},
         Retries => now <= provider.end + Period + Stale, provider.end <= now,
         NEW events, NEW p \in events, Move("active", provider.end + Period, 0, events),
         p.kind = "payment",
         \A e \in events :
           /\ e.batch = moves + 1 /\ e.paid = now /\ e.plan
           /\ \/ e.kind = "payment" /\ e.by = "plan_id" /\ key # "reference"
              \/ e.kind = "active" /\ e.end = provider.end + Period /\ key # "reference"
              \/ e.kind = "payment" /\ e.by \in {"code", "plan"}
                 /\ e.end = provider.end + Period /\ key = "reference",
         covered' \in Nat, covered <= covered'
  PROVE  Follows'
<1> USE DEF Never
<1> DEFINE end == provider.end + Period
<1>1. InTurn /\ Times BY DEF Follows
<1>2. /\ now \in Nat /\ now >= 1 /\ Period \in Nat /\ Period >= 1 /\ moves \in Nat /\ moves # 0
      /\ Stale \in Nat /\ provider.end \in Nat /\ end \in Nat /\ end # 0 /\ now + Period >= end
      /\ key \in {"code", "session", "reference"}
  BY <1>1, OpenTyped DEF Times
<1> HIDE DEF end
<1>3. /\ Open' = Open \cup events /\ provider'.status = "active" /\ provider'.end = end
      /\ provider'.failed = 0 /\ moves' = moves + 1 /\ UNCHANGED <<now, key>>
  BY <1>2, MoveOpens DEF end
<1>4. Times' BY <1>2, <1>3 DEF Times, end
<1>5. ASSUME NEW e \in events PROVE Reaches(e)'
  BY <1>2, <1>3 DEF Reaches, Dated, Yield, PaidEnd, end
<1>6. ASSUME NEW e \in events PROVE WellSent(e)'
  BY <1>2, <1>3, <1>5 DEF WellSent, Tells, end
<1>7. Dated(p) BY DEF Dated
<1>8. Ends' BY <1>1, <1>2, <1>3, <1>5, <1>7, EndsPaid
<1> QED BY <1>2, <1>4, <1>6, <1>8, Moves DEF end

LEMMA RenewalSent ==
  ASSUME IInv, NEW end, key # "reference"
  PROVE  /\ \E p \in Renewal(end) : p.kind = "payment"
         /\ \A e \in Renewal(end) :
              /\ e.batch = moves + 1 /\ e.paid = now /\ e.plan
              /\ \/ e.kind = "payment" /\ e.by = "plan_id"
                 \/ e.kind = "active" /\ e.end = end
<1> PICK e1 : e1 = Send("payment", "plan_id", Never, TRUE) OBVIOUS
<1> PICK e2 : e2 = Send("active", "code", end, TRUE) OBVIOUS
<1>1. Renewal(end) = {e1, e2} BY DEF Renewal
<1>2. /\ e1.kind = "payment" /\ e1.by = "plan_id" /\ e1.paid = now /\ e1.plan
      /\ e1.batch = moves + 1
  BY DEF Send
<1>3. e2.kind = "active" /\ e2.end = end /\ e2.paid = now /\ e2.plan /\ e2.batch = moves + 1
  BY DEF Send
<1> QED BY <1>1, <1>2, <1>3

LEMMA FollowsRenew ==
  ASSUME IInv, Follows, hist = {}, Renew \/ Recover
  PROVE  Follows'
<1> USE DEF Never
<1> DEFINE end == provider.end + Period
<1>1. /\ now \in Nat /\ Period \in Nat /\ Stale \in Nat /\ Window \in Nat /\ provider.end \in Nat
      /\ moves \in Nat /\ key \in {"code", "session", "reference"} /\ Times
  BY OpenTyped DEF Follows
<1>2. provider.status \in {"active", "past_due"} /\ provider.end <= now
  BY <1>1 DEF Renew, Recover, Times
<1>0. covered' \in Nat /\ covered <= covered'
  <2>1. end \in Nat /\ provider.end <= end /\ ClockOK /\ ProviderOK /\ Pays(end)
    BY <1>1 DEF IInv, Renew, Recover
  <2> HIDE DEF end
  <2> QED BY <2>1, Covers
<1>3. CASE (Retries => now <= end + Stale) /\ key # "reference" /\ Move("active", end, 0, Renewal(end))
  <2>1. /\ \E p \in Renewal(end) : p.kind = "payment"
        /\ \A e \in Renewal(end) : /\ e.batch = moves + 1 /\ e.paid = now /\ e.plan
                                   /\ \/ e.kind = "payment" /\ e.by = "plan_id"
                                      \/ e.kind = "active" /\ e.end = end
    BY <1>3, RenewalSent
  <2> QED BY <1>0, <1>2, <1>3, <2>1, FollowsPaid
<1>4. ASSUME Retries => now <= end + Stale, key = "reference", NEW by \in {"code", "plan"},
             Move("active", end, 0, {Send("payment", by, end, TRUE)})
      PROVE  Follows'
  <2> PICK e : e = Send("payment", by, end, TRUE) OBVIOUS
  <2>1. /\ e.kind = "payment" /\ e.by = by /\ e.end = end /\ e.paid = now /\ e.plan
        /\ e.batch = moves + 1
    BY DEF Send
  <2> PICK events : events = {e} OBVIOUS
  <2>2. Move("active", end, 0, events) /\ e \in events BY <1>4
  <2>3. \A f \in events :
          /\ f.batch = moves + 1 /\ f.paid = now /\ f.plan /\ f.kind = "payment"
          /\ f.by \in {"code", "plan"} /\ f.end = end /\ key = "reference"
    BY <1>4, <2>1
  <2> QED BY <1>0, <1>2, <1>4, <2>1, <2>2, <2>3, FollowsPaid
<1>5. CASE Renew
  <2>1. Retries => now <= end + Stale BY <1>1, <1>5 DEF Renew
  <2> QED BY <1>3, <1>4, <1>5, <2>1 DEF Renew
<1>6. CASE Recover
  <2>1. Retries => now <= end + Stale BY <1>1, <1>6 DEF Recover, Times, Retries
  <2>2. CASE key # "reference" BY <1>3, <1>6, <2>1, <2>2 DEF Recover
  <2>3. CASE key = "reference" BY <1>4, <1>6, <2>1, <2>3 DEF Recover
  <2> QED BY <1>1, <2>2, <2>3
<1> QED BY <1>5, <1>6

(* A move that leaves the period as it is, told by one event.              *)
LEMMA FollowsTold ==
  ASSUME IInv, Follows, hist = {}, UNCHANGED covered,
         provider.status \in {"active", "canceling", "past_due"},
         NEW status \in {"active", "canceling", "past_due", "canceled"}, NEW failed \in Nat,
         NEW sort, NEW end,
         Move(status, provider.end, failed, {Send(sort, "code", end, key # "reference")}),
         \/ status = "active" /\ sort = "active" /\ now <= provider.end
            /\ end = (IF key # "reference" THEN provider.end ELSE Never)
         \/ status = "canceling" /\ sort = "not_renew" /\ now <= provider.end
         \/ status = "past_due" /\ sort = "past_due" /\ now = provider.end /\ failed = now
         \/ status = "canceled" /\ sort = "canceled"
  PROVE  Follows'
<1> USE DEF Never
<1> PICK e : e = Send(sort, "code", end, key # "reference") OBVIOUS
<1> PICK events : events = {e} OBVIOUS
<1>1. InTurn /\ Times /\ Ends BY DEF Follows
<1>2. /\ now \in Nat /\ now >= 1 /\ moves \in Nat /\ moves # 0 /\ moves > 0 /\ Stale \in Nat
      /\ Window \in Nat /\ provider.end \in Nat /\ provider.end >= 1 /\ provider.end # 0
      /\ key \in {"code", "session", "reference"}
  BY <1>1, OpenTyped DEF Times
<1>3. /\ e.kind = sort /\ e.by = "code" /\ e.end = end /\ e.paid = now /\ e.batch = moves + 1
      /\ e.plan = (key # "reference")
  BY DEF Send
<1>4. Move(status, provider.end, failed, events) BY DEF Send
<1>5. /\ Open' = Open \cup events /\ provider'.status = status /\ provider'.end = provider.end
      /\ provider'.failed = failed /\ moves' = moves + 1 /\ UNCHANGED <<now, key, Exists, Sole>>
  BY <1>2, <1>4, MoveOpens
<1>6. Times'
  <2>1. moves' > 0 /\ moves' # 0 BY <1>2, <1>5
  <2>2. provider'.status = "active" => now' <= provider'.end + Stale BY <1>2, <1>5
  <2>3. provider'.status = "past_due" =>
          /\ provider'.failed = provider'.end /\ provider'.end <= now'
          /\ now' <= provider'.failed + Window'
    BY <1>2, <1>5
  <2>4. provider'.status = "canceling" => now' <= provider'.end BY <1>5
  <2> QED BY <1>2, <1>5, <2>1, <2>2, <2>3, <2>4 DEF Times
<1>7. e.kind \in {"active", "past_due", "not_renew", "canceled"} /\ e.kind # "payment"
      /\ e.kind # "created"
  BY <1>3
<1>8. Reaches(e)'
  <2>1. Dated(e) => Yield(e) >= provider.end BY <1>2, <1>3, <1>7 DEF Dated, Yield
  <2> QED BY <1>5, <2>1 DEF Reaches, Dated, Yield, PaidEnd
<1>9. WellSent(e)'
  <2>1. Tells(e)' BY <1>3, <1>5, <1>8 DEF Tells
  <2>2. e.batch # 1 /\ e.batch > 1 BY <1>2, <1>3
  <2>3. e.kind = "active" => (key # "reference" => e.end # 0) /\ (key = "reference" => e.end = 0)
    BY <1>2, <1>3
  <2>4. e.kind = "canceled" => provider'.status = "canceled" BY <1>3, <1>5
  <2> QED BY <1>2, <1>3, <1>5, <1>7, <2>1, <2>2, <2>3, <2>4 DEF WellSent
<1>10. Ends' BY <1>1, <1>2, <1>5, <1>8, EndsMoved
<1>11. covered \in Nat BY OpenTyped
<1> QED BY <1>2, <1>3, <1>4, <1>6, <1>9, <1>10, <1>11, Moves

LEMMA FollowsMoves ==
  ASSUME IInv, Follows, hist = {}, Provider
  PROVE  Follows'
<1> USE DEF Never
<1>1. /\ now \in Nat /\ provider.end \in Nat /\ provider.failed \in Nat /\ Stale \in Nat
      /\ Window \in Nat /\ Times /\ now >= 1 /\ 0 <= now
  BY OpenTyped DEF Follows, Times
<1>2. CASE RenewalFails BY <1>1, <1>2, FollowsTold DEF RenewalFails
<1>3. CASE CancelAtEnd BY <1>1, <1>3, FollowsTold DEF CancelAtEnd
<1>4. CASE Uncancel
  <2> PICK end : end = (IF key # "reference" THEN provider.end ELSE 0) OBVIOUS
  <2>1. Move("active", provider.end, 0, {Send("active", "code", end, key # "reference")})
        /\ provider.status = "canceling" /\ now <= provider.end /\ UNCHANGED covered
    BY <1>1, <1>4 DEF Uncancel
  <2> QED BY <1>1, <2>1, FollowsTold
<1>5. CASE End BY <1>1, <1>5, FollowsTold DEF End
<1> QED BY <1>2, <1>3, <1>4, <1>5, FollowsBegin, FollowsRenew DEF Provider

(* A step of a handler, a request or the reconciliation: the provider      *)
(* stays where it is, and at most one event, an oldest one, is handled.    *)
LEMMA TurnKept ==
  ASSUME IInv, InTurn, UNCHANGED moves, NEW e \in Open, Open' \subseteq Open,
         \A f \in Open : f # e => f \in Open', \A f \in Open : e.batch <= f.batch,
         \A h \in Working' : \A f \in Open : handler'[h].ev.batch <= f.batch
  PROVE  InTurn'
<1>1. moves \in Nat /\ \A f \in Open : f.batch \in Nat /\ f.batch <= moves BY OpenTyped DEF InTurn
<1>2. ASSUME Open' # {} PROVE \E f \in Open' : f.batch = moves
  <2>1. CASE e.batch = moves BY <1>1, <1>2, <2>1
  <2>2. CASE e.batch # moves BY <2>2 DEF InTurn
  <2> QED BY <2>1, <2>2
<1> QED BY <1>1, <1>2 DEF InTurn

LEMMA DoingKept ==
  ASSUME AllDoing, UNCHANGED <<provider, moves>>, Exists => Exists' /\ (Sole.ended => Sole'.ended),
         \A h \in Handlers : handler'[h].pc # "idle" =>
           handler[h].pc # "idle" /\ handler'[h] = handler[h]
  PROVE  AllDoing'
<1> SUFFICES ASSUME NEW h \in Handlers, handler'[h].pc # "idle" PROVE Doing(handler[h])'
  BY DEF AllDoing
<1> PICK w : w = handler[h] OBVIOUS
<1>1. Doing(w) /\ handler'[h] = w BY DEF AllDoing
<1>2. Doing(w)' BY <1>1 DEF Doing
<1> QED BY <1>1, <1>2 DEF Doing

LEMMA EndsKept ==
  ASSUME Ends, UNCHANGED <<provider, moves, key>>, Open' \subseteq Open, Reached => Reached',
         Exists' => Exists,
         \A e \in Open : Carries(e) /\ e \notin Open' =>
           Reached' /\ \A f \in Open : f.batch >= e.batch
  PROVE  Ends'
<1>1. ASSUME NEW f, Reaches(f) PROVE Reaches(f)' BY <1>1 DEF Reaches, Dated, Yield, PaidEnd
<1>2. ASSUME NEW e \in Open', Carries(e) PROVE Carries(e)'
  BY <1>1, <1>2 DEF Carries, Dated, Settles
<1>3. ASSUME NEW e \in Open, Carries(e), e \notin Open' PROVE \A f \in Open : Reaches(f)
  BY <1>3 DEF Carries
<1> QED BY <1>1, <1>2, <1>3 DEF Ends

LEMMA EndsSet ==
  ASSUME IInv, Ends, UNCHANGED <<provider, moves>>, NEW e \in Open, Open' \subseteq Open,
         \A f \in Open : f # e => f \in Open', \A f \in Open : e.batch <= f.batch,
         1 <= e.batch, Dated(e), Exists', Sole'.end = Yield(e)
  PROVE  Ends'
<1>1. ASSUME NEW f, Reaches(f) PROVE Reaches(f)' BY <1>1 DEF Reaches, Dated, Yield, PaidEnd
<1>2. \A f \in Open : f.batch \in Nat BY OpenTyped
<1>3. ASSUME \A f \in Open : Reaches(f) PROVE Ends'
  <2>1. Yield(e) >= provider.end BY <1>3 DEF Reaches
  <2>2. Reached' BY <2>1 DEF Reached
  <2> QED BY <1>1, <1>3, <2>2 DEF Ends
<1>4. ASSUME NEW c \in Open, Carries(c), moves > 0 PROVE Ends'
  <2>1. CASE c.batch <= e.batch
    <3>1. \A f \in Open : f.batch >= c.batch BY <1>2, <2>1
    <3> QED BY <1>3, <1>4, <3>1 DEF Carries
  <2>2. CASE ~(c.batch <= e.batch)
    <3>1. c \in Open' BY <1>2, <2>2
    <3>2. c.batch # 1 BY <1>2, <2>2
    <3> QED BY <1>1, <1>4, <3>1, <3>2 DEF Ends, Carries, Dated
  <2> QED BY <2>1, <2>2
<1> QED BY <1>3, <1>4 DEF Ends

\* A row without a date: the payment that sets its end is still open.
LEMMA EndsMade ==
  ASSUME IInv, InTurn, Ends, UNCHANGED <<provider, moves, key>>, NEW e \in Open, Open' \subseteq Open,
         \A f \in Open : f # e => f \in Open', ~Dated(e), ~Exists,
         NEW p \in Open, p.batch = 1, Settles(p)
  PROVE  Ends'
<1>1. ASSUME NEW f, Reaches(f) PROVE Reaches(f)' BY <1>1 DEF Reaches, Dated, Yield, PaidEnd
<1>2. \A f \in Open : f.batch \in Nat /\ 1 <= f.batch BY OpenTyped DEF InTurn
<1>3. p \in Open' /\ Dated(p)' /\ Settles(p)' BY DEF Settles, Dated
<1> SUFFICES ASSUME moves > 0 PROVE Ends' BY DEF Ends
<1>4. PICK c \in Open : Carries(c) BY DEF Ends, Reached
<1>5. CASE c.batch = 1
  <2>1. \A f \in Open' : Reaches(f)' BY <1>1, <1>2, <1>4, <1>5 DEF Carries
  <2>2. Carries(p)' BY <1>3, <2>1 DEF Carries
  <2> QED BY <1>3, <2>2 DEF Ends
<1>6. CASE c.batch # 1
  <2>1. c \in Open' BY <1>4 DEF Carries
  <2>2. Carries(c)' BY <1>1, <1>4, <1>6 DEF Carries, Dated
  <2> QED BY <2>1, <2>2 DEF Ends
<1> QED BY <1>5, <1>6

(* What is left to show of a step that ends the handling of an event.      *)
LEMMA Handles ==
  ASSUME IInv, Follows, hist = {}, UNCHANGED <<now, key, provider, covered, moves, rec>>, NEW e \in Open,
         Open' \subseteq Open, \A f \in Open : f # e => f \in Open',
         \A f \in Open : e.batch <= f.batch,
         \A h \in Working' : \A f \in Open : handler'[h].ev.batch <= f.batch,
         OneRow', SoleKept', AllDoing', Ends',
         Exists => Exists' /\ (Sole.code = "sub" => Sole'.code = "sub"),
         First(e) => Exists' /\ Sole'.code = "sub",
         Settles(e) => Exists' /\ ~(Sole'.end > covered),
         Exists' /\ Sole'.end > covered => ~Exists \/ Sole.end > covered,
         Retries /\ e.batch = moves => Right' \/ Later'
  PROVE  Follows'
<1>1. OneRow /\ Times /\ InTurn /\ AllSent /\ SoleKept /\ Linking /\ AllDoing /\ Ends /\ Newest
      /\ FirstPaid /\ Reading
  BY DEF Follows
<1>2. moves \in Nat /\ e.batch \in Nat /\ moves # 0 /\ 1 <= e.batch /\ e.batch <= moves
  BY <1>1, OpenTyped DEF Times, InTurn
<1>3. Times' BY <1>1, <1>2 DEF Times
<1>4. InTurn' BY <1>1, TurnKept
<1>5. AllSent' BY <1>1 DEF AllSent, WellSent, Tells, Reaches, Dated, Yield, PaidEnd
<1>6. Linking' BY <1>1 DEF Linking, First
<1>7. Newest'
  <2>1. CASE e.batch = moves BY <1>2, <2>1 DEF Newest
  <2>2. CASE e.batch # moves
    <3>1. PICK f \in Open : f.batch = moves BY <1>1 DEF InTurn
    <3>2. f \in Open' BY <2>2, <3>1
    <3>3. moves # 1 BY <1>2, <2>2
    <3> QED BY <3>1, <3>2, <3>3 DEF Newest, Later
  <2> QED BY <2>1, <2>2
<1>8. Reading' BY <1>1 DEF Reading
<1>9. FirstPaid'
  <2> SUFFICES ASSUME key # "reference", moves > 0, ~Exists' \/ Sole'.end > covered
               PROVE  FirstPaymentOpen'
    BY DEF FirstPaid
  <2>1. ~Settles(e) OBVIOUS
  <2>2. ~Exists \/ Sole.end > covered OBVIOUS
  <2>3. PICK p \in Open : p.kind = "payment" /\ p.batch = 1
    BY <1>1, <2>2 DEF FirstPaid, FirstPaymentOpen, Open
  <2>4. p \in Open' BY <2>1, <2>3 DEF Settles
  <2> QED BY <2>3, <2>4 DEF FirstPaymentOpen, Open
<1> QED BY <1>3, <1>4, <1>5, <1>6, <1>7, <1>8, <1>9 DEF Follows

(* What the lookups of a handler find of the one row.                      *)
LEMMA Lookup ==
  ASSUME IInv, OneRow
  PROVE  /\ \A statuses \in SUBSET (Live \cup {"canceled"}) :
              \A i : i \in Found(statuses) <=> i = 1 /\ Exists /\ Sole.status \in statuses
         /\ \A code : \A i : i \in ByCode(code) <=> i = 1 /\ Exists /\ Sole.code = code
         /\ Best \subseteq Found(Live)
         /\ Exists => Sole.status \in Live \cup {"canceled"}
<1>1. \A i \in Ids : rows[i] \in Row BY OpenTyped
<1>2. "none" \notin Live \cup {"canceled"} BY DEF Live
<1>3. Exists => Sole.status \in Live \cup {"canceled"} BY <1>1 DEF Exists, Sole, Row
<1>4. ASSUME NEW statuses \in SUBSET (Live \cup {"canceled"}), NEW i
      PROVE  i \in Found(statuses) <=> i = 1 /\ Exists /\ Sole.status \in statuses
  BY <1>2 DEF Found, OneRow, Exists, Sole
<1>5. ASSUME NEW code, NEW i PROVE i \in ByCode(code) <=> i = 1 /\ Exists /\ Sole.code = code
  <2>1. Live \cup {"canceled"} \in SUBSET (Live \cup {"canceled"}) OBVIOUS
  <2>2. i \in Found(Live \cup {"canceled"}) <=> i = 1 /\ Exists BY <1>3, <1>4, <2>1
  <2> QED BY <2>2 DEF ByCode, Sole
<1>6. Best \subseteq Found(Live) BY DEF Best
<1> QED BY <1>3, <1>4, <1>5, <1>6

LEMMA Delivered ==
  ASSUME IInv, InTurn, NEW h \in Handlers, NEW e \in pending, Deliver(h, e), hist' = {}
  PROVE  /\ hist = {} /\ e \in Open /\ Look(h, e) /\ handler[h].pc = "idle"
         /\ UNCHANGED <<now, key, provider, covered, moves, rows, rec>>
         /\ pending' \subseteq pending /\ \A f \in pending : f # e => f \in pending'
         /\ \A f \in Open : e.batch <= f.batch
<1>1. /\ Look(h, e) /\ handler[h].pc = "idle" /\ UNCHANGED <<now, key, provider, covered, moves, rows, rec>>
      /\ pending' \subseteq pending /\ \A f \in pending : f # e => f \in pending'
      /\ hist = {} /\ InOrder(e)
  BY DEF Deliver
<1>2. e \in Open /\ \A f \in Open : f.batch \in Nat BY OpenTyped DEF Open
<1>3. ASSUME NEW f \in Open PROVE e.batch <= f.batch
  <2>1. CASE f \in pending BY <1>1, <1>2, <2>1 DEF InOrder
  <2>2. ASSUME NEW g \in Working, f = handler[g].ev PROVE e.batch <= f.batch
    BY <1>1, <1>2, <2>2 DEF InOrder
  <2> QED BY <2>1, <2>2 DEF Open
<1> QED BY <1>1, <1>2, <1>3

(* A handler begins, or goes on: what it found is what the row is.         *)
LEMMA FollowsGo ==
  ASSUME IInv, Follows, hist = {}, UNCHANGED <<now, key, provider, covered, moves, rows, rec>>,
         NEW h \in Handlers, NEW e \in Open,
         IF handler[h].pc = "idle" THEN e \in pending ELSE handler[h].ev = e,
         NEW w, w.pc # "idle", w.ev = e, handler' = [handler EXCEPT ![h] = w], Doing(w),
         \A f \in Open : e.batch <= f.batch,
         pending' \subseteq pending, \A f \in pending : f # e => f \in pending'
  PROVE  Follows'
<1>1. OneRow /\ Times /\ InTurn /\ AllSent /\ SoleKept /\ Linking /\ AllDoing /\ Ends /\ Newest
      /\ FirstPaid /\ Reading
  BY DEF Follows
<1>2. handler'[h] = w /\ \A g \in Handlers : g # h => handler'[g] = handler[g]
  BY DEF IInv, HandlersOK
<1>3. Working' = Working \cup {h} BY <1>2 DEF Working
<1>4. Open' = Open
  <2>1. ASSUME NEW f \in Open' PROVE f \in Open
    BY <1>2, <1>3, <2>1 DEF Open
  <2>2. e \in Open' BY <1>2, <1>3 DEF Open
  <2>3. ASSUME NEW f \in Open, f # e PROVE f \in Open'
    <3>1. CASE f \in pending BY <2>3, <3>1 DEF Open
    <3>2. ASSUME NEW g \in Working, f = handler[g].ev PROVE f \in Open'
      <4>1. g # h BY <2>3, <3>2 DEF Working
      <4> QED BY <1>2, <1>3, <3>2, <4>1 DEF Open, Working
    <3> QED BY <3>1, <3>2 DEF Open
  <2> QED BY <2>1, <2>2, <2>3
<1>5. UNCHANGED <<Exists, Sole>> BY DEF Exists, Sole
<1>6. InTurn'
  <2>1. \A g \in Working' : \A f \in Open : handler'[g].ev.batch <= f.batch
    BY <1>1, <1>2, <1>3 DEF InTurn, Working
  <2> QED BY <1>1, <1>4, <2>1 DEF InTurn
<1>7. AllDoing'
  <2> SUFFICES ASSUME NEW g \in Handlers, handler'[g].pc # "idle" PROVE Doing(handler[g])'
    BY DEF AllDoing
  <2> PICK v : v = handler'[g] OBVIOUS
  <2>1. Doing(v) BY <1>1, <1>2 DEF AllDoing
  <2>2. Doing(v)' BY <1>5, <2>1 DEF Doing
  <2> QED BY <2>2 DEF Doing
<1>8. OneRow' /\ Times' /\ SoleKept' /\ Linking' /\ Reading'
  BY <1>1, <1>4, <1>5 DEF OneRow, Times, SoleKept, Linking, Reading, First
<1>9. AllSent' BY <1>1, <1>4 DEF AllSent, WellSent, Tells, Reaches, Dated, Yield, PaidEnd
<1>10. Ends' BY <1>1, <1>4, <1>5 DEF Ends, Reached, Carries, Settles, Reaches, Dated, Yield, PaidEnd
<1>11. Newest' BY <1>1, <1>4, <1>5 DEF Newest, Later, Settles, Right, Reached
<1>12. FirstPaid' BY <1>1, <1>4, <1>5 DEF FirstPaid, FirstPaymentOpen, Open
<1> QED BY <1>6, <1>7, <1>8, <1>9, <1>10, <1>11, <1>12 DEF Follows

(* Behind the first events the row exists and has the code.                *)
LEMMA Linkeds ==
  ASSUME IInv, Follows, hist = {}, NEW e \in Open, \A f \in Open : e.batch <= f.batch
  PROVE  /\ 1 <= e.batch /\ moves > 0 /\ e.batch \in Nat /\ moves \in Nat
         /\ e.batch > 1 => Exists /\ Sole.code = "sub"
<1>1. Linking /\ InTurn BY DEF Follows
<1>2. e.batch \in Nat /\ moves \in Nat /\ 1 <= e.batch /\ e.batch <= moves
  BY <1>1, OpenTyped DEF InTurn
<1>3. ASSUME e.batch > 1, NEW f \in Open, First(f) PROVE FALSE BY <1>2, <1>3 DEF First
<1> QED BY <1>1, <1>2, <1>3 DEF Linking

LEMMA TargetsAre ==
  ASSUME IInv, OneRow, NEW e
  PROVE  /\ \A i \in Targets(e) : i = 1 /\ Exists
         /\ e.kind = "payment" /\ e.by = "plan" /\ Exists /\ Sole.status # "canceled" =>
              1 \in Targets(e)
         /\ /\ e.kind \in Kind /\ Exists /\ Sole.code = "sub"
            /\ ~(e.kind = "payment" /\ e.by # "code")
            => 1 \in Targets(e)
         /\ e.kind = "created" /\ 1 \in Targets(e) => Sole.code = "sub"
<1>1. {"active"} \in SUBSET (Live \cup {"canceled"}) /\ Live \in SUBSET (Live \cup {"canceled"})
  BY DEF Live
<1>2. \A i \in Found({"active"}) \cup Found(Live) : i = 1 /\ Exists BY <1>1, Lookup
<1>3. \A i \in ByCode("sub") : i = 1 /\ Exists BY Lookup
<1>4. \A i \in Best : i = 1 /\ Exists BY <1>2, Lookup
<1>5. Exists /\ Sole.status # "canceled" => 1 \in Found(Live) BY <1>1, Lookup
<1>6. Exists /\ Sole.code = "sub" <=> 1 \in ByCode("sub") BY Lookup
<1>7. CASE e.kind = "payment" /\ e.by = "plan_id"
  <2>1. Targets(e) = Found({"active"}) BY <1>7 DEF Targets
  <2> QED BY <1>2, <1>7, <2>1
<1>8. CASE e.kind = "payment" /\ e.by = "plan"
  <2>1. Targets(e) = Found(Live) BY <1>8 DEF Targets
  <2> QED BY <1>2, <1>5, <1>8, <2>1
<1>9. CASE e.kind = "created"
  <2>1. Targets(e) = ByCode("sub") BY <1>9 DEF Targets
  <2> QED BY <1>3, <1>6, <1>9, <2>1
<1>10. CASE /\ ~(e.kind = "payment" /\ e.by = "plan_id") /\ ~(e.kind = "payment" /\ e.by = "plan")
            /\ e.kind # "created"
  <2>1. Targets(e) = IF e.plan /\ ByCode("sub") = {} THEN Best ELSE ByCode("sub")
    BY <1>10 DEF Targets
  <2>2. \A i \in Targets(e) : i = 1 /\ Exists BY <1>3, <1>4, <2>1
  <2>3. Exists /\ Sole.code = "sub" => 1 \in Targets(e) BY <1>6, <2>1
  <2> QED BY <1>10, <2>2, <2>3
<1> QED BY <1>7, <1>8, <1>9, <1>10

LEMMA LinkedAre ==
  ASSUME IInv, OneRow, NEW e, NEW i \in Linked(e)
  PROVE  i = 1 /\ Exists
<1>1. {"active"} \in SUBSET (Live \cup {"canceled"}) /\ Live \in SUBSET (Live \cup {"canceled"})
  BY DEF Live
<1>2. \A j \in Found({"active"}) \cup Found(Live) : j = 1 /\ Exists BY <1>1, Lookup
<1> QED BY <1>2, Lookup DEF Linked

\* An event of the subscription that knows no row is one of the first.
LEMMA Targetless ==
  ASSUME IInv, Follows, hist = {}, NEW e \in Open, \A f \in Open : e.batch <= f.batch,
         Targets(e) = {}, e.kind \in {"active", "created"}
  PROVE  e.batch = 1 /\ e.plan /\ (e.kind = "active" => ~Exists)
<1>1. OneRow /\ WellSent(e) /\ SoleKept /\ 1 <= e.batch /\ e.batch \in Nat
      /\ (e.batch > 1 => Exists /\ Sole.code = "sub") /\ key \in {"code", "session", "reference"}
  BY Linkeds, OpenTyped DEF Follows, AllSent
<1>2. Exists /\ Sole.code = "sub" => 1 \in Targets(e) BY <1>1, TargetsAre DEF Kind
<1>3. e.batch = 1 BY <1>1, <1>2
<1>4. e.kind = "active" => key # "reference" BY <1>1, <1>3 DEF WellSent
<1> QED BY <1>1, <1>2, <1>3, <1>4 DEF WellSent, SoleKept

LEMMA FollowsFound ==
  ASSUME IInv, Follows, hist = {}, NEW h \in Handlers, NEW e \in pending, Deliver(h, e), hist' = {},
         NEW pc \in {"write", "link", "insert"}, NEW i, Go(h, pc, e, i),
         \/ pc = "write" /\ e.kind # "created" /\ i \in Targets(e)
         \/ pc = "link" /\ i \in Linked(e)
         \/ pc = "insert" /\ i = 0 /\ Inserts(e)
  PROVE  Follows'
<1>1. /\ OneRow /\ InTurn /\ AllSent /\ SoleKept /\ Ends /\ Times BY DEF Follows
<1>2. /\ e \in Open /\ Look(h, e) /\ handler[h].pc = "idle"
      /\ UNCHANGED <<now, key, provider, covered, moves, rows, rec>>
      /\ pending' \subseteq pending /\ \A f \in pending : f # e => f \in pending'
      /\ \A f \in Open : e.batch <= f.batch
  BY <1>1, Delivered
<1>3. /\ WellSent(e) /\ 1 <= e.batch /\ e.batch \in Nat /\ moves \in Nat /\ moves > 0
      /\ e.batch > 1 => Exists /\ Sole.code = "sub"
  BY <1>1, <1>2, Linkeds DEF AllSent
<1> PICK w : w = [pc |-> pc, ev |-> e, id |-> i, snap |-> IF i \in Ids THEN rows[i] ELSE NoRow]
  OBVIOUS
<1>4. w.pc = pc /\ w.ev = e /\ w.id = i /\ (i = 1 /\ Exists => w.snap = Sole)
  BY DEF Exists, Sole
<1>5. handler' = [handler EXCEPT ![h] = w] BY DEF Go
<1>6. Doing(w)
  <2>1. CASE pc = "write"
    <3>1. i = 1 /\ Exists BY <1>1, <2>1, TargetsAre
    <3>2. w.snap = Sole BY <1>4, <3>1
    <3>3. Sole.end # Never BY <1>1, <3>1 DEF SoleKept
    <3>4. ASSUME e.kind = "not_renew", e.batch = moves PROVE Sole.end >= provider.end \/ Sole.ended
      <4>1. provider.status = "canceling" BY <1>3, <3>4 DEF WellSent, Tells
      <4>2. ASSUME NEW f \in Open PROVE ~Dated(f)
        <5>1. f.batch = moves BY <1>1, <1>2, <1>3, <3>4, OpenTyped DEF InTurn
        <5>2. Tells(f) BY <1>1, <5>1 DEF AllSent, WellSent
        <5> QED BY <4>1, <5>2 DEF Tells, Dated
      <4> QED BY <1>1, <1>3, <4>2 DEF Ends, Carries, Reached
    <3> QED BY <1>4, <2>1, <3>1, <3>2, <3>3, <3>4 DEF Doing
  <2>2. CASE pc = "link"
    <3>1. i = 1 /\ Exists BY <1>1, <2>2, LinkedAre
    <3>2. e.kind \in {"active", "created"} /\ Targets(e) = {} BY <2>2 DEF Linked
    <3>3. e.kind = "created" BY <1>2, <3>1, <3>2, Targetless
    <3> QED BY <1>4, <2>2, <3>1, <3>3 DEF Doing
  <2>3. CASE pc = "insert"
    <3>1. CASE e.kind = "payment" /\ e.by = "plan_id" BY <1>3, <1>4, <2>3, <3>1 DEF Doing
    <3>2. CASE e.kind \in {"active", "created"} /\ Targets(e) = {}
      <4>1. e.batch = 1 BY <1>2, <3>2, Targetless
      <4> QED BY <1>4, <2>3, <3>2, <4>1 DEF Doing, First
    <3> QED BY <2>3, <3>1, <3>2 DEF Inserts
  <2> QED BY <2>1, <2>2, <2>3
<1> QED BY <1>2, <1>4, <1>5, <1>6, FollowsGo

(* The event is answered and nothing is done: nothing was left to do.      *)
LEMMA FollowsDropped ==
  ASSUME IInv, Follows, hist = {}, NEW h \in Handlers, NEW e \in pending, Deliver(h, e), hist' = {},
         Rest(h), ~Inserts(e), Linked(e) = {}, Targets(e) = {} \/ e.kind = "created"
  PROVE  Follows'
<1>1. /\ OneRow /\ InTurn /\ AllSent /\ SoleKept /\ Ends /\ Times /\ Linking /\ AllDoing /\ Newest
  BY DEF Follows
<1>2. /\ e \in Open /\ handler[h].pc = "idle" /\ UNCHANGED <<now, key, provider, covered, moves, rows, rec>>
      /\ pending' \subseteq pending /\ \A f \in pending : f # e => f \in pending'
      /\ \A f \in Open : e.batch <= f.batch
  BY <1>1, Delivered
<1>3. /\ WellSent(e) /\ 1 <= e.batch /\ e.batch \in Nat /\ moves \in Nat /\ moves > 0
      /\ e.batch > 1 => Exists /\ Sole.code = "sub"
  BY <1>1, <1>2, Linkeds DEF AllSent
<1>4. /\ handler'[h].pc = "idle" /\ \A g \in Handlers : g # h => handler'[g] = handler[g]
  BY DEF IInv, HandlersOK, Rest
<1>5. Working' = Working /\ \A g \in Working : handler'[g] = handler[g] /\ g # h
  BY <1>2, <1>4 DEF Working
<1>6. Open' \subseteq Open /\ \A f \in Open : f # e => f \in Open'
  <2>1. {handler'[g].ev : g \in Working'} = {handler[g].ev : g \in Working} BY <1>5
  <2> QED BY <1>2, <2>1 DEF Open
<1>7. UNCHANGED <<Exists, Sole>> BY <1>2 DEF Exists, Sole
<1>8. \A g \in Working' : \A f \in Open : handler'[g].ev.batch <= f.batch
  BY <1>1, <1>5 DEF InTurn
<1>9. OneRow' /\ SoleKept' BY <1>1, <1>2, <1>7 DEF OneRow, SoleKept
<1>10. AllDoing' BY <1>1, <1>2, <1>4, <1>7, DoingKept
<1>11. e.kind \in Kind /\ e.by \in {"plan_id", "code", "plan"} /\ key \in {"code", "session", "reference"}
  BY <1>2, Dues, OpenTyped
\* It was a payment for a row that has ended, or the creation of one that is known.
<1>12. \/ e.kind = "payment" /\ e.batch > 1 /\ Exists /\ Sole.status = "canceled"
       \/ e.kind = "created" /\ e.batch = 1 /\ Exists /\ Sole.code = "sub"
  <2>1. CASE e.kind = "payment"
    <3>1. e.by # "plan_id" BY <2>1, <1>1 DEF Inserts, Targets
    <3>2. e.batch > 1 /\ Exists /\ Sole.code = "sub" BY <1>3, <1>11, <2>1, <3>1 DEF WellSent
    <3>3. e.by = "plan" BY <1>1, <1>11, <2>1, <3>1, <3>2, TargetsAre
    <3>4. Sole.status = "canceled" BY <1>1, <2>1, <3>2, <3>3, TargetsAre
    <3> QED BY <2>1, <3>2, <3>4
  <2>2. CASE e.kind \in {"active", "created"}
    <3>1. Targets(e) # {}
      <4> SUFFICES ASSUME Targets(e) = {} PROVE FALSE OBVIOUS
      <4>1. e.plan BY <1>2, <2>2, Targetless
      <4> QED BY <2>2, <4>1 DEF Inserts, Linked
    <3>2. e.kind = "created" BY <2>2, <3>1
    <3> QED BY <1>1, <1>3, <3>1, <3>2, TargetsAre DEF WellSent
  <2>3. CASE e.kind \in {"past_due", "not_renew", "canceled"}
    <3>1. e.batch > 1 BY <1>3, <2>3 DEF WellSent
    <3> QED BY <1>1, <1>3, <1>11, <2>3, <3>1, TargetsAre
  <2> QED BY <1>11, <2>1, <2>2, <2>3 DEF Kind
<1>13. Ends'
  <2>1. ASSUME Carries(e) PROVE Reached'
    <3>1. Exists /\ Sole.ended BY <1>1, <1>3, <1>12, <2>1 DEF Carries, Settles, SoleKept
    <3> QED BY <1>7, <3>1 DEF Reached
  <2>2. Reached => Reached' BY <1>2, <1>7 DEF Reached
  <2>3. \A f \in Open : f.batch >= e.batch BY <1>2, <1>3, OpenTyped
  <2> QED BY <1>1, <1>2, <1>6, <1>7, <2>1, <2>2, <2>3, EndsKept
<1>14. ASSUME Retries, e.batch = moves PROVE Right' \/ Later'
  <2>1. Tells(e) BY <1>3, <1>14 DEF WellSent
  <2>2. provider.status = "active" BY <1>12, <2>1 DEF Tells
  <2>3. CASE e.kind = "payment"
    <3>1. Exists /\ Sole.ended /\ Sole.cancelAt # Never
      BY <1>1, <1>12, <2>2, <2>3 DEF SoleKept
    <3> QED BY <1>2, <1>7, <2>2, <3>1 DEF Right, Reached
  <2>4. CASE e.kind # "payment"
    <3>1. Right \/ Later BY <1>1, <1>3, <1>14 DEF Newest
    <3>2. CASE Right BY <1>2, <1>7, <3>2 DEF Right, Reached
    <3>3. ASSUME NEW f \in Open, f.batch = moves, Settles(f) PROVE Later'
      <4>1. f \in Open' BY <1>6, <2>4, <3>3 DEF Settles
      <4> QED BY <1>2, <3>3, <4>1 DEF Later, Settles
    <3> QED BY <1>12, <1>14, <2>4, <3>1, <3>2, <3>3 DEF Later
  <2> QED BY <2>3, <2>4
<1>15. ~Settles(e)
  <2>1. e.kind = "payment" => e.by # "plan_id" BY <1>1 DEF Inserts, Targets
  <2> QED BY <1>3, <2>1 DEF Settles, WellSent
<1> QED BY <1>1, <1>2, <1>6, <1>7, <1>8, <1>9, <1>10, <1>12, <1>13, <1>14, <1>15, Handles DEF First

LEMMA FollowsDeliver ==
  ASSUME IInv, Follows, hist' = {}, NEW h \in Handlers, NEW e \in pending, Deliver(h, e)
  PROVE  Follows'
<1>1. hist = {} BY DEF Deliver
<1>2. Look(h, e) BY DEF Deliver
<1>3. CASE e.kind # "created" /\ \E i \in Targets(e) : Go(h, "write", e, i)
  BY <1>1, <1>3, FollowsFound
<1>4. CASE \E i \in Linked(e) : Go(h, "link", e, i) BY <1>1, <1>4, FollowsFound
<1>5. CASE Inserts(e) /\ Go(h, "insert", e, 0) BY <1>1, <1>5, FollowsFound
<1> QED BY <1>1, <1>2, <1>3, <1>4, <1>5, FollowsDropped DEF Look

(* A write of the one row goes through: no other row can have its code.    *)
LEMMA TouchedRow ==
  ASSUME NEW row \in Row
  PROVE  LET t == Touched(row)
         IN /\ t.status = row.status /\ t.code = row.code /\ t.end = row.end
            /\ t.cancelAt = row.cancelAt /\ t.since = row.since /\ t.ended = row.ended
            /\ row.status = "past_due" /\ row.since = Never => t.updated = now
BY DEF Touched, Row

LEMMA SoleUpdated ==
  ASSUME IInv, OneRow, Exists, NEW row \in Row, row.status # "none", Update(1, row)
  PROVE  Sole' = Touched(row) /\ OneRow' /\ Exists'
<1> DEFINE next == [rows EXCEPT ![1] = Touched(row)]
<1>1. rows \in Rows /\ 1 \in Ids BY DEF IInv, RowsOK, Exists
<1>2. next[1] = Touched(row) /\ \A i \in Ids : i # 1 => next[i] = rows[i] BY <1>1 DEF Rows
<1>3. \A i \in Ids : i # 1 => next[i].status = "none" BY <1>2 DEF OneRow
<1>4. Unique(next) BY <1>3 DEF Unique, Live
<1>5. rows' = next BY <1>4 DEF Update
<1>6. Touched(row).status # "none" BY TouchedRow
<1> HIDE DEF next
<1> QED BY <1>1, <1>2, <1>3, <1>5, <1>6 DEF Sole, OneRow, Exists

(* A handler that ends takes its event with it.                            *)
LEMMA HandlerEnds ==
  ASSUME IInv, InTurn, NEW h \in Handlers, handler[h].pc # "idle", Rest(h), UNCHANGED pending
  PROVE  /\ handler[h].ev \in Open /\ Open' \subseteq Open
         /\ \A f \in Open : f # handler[h].ev => f \in Open'
         /\ \A f \in Open : handler[h].ev.batch <= f.batch
         /\ \A g \in Working' : \A f \in Open : handler'[g].ev.batch <= f.batch
         /\ \A g \in Handlers : handler'[g].pc # "idle" =>
              handler[g].pc # "idle" /\ handler'[g] = handler[g]
<1>1. /\ handler'[h].pc = "idle" /\ \A g \in Handlers : g # h => handler'[g] = handler[g]
  BY DEF IInv, HandlersOK, Rest
<1>2. Working' = Working \ {h} /\ h \in Working BY <1>1 DEF Working
<1>3. \A g \in Working' : handler'[g] = handler[g] BY <1>1, <1>2 DEF Working
<1>4. {handler'[g].ev : g \in Working'} = {handler[g].ev : g \in Working \ {h}} BY <1>2, <1>3
<1>5. Open' = pending \cup {handler[g].ev : g \in Working \ {h}} BY <1>4 DEF Open
<1>6. handler[h].ev \in Open BY <1>2 DEF Open
<1>7. Open' \subseteq Open BY <1>5 DEF Open
<1>8. ASSUME NEW f \in Open, f # handler[h].ev PROVE f \in Open'
  BY <1>5, <1>8 DEF Open
<1> QED BY <1>1, <1>2, <1>3, <1>6, <1>7, <1>8 DEF InTurn

(* The end of the handling of an event that wrote the row: what is left is *)
(* how the row was written.                                                *)
LEMMA Writes ==
  ASSUME IInv, Follows, hist = {}, UNCHANGED <<now, key, provider, covered, moves, pending, rec>>,
         NEW h \in Handlers, handler[h].pc # "idle", Rest(h),
         Exists, OneRow', Exists', Sole'.end # Never,
         Sole.ended => Sole'.ended, Sole'.status = "canceled" => Sole'.ended,
         Sole'.ended => Sole.ended \/ provider.status = "canceled",
         Sole'.cancelAt = Sole.cancelAt \/ Sole'.cancelAt # Never,
         Sole.code = "sub" => Sole'.code = "sub",
         First(handler[h].ev) => Sole'.code = "sub",
         \/ Dated(handler[h].ev) /\ Sole'.end = Yield(handler[h].ev)
         \/ /\ Sole'.end = Sole.end /\ ~Settles(handler[h].ev)
            /\ Dated(handler[h].ev) => handler[h].ev.batch = 1,
         Retries /\ handler[h].ev.batch = moves => Right' \/ Later'
  PROVE  Follows'
<1> PICK e : e = handler[h].ev OBVIOUS
<1>1. /\ OneRow /\ InTurn /\ AllSent /\ SoleKept /\ Ends /\ Times /\ Linking /\ AllDoing /\ Newest
  BY DEF Follows
<1>2. /\ e \in Open /\ Open' \subseteq Open /\ \A f \in Open : f # e => f \in Open'
      /\ \A f \in Open : e.batch <= f.batch
      /\ \A g \in Working' : \A f \in Open : handler'[g].ev.batch <= f.batch
      /\ \A g \in Handlers : handler'[g].pc # "idle" =>
           handler[g].pc # "idle" /\ handler'[g] = handler[g]
  BY <1>1, HandlerEnds
<1>3. SoleKept' BY <1>1 DEF SoleKept
<1>4. AllDoing' BY <1>1, <1>2, DoingKept
<1>5. 1 <= e.batch BY <1>2, Linkeds
<1>6. Ends'
  <2>1. CASE Dated(e) /\ Sole'.end = Yield(e) BY <1>1, <1>2, <1>5, <2>1, EndsSet
  <2>2. CASE Sole'.end = Sole.end /\ ~Settles(e) /\ (Dated(e) => e.batch = 1)
    <3>1. Reached => Reached' BY <2>2 DEF Reached
    <3>2. \A c \in Open : Carries(c) => c # e BY <2>2 DEF Carries
    <3> QED BY <1>1, <1>2, <3>1, <3>2, EndsKept
  <2> QED BY <2>1, <2>2
<1>7. /\ Settles(e) => Exists' /\ ~(Sole'.end > covered)
      /\ Sole'.end > covered => Sole.end > covered
  <2>1. covered \in Nat /\ Yield(e) \in Nat BY <1>2, OpenTyped, Dues
  <2>2. Dated(e) => Yield(e) <= covered
    <3>1. Within(e) BY DEF IInv, HandlersOK
    <3> QED BY <3>1 DEF Within, PaidFor, Yield, PaidEnd
  <2> QED BY <2>1, <2>2
<1> QED BY <1>1, <1>2, <1>3, <1>4, <1>6, <1>7, Handles

LEMMA FollowsWrite ==
  ASSUME IInv, Follows, hist' = {}, NEW h \in Handlers, WriteRow(h)
  PROVE  Follows'
<1> PICK e : e = handler[h].ev OBVIOUS
<1> PICK snap : snap = handler[h].snap OBVIOUS
<1> PICK row : row = Updated(e, snap, Sole) OBVIOUS
<1>1. /\ handler[h].pc = "write" /\ Rest(h) /\ hist = {}
      /\ UNCHANGED <<now, key, provider, covered, moves, pending, rec>>
      /\ Update(handler[h].id, Updated(e, snap, rows[handler[h].id]))
  BY DEF WriteRow
<1>2. /\ OneRow /\ InTurn /\ AllSent /\ SoleKept /\ Ends /\ Times /\ AllDoing
  BY <1>1 DEF Follows
<1>3. /\ e \in Open /\ Open' \subseteq Open /\ \A f \in Open : f # e => f \in Open'
      /\ \A f \in Open : e.batch <= f.batch
  BY <1>1, <1>2, HandlerEnds
<1>4. /\ handler[h].id = 1 /\ Exists /\ e.kind # "created" /\ snap.end # Never
      /\ snap.ended => Sole.ended
      /\ e.kind = "not_renew" /\ e.batch = moves => snap.end >= provider.end \/ Sole.ended
  BY <1>1, <1>2 DEF AllDoing, Doing
<1>5. /\ WellSent(e) /\ 1 <= e.batch /\ e.batch \in Nat /\ moves \in Nat /\ moves > 0
      /\ e.kind \in Kind /\ e \in Event /\ e.end \in Nat /\ e.paid \in Nat /\ e.paid >= 1
      /\ PaidEnd(e) \in Nat /\ PaidEnd(e) # Never
      /\ key \in {"code", "session", "reference"} /\ now \in Nat /\ now >= 1 /\ now # Never
      /\ provider.end \in Nat /\ Sole \in Row /\ snap \in Row /\ 1 \in Ids /\ covered \in Nat
  <2>1. snap \in Row BY <1>1 DEF IInv, HandlersOK, Busy
  <2>2. WellSent(e) /\ e.paid >= 1 BY <1>2, <1>3 DEF AllSent, WellSent
  <2>3. PaidEnd(e) \in Nat /\ PaidEnd(e) >= e.paid + 1 /\ e.kind \in Kind BY <1>3, Dues
  <2>4. now >= 1 BY <1>2 DEF Times
  <2>5. e \in Event /\ e.end \in Nat /\ e.paid \in Nat /\ now \in Nat /\ covered \in Nat
        /\ key \in {"code", "session", "reference"} /\ provider.end \in Nat /\ (1 \in Ids => Sole \in Row)
    BY <1>3, OpenTyped
  <2>6. PaidEnd(e) # Never /\ now # Never BY <2>2, <2>3, <2>4, <2>5 DEF Never
  <2> QED BY <1>1, <1>3, <1>4, <2>1, <2>2, <2>3, <2>4, <2>5, <2>6, Linkeds DEF Exists
<1>6. row \in Row
  <2>1. Within(e) /\ Allowed(Sole.end) BY <1>1, <1>5 DEF IInv, HandlersOK, RowsOK, Sole
  <2> QED BY <1>5, <2>1, UpdatedTyped
<1>7. Update(1, row) BY <1>1, <1>4 DEF Sole
\* What the events of the last move make of the row.
<1>8. /\ row.status # "none" /\ (Sole.ended => row.ended) /\ (Sole.code = "sub" => row.code = "sub")
      /\ row.status = "canceled" => row.ended
      /\ row.ended => Sole.ended \/ provider.status = "canceled"
      /\ row.cancelAt = Sole.cancelAt \/ row.cancelAt # Never
      /\ First(e) => row.code = "sub"
      /\ \/ Dated(e) /\ row.end = Yield(e) /\ row.status = "active"
         \/ row.end = Sole.end /\ ~Dated(e)
      /\ row.end # Never
      /\ e.kind = "active" => row.status = "active"
      /\ e.kind = "not_renew" => row.status = "pending_cancel" /\ row.cancelAt = snap.end
      /\ e.kind = "past_due" => row.status = "past_due" /\ row.since = PastDueSince(snap)
      /\ e.kind = "canceled" => row.status = "canceled"
  <2>1. Sole.end # Never BY <1>2, <1>4 DEF SoleKept
  <2>2. CASE e.kind = "payment" /\ e.by = "plan_id"
    <3>1. row = [Sole EXCEPT !.status = "active", !.end = PaidEnd(e), !.since = snap.since]
      BY <2>2 DEF Updated
    <3>2. /\ row.status = "active" /\ row.end = PaidEnd(e) /\ row.code = Sole.code
          /\ row.cancelAt = Sole.cancelAt /\ row.ended = Sole.ended
      BY <1>5, <3>1 DEF Row
    <3> QED BY <1>5, <2>2, <3>2 DEF Dated, Yield, First
  <2>3. CASE e.kind = "payment" /\ e.by # "plan_id"
    <3>1. row = [Sole EXCEPT !.status = "active", !.end = e.end] BY <2>3 DEF Updated
    <3>2. /\ row.status = "active" /\ row.end = e.end /\ row.code = Sole.code
          /\ row.cancelAt = Sole.cancelAt /\ row.ended = Sole.ended
      BY <1>5, <3>1 DEF Row
    <3>3. e.end # Never BY <1>5, <2>3 DEF WellSent
    <3> QED BY <1>5, <2>3, <3>2, <3>3 DEF Dated, Yield, First
  <2>4. CASE e.kind = "active"
    <3>1. row = [Sole EXCEPT !.status = "active",
                             !.end = IF e.end # Never THEN e.end ELSE Sole.end, !.code = "sub"]
      BY <2>4 DEF Updated
    <3>2. /\ row.status = "active" /\ row.code = "sub"
          /\ row.cancelAt = Sole.cancelAt /\ row.ended = Sole.ended
          /\ row.end = IF e.end # Never THEN e.end ELSE Sole.end
      BY <1>5, <3>1 DEF Row
    <3>3. CASE e.end # Never BY <1>5, <2>4, <3>2, <3>3 DEF Dated, Yield
    <3>4. CASE e.end = Never
      <4>1. row.end = Sole.end /\ ~Dated(e) BY <2>4, <3>2, <3>4 DEF Dated
      <4> QED BY <1>5, <2>1, <2>4, <3>2, <4>1
    <3> QED BY <3>3, <3>4
  <2>5. CASE e.kind = "past_due"
    <3>1. row = [Sole EXCEPT !.status = "past_due", !.since = PastDueSince(snap)]
      BY <2>5 DEF Updated
    <3>2. /\ row.status = "past_due" /\ row.end = Sole.end /\ row.code = Sole.code
          /\ row.cancelAt = Sole.cancelAt /\ row.ended = Sole.ended /\ row.since = PastDueSince(snap)
      BY <1>5, <3>1 DEF Row
    <3> QED BY <2>1, <2>5, <3>2 DEF Dated, First
  <2>6. CASE e.kind = "not_renew"
    <3>1. row = [Sole EXCEPT !.status = "pending_cancel", !.cancelAt = snap.end]
      BY <2>6 DEF Updated
    <3>2. /\ row.status = "pending_cancel" /\ row.end = Sole.end /\ row.code = Sole.code
          /\ row.cancelAt = snap.end /\ row.ended = Sole.ended
      BY <1>5, <3>1 DEF Row
    <3> QED BY <1>4, <2>1, <2>6, <3>2 DEF Dated, First
  <2>7. CASE e.kind = "canceled"
    <3>1. row = [Sole EXCEPT !.status = "canceled", !.ended = TRUE] BY <2>7 DEF Updated
    <3>2. /\ row.status = "canceled" /\ row.end = Sole.end /\ row.code = Sole.code
          /\ row.cancelAt = Sole.cancelAt /\ row.ended = TRUE
      BY <1>5, <3>1 DEF Row
    <3>3. provider.status = "canceled" BY <1>5, <2>7 DEF WellSent
    <3> QED BY <2>1, <2>7, <3>2, <3>3 DEF Dated, First
  <2> QED BY <1>4, <1>5, <2>2, <2>3, <2>4, <2>5, <2>6, <2>7 DEF Kind
<1>9. /\ OneRow' /\ Exists' /\ Sole'.status = row.status /\ Sole'.code = row.code
      /\ Sole'.end = row.end /\ Sole'.cancelAt = row.cancelAt /\ Sole'.since = row.since
      /\ Sole'.ended = row.ended
      /\ row.status = "past_due" /\ row.since = Never => Sole'.updated = now
  <2>1. OneRow' /\ Exists' /\ Sole' = Touched(row) BY <1>2, <1>4, <1>6, <1>7, <1>8, SoleUpdated
  <2> QED BY <1>6, <2>1, TouchedRow
<1>10. ASSUME e.batch = moves PROVE Right' \/ Later'
  <2>1. Tells(e) BY <1>5, <1>10 DEF WellSent
  \* Without a date of its own the event leaves that to another, or to the row.
  <2>2. CASE ~Dated(e)
    <3>1. (\E c \in Open : c # e) \/ Reached
      <4>1. moves > 0 BY <1>5
      <4>2. \A c \in Open : Carries(c) => c # e BY <2>2 DEF Carries
      <4> QED BY <1>2, <4>1, <4>2 DEF Ends
    <3>2. moves > 1
      <4>1. e.batch # 1 BY <1>4, <1>5, <2>2 DEF WellSent, Dated
      <4> QED BY <1>5, <1>10, <4>1
    <3>3. ASSUME NEW c \in Open, c # e PROVE Later'
      <4>1. c \in Open' /\ c.batch = moves
        BY <1>2, <1>3, <1>5, <1>10, <3>3, OpenTyped DEF InTurn
      <4> QED BY <1>1, <3>2, <4>1 DEF Later
    <3>4. ASSUME Reached PROVE Right'
      <4>1. Reached' BY <1>1, <1>8, <1>9, <2>2, <3>4 DEF Reached
      <4>2. CASE provider.status = "active"
        <5>1. e.kind = "active" BY <1>4, <2>1, <2>2, <4>2 DEF Tells, Dated
        <5>2. Sole.ended => Sole.cancelAt # Never BY <1>2, <1>4, <4>2 DEF SoleKept
        <5>3. Sole'.cancelAt # Never \/ (Sole'.status = "active" /\ Sole'.end >= provider.end)
          BY <1>8, <1>9, <2>2, <3>4, <5>1, <5>2 DEF Reached
        <5> QED BY <1>1, <1>9, <4>1, <4>2, <5>3 DEF Right
      <4>3. CASE provider.status = "canceling"
        <5>1. e.kind = "not_renew" BY <2>1, <4>3 DEF Tells
        <5> QED BY <1>1, <1>4, <1>8, <1>9, <1>10, <4>1, <4>3, <5>1 DEF Right
      <4>4. CASE provider.status = "past_due"
        <5>1. e.kind = "past_due" BY <2>1, <4>4 DEF Tells
        <5>2. provider.failed <= now BY <1>2, <4>4 DEF Times
        <5>3. Sole'.since # Never \/ Sole'.updated >= provider.failed
          BY <1>5, <1>8, <1>9, <5>1, <5>2
        <5> QED BY <1>1, <1>8, <1>9, <4>4, <5>1, <5>3 DEF Right
      <4>5. CASE provider.status = "canceled"
        <5>1. e.kind = "canceled" BY <2>1, <4>5 DEF Tells
        <5> QED BY <1>1, <1>8, <1>9, <4>5, <5>1 DEF Right
      <4> QED BY <2>1, <4>2, <4>3, <4>4, <4>5 DEF Tells
    <3> QED BY <3>1, <3>2, <3>3, <3>4
  <2>3. CASE Dated(e)
    <3>1. provider.status = "active" /\ Yield(e) >= provider.end
      BY <2>1, <2>3 DEF Tells, Dated, Reaches
    <3> QED BY <1>1, <1>8, <1>9, <2>3, <3>1 DEF Right, Reached
  <2> QED BY <2>2, <2>3
<1>11. ~Dated(e) => ~Settles(e) BY DEF Dated, Settles
<1> QED BY <1>1, <1>4, <1>8, <1>9, <1>10, <1>11, Writes

\* What an event of the first payment meets is right already, or the payment that will
\* set it right is still open.
LEMMA WasRight ==
  ASSUME Retries, IInv, Follows, hist = {}, NEW e \in Open, e.batch = 1, e.batch = moves, Exists
  PROVE  /\ provider.status = "active"
         /\ Right \/ \E f \in Open : f.batch = moves /\ Settles(f)
<1>1. /\ Newest /\ AllSent BY DEF Follows
<1>2. moves = 1 /\ moves > 0 BY OpenTyped
<1>3. Right \/ \E f \in Open : f.batch = moves /\ Settles(f) BY <1>1, <1>2 DEF Newest, Later
<1>4. Tells(e) /\ e.kind \in {"payment", "active", "created"} BY <1>1 DEF AllSent, WellSent
<1> QED BY <1>3, <1>4 DEF Tells

LEMMA FollowsLink ==
  ASSUME IInv, Follows, hist' = {}, NEW h \in Handlers, LinkRow(h)
  PROVE  Follows'
<1> PICK e : e = handler[h].ev OBVIOUS
<1> PICK row : row = [Sole EXCEPT !.code = "sub"] OBVIOUS
<1>1. /\ handler[h].pc = "link" /\ Rest(h) /\ hist = {}
      /\ UNCHANGED <<now, key, provider, covered, moves, pending, rec>>
      /\ Update(handler[h].id, [rows[handler[h].id] EXCEPT !.code = "sub"])
  BY DEF LinkRow
<1>2. /\ OneRow /\ InTurn /\ AllSent /\ SoleKept /\ AllDoing BY <1>1 DEF Follows
<1>3. handler[h].id = 1 /\ Exists /\ e.kind = "created" BY <1>1, <1>2 DEF AllDoing, Doing
<1>4. e \in Open BY <1>1, <1>2, HandlerEnds
<1>5. e.batch = 1 BY <1>2, <1>3, <1>4 DEF AllSent, WellSent
<1>6. Sole \in Row BY <1>3, OpenTyped DEF Exists
<1>7. /\ row \in Row /\ row.status = Sole.status /\ row.code = "sub" /\ row.end = Sole.end
      /\ row.cancelAt = Sole.cancelAt /\ row.since = Sole.since /\ row.ended = Sole.ended
  BY <1>6 DEF Row
<1>8. Update(1, row) /\ row.status # "none" BY <1>1, <1>3, <1>7 DEF Sole, Exists
<1>9. /\ OneRow' /\ Exists' /\ Sole'.status = Sole.status /\ Sole'.code = "sub"
      /\ Sole'.end = Sole.end /\ Sole'.cancelAt = Sole.cancelAt /\ Sole'.ended = Sole.ended
  <2>1. OneRow' /\ Exists' /\ Sole' = Touched(row) BY <1>2, <1>3, <1>7, <1>8, SoleUpdated
  <2> QED BY <1>7, <2>1, TouchedRow
<1>10. ASSUME Retries, e.batch = moves PROVE Right' \/ Later'
  <2>1. provider.status = "active" /\ (Right \/ \E f \in Open : f.batch = moves /\ Settles(f))
    BY <1>1, <1>3, <1>4, <1>5, <1>10, WasRight
  <2>2. CASE Right BY <1>1, <1>9, <2>1, <2>2 DEF Right, Reached
  <2>3. ASSUME NEW f \in Open, f.batch = moves, Settles(f) PROVE Later'
    <3>1. f \in Open' BY <1>1, <1>2, <1>3, <2>3, HandlerEnds DEF Settles
    <3> QED BY <1>1, <2>3, <3>1 DEF Later, Settles
  <2> QED BY <2>1, <2>2, <2>3
<1>11. ~Settles(e) BY <1>3 DEF Settles
<1> QED BY <1>1, <1>2, <1>3, <1>5, <1>9, <1>10, <1>11, Writes DEF SoleKept

LEMMA Kinds ==
  ASSUME IInv, NEW e \in Open, WellSent(e), (e.kind = "payment" /\ e.by = "plan_id") \/ First(e)
  PROVE  /\ NewRow(e) \in Row /\ NewRow(e).status = "active"
         /\ Dated(e) => NewRow(e).end = Yield(e)
         /\ NewRow(e).end # Never /\ NewRow(e).cancelAt = Never /\ ~NewRow(e).ended
         /\ NewRow(e).code = IF e.kind = "payment" /\ key = "reference" THEN "ref" ELSE "sub"
         /\ ~Dated(e) => e.kind = "created" /\ key = "session"
         /\ First(e) => e.kind # "payment"
<1>1. /\ e \in Event /\ e.end \in Nat /\ e.paid \in Nat /\ key \in {"code", "session", "reference"}
      /\ PaidEnd(e) \in Nat /\ PaidEnd(e) >= e.paid + 1 /\ e.batch \in Nat /\ e.paid >= 1
      /\ Fallback \in Nat
  BY OpenTyped, Dues, SyncAssumption DEF WellSent
<1>2. PaidEnd(e) # Never BY <1>1 DEF Never
<1>3. e.kind # "payment" /\ e.end = Never => e.kind = "created" /\ key = "session"
  BY <1>1 DEF First, WellSent
<1>4. NoRow \in Row BY NoRowTyped
<1>5. /\ NewRow(e).status = "active" /\ NewRow(e).cancelAt = Never /\ NewRow(e).ended = FALSE
      /\ NewRow(e).end = FirstEnd(e)
      /\ NewRow(e).code = IF e.kind = "payment" /\ key = "reference" THEN "ref" ELSE "sub"
      /\ NewRow(e) \in Row
  <2>1. FirstEnd(e) \in Nat BY <1>1 DEF FirstEnd
  <2> QED BY <1>1, <2>1 DEF NewRow, NoRow, Row, Never, Live
<1>6. FirstEnd(e) # Never
  <2>1. CASE e.kind = "payment" BY <1>2, <2>1 DEF FirstEnd
  <2>2. CASE e.kind # "payment" /\ e.end # Never BY <2>2 DEF FirstEnd
  <2>3. CASE e.kind # "payment" /\ e.end = Never
    <3>1. FirstEnd(e) = e.paid + Fallback BY <2>3 DEF FirstEnd
    <3> QED BY <1>1, <3>1 DEF Never
  <2> QED BY <2>1, <2>2, <2>3
<1>7. Dated(e) => FirstEnd(e) = Yield(e) BY DEF Dated, Yield, First, FirstEnd
<1>8. First(e) => e.kind # "payment" BY DEF First
<1>9. ~Dated(e) => e.kind # "payment" /\ e.end = Never BY DEF Dated, First
<1> QED BY <1>3, <1>5, <1>6, <1>7, <1>8, <1>9

LEMMA FollowsInsert ==
  ASSUME IInv, Follows, hist' = {}, NEW h \in Handlers, InsertRow(h)
  PROVE  Follows'
<1> PICK e : e = handler[h].ev OBVIOUS
<1> DEFINE taken == Found(Live) \cap ByCode(NewRow(e).code) # {}
<1>1. handler[h].pc = "insert" /\ UNCHANGED <<now, key, provider, covered, moves, pending, rec>>
  BY DEF InsertRow
<1>2. \/ /\ ~taken /\ Free # {} /\ Rest(h)
         /\ rows' = [rows EXCEPT ![CHOOSE i \in Free : \A j \in Free : i <= j] = NewRow(e)]
         /\ hist' = IF Free = Ids THEN hist ELSE hist \cup {"twice"}
      \/ /\ taken /\ UNCHANGED <<rows, hist>>
         /\ IF e.kind = "payment" THEN Go(h, "merge", e, 0) ELSE Rest(h)
  BY DEF InsertRow
<1>3. hist = {} BY <1>2
<1>4. /\ OneRow /\ InTurn /\ AllSent /\ SoleKept /\ Ends /\ Times /\ AllDoing /\ FirstPaid
  BY <1>3 DEF Follows
<1>5. e \in Open /\ WellSent(e)
  <2>1. e \in Open BY <1>1 DEF Open, Working
  <2> QED BY <1>4, <2>1 DEF AllSent
<1>6. /\ (e.kind = "payment" /\ e.by = "plan_id") \/ First(e)
      /\ e.batch > 1 => e.kind = "payment" /\ Exists
  BY <1>1, <1>4 DEF AllDoing, Doing
<1>7. /\ NewRow(e) \in Row /\ NewRow(e).status = "active" /\ (Dated(e) => NewRow(e).end = Yield(e))
      /\ NewRow(e).end # Never /\ NewRow(e).cancelAt = Never /\ ~NewRow(e).ended
      /\ NewRow(e).code = IF e.kind = "payment" /\ key = "reference" THEN "ref" ELSE "sub"
      /\ ~Dated(e) => e.kind = "created" /\ key = "session"
      /\ First(e) => e.kind # "payment"
  BY <1>5, <1>6, Kinds
<1>8. 1 <= e.batch /\ e.batch \in Nat /\ e.batch <= moves /\ moves \in Nat
  BY <1>4, <1>5, OpenTyped DEF InTurn
<1>9. CASE /\ Rest(h) /\ Free = Ids /\ Free # {}
           /\ rows' = [rows EXCEPT ![CHOOSE i \in Free : \A j \in Free : i <= j] = NewRow(e)]
  <2>1. 1 \in Ids /\ ~Exists
    <3>1. MaxRows \in Nat BY SyncAssumption
    <3>2. 1 \in Ids BY <1>9, <3>1 DEF Ids
    <3>3. "none" \in {"none"} OBVIOUS
    <3> QED BY <1>9, <3>2 DEF Free, Found, Exists, Sole
  <2>2. (CHOOSE i \in Free : \A j \in Free : i <= j) = 1
    <3>1. \A j \in Ids : j \in Nat /\ 1 <= j BY SyncAssumption DEF Ids
    <3>2. \A i \in Free : (\A j \in Free : i <= j) <=> i = 1 BY <1>9, <2>1, <3>1
    <3> QED BY <1>9, <2>1, <3>2
  <2>3. rows' = [rows EXCEPT ![1] = NewRow(e)] BY <1>9, <2>2
  <2>4. Sole' = NewRow(e) /\ OneRow' BY <1>4, <2>1, <2>3 DEF IInv, RowsOK, Rows, Sole, OneRow
  <2>5. Exists' BY <1>7, <2>1, <2>4 DEF Exists
  <2>6. e.batch = 1 BY <1>6, <1>8, <2>1
  <2>7. /\ Open' \subseteq Open /\ \A f \in Open : f # e => f \in Open'
        /\ \A f \in Open : e.batch <= f.batch
        /\ \A g \in Working' : \A f \in Open : handler'[g].ev.batch <= f.batch
        /\ \A g \in Handlers : handler'[g].pc # "idle" =>
             handler[g].pc # "idle" /\ handler'[g] = handler[g]
    BY <1>1, <1>4, <1>9, HandlerEnds
  <2>8. SoleKept' BY <1>7, <1>1, <2>4 DEF SoleKept
  <2>9. AllDoing' BY <1>1, <1>4, <2>1, <2>7, DoingKept
  \* Without a date of its own the event leaves that to the payment.
  <2>10. ASSUME ~Dated(e) PROVE \E p \in Open' : p \in Open /\ p.batch = 1 /\ Settles(p)
    <3>1. PICK p \in Open : p.kind = "payment" /\ p.batch = 1
      BY <1>4, <1>7, <1>8, <2>1, <2>10 DEF FirstPaid, FirstPaymentOpen, Open
    <3> QED BY <1>7, <2>7, <2>10, <3>1 DEF Settles
  <2>13. Ends'
    <3>1. CASE Dated(e) BY <1>1, <1>4, <1>5, <1>7, <1>8, <2>4, <2>5, <2>7, <3>1, EndsSet
    <3>2. CASE ~Dated(e) BY <1>1, <1>4, <1>5, <2>1, <2>7, <2>10, <3>2, EndsMade
    <3> QED BY <3>1, <3>2
  <2>11. ASSUME e.batch = moves PROVE Right' \/ Later'
    <3>1. Tells(e) /\ e.kind \in {"payment", "active", "created"}
      BY <1>5, <2>6, <2>11 DEF WellSent
    <3>2. CASE Dated(e)
      <4>1. provider.status = "active" /\ Yield(e) >= provider.end
        BY <3>1, <3>2 DEF Tells, Reaches
      <4> QED BY <1>1, <1>7, <2>4, <2>5, <3>2, <4>1 DEF Right, Reached
    <3>3. CASE ~Dated(e) BY <1>1, <2>6, <2>10, <2>11, <3>3 DEF Later, Settles
    <3> QED BY <3>2, <3>3
  <2>12. First(e) => Sole'.code = "sub" BY <1>7, <2>4
  <2>14. Settles(e) => Exists' /\ ~(Sole'.end > covered)
    <3>1. covered \in Nat /\ Yield(e) \in Nat BY <1>5, OpenTyped, Dues
    <3>2. Dated(e) => Yield(e) <= covered
      <4>1. Within(e) BY <1>1 DEF IInv, HandlersOK
      <4> QED BY <4>1 DEF Within, PaidFor, Yield, PaidEnd
    <3> QED BY <1>7, <2>4, <2>5, <3>1, <3>2 DEF Settles, Dated
  <2> QED BY <1>1, <1>3, <1>5, <2>1, <2>4, <2>5, <2>7, <2>8, <2>9, <2>11, <2>12, <2>13, <2>14, Handles
\* The row that is there has the code.
<1>10. CASE taken /\ UNCHANGED rows
  <2>1. Exists /\ Sole.code = NewRow(e).code
    <3>1. PICK i : i \in ByCode(NewRow(e).code) BY <1>10
    <3> QED BY <1>4, <3>1, Lookup
  <2>2. UNCHANGED <<Exists, Sole>> /\ OneRow' BY <1>4, <1>10 DEF Exists, Sole, OneRow
  <2>3. CASE e.kind = "payment" /\ Go(h, "merge", e, 0)
    <3> PICK w : w = [pc |-> "merge", ev |-> e, id |-> 0,
                      snap |-> IF 0 \in Ids THEN rows[0] ELSE NoRow] OBVIOUS
    <3>1. w.pc = "merge" /\ w.ev = e /\ handler' = [handler EXCEPT ![h] = w] BY <2>3 DEF Go
    <3>2. Doing(w) BY <1>6, <1>7, <2>1, <2>3, <3>1 DEF Doing
    <3>3. \A f \in Open : e.batch <= f.batch BY <1>1, <1>4 DEF InTurn, Working
    <3> QED BY <1>1, <1>3, <1>5, <1>10, <3>1, <3>2, <3>3, FollowsGo
  <2>4. CASE e.kind # "payment" /\ Rest(h)
    <3>1. e.batch = 1 /\ Sole.code = "sub" BY <1>6, <1>7, <2>1, <2>4 DEF First
    <3>2. ASSUME Retries, e.batch = moves PROVE Right' \/ Later'
      <4>1. Right \/ \E f \in Open : f.batch = moves /\ Settles(f)
        BY <1>3, <1>5, <2>1, <3>1, <3>2, WasRight
      <4>2. CASE Right BY <1>1, <2>2, <4>2 DEF Right, Reached
      <4>3. ASSUME NEW f \in Open, f.batch = moves, Settles(f) PROVE Later'
        <5>1. f \in Open' BY <1>1, <1>4, <2>4, <4>3, HandlerEnds DEF Settles
        <5> QED BY <1>1, <4>3, <5>1 DEF Later, Settles
      <4> QED BY <4>1, <4>2, <4>3
    <3>3. ~Settles(e) BY <2>4 DEF Settles
    <3> QED BY <1>1, <1>3, <1>4, <2>1, <2>2, <2>4, <3>1, <3>2, <3>3, Writes DEF SoleKept
  <2> QED BY <1>2, <1>10, <2>3, <2>4
<1> QED BY <1>2, <1>9, <1>10

LEMMA FollowsMerge ==
  ASSUME IInv, Follows, hist' = {}, NEW h \in Handlers, MergeRow(h)
  PROVE  Follows'
<1> PICK e : e = handler[h].ev OBVIOUS
<1>1. /\ handler[h].pc = "merge" /\ Rest(h) /\ hist = {}
      /\ UNCHANGED <<now, key, provider, covered, moves, pending, rec>>
      /\ \/ \E i \in ByCode(NewRow(e).code) :
              Update(i, [rows[i] EXCEPT !.status = "active", !.end = PaidEnd(e)])
         \/ ByCode(NewRow(e).code) = {} /\ UNCHANGED rows
  BY DEF MergeRow
<1>2. /\ OneRow /\ InTurn /\ AllSent /\ SoleKept /\ AllDoing BY <1>1 DEF Follows
<1>3. e \in Open BY <1>1, <1>2, HandlerEnds
<1>4. Exists /\ e.kind = "payment" /\ e.by = "plan_id" /\ WellSent(e)
  BY <1>1, <1>2, <1>3 DEF AllDoing, Doing, AllSent
<1>5. /\ NewRow(e).code = (IF key = "reference" THEN "ref" ELSE "sub") /\ NewRow(e).end = Yield(e)
      /\ NewRow(e).end # Never /\ Dated(e)
  BY <1>3, <1>4, Kinds DEF Dated
<1>6. Sole \in Row /\ PaidEnd(e) \in Nat /\ key \in {"code", "session", "reference"} /\ Yield(e) = PaidEnd(e)
      /\ ~First(e) /\ e.batch \in Nat
  BY <1>3, <1>4, OpenTyped, Dues DEF Exists, Yield, First
<1>7. CASE ByCode(NewRow(e).code) = {} /\ UNCHANGED rows
  <2>1. Sole.code # NewRow(e).code BY <1>2, <1>4, <1>7, Lookup
  <2>2. key = "reference" BY <1>2, <1>4, <1>5, <1>6, <2>1 DEF SoleKept
  <2>3. e.batch = 1 BY <1>4, <2>2 DEF WellSent
  <2>4. UNCHANGED <<Exists, Sole>> /\ OneRow' BY <1>2, <1>7 DEF Exists, Sole, OneRow
  <2>5. ASSUME Retries, e.batch = moves PROVE Right'
    <3>1. Right BY <1>1, <1>3, <1>4, <2>2, <2>3, <2>5, WasRight DEF Settles
    <3> QED BY <1>1, <2>4, <3>1 DEF Right, Reached
  <2>6. ~Settles(e) BY <2>2 DEF Settles
  <2> QED BY <1>1, <1>2, <1>4, <1>6, <2>3, <2>4, <2>5, <2>6, Writes DEF SoleKept
<1>8. ASSUME NEW i \in ByCode(NewRow(e).code),
             Update(i, [rows[i] EXCEPT !.status = "active", !.end = PaidEnd(e)])
      PROVE  Follows'
  <2> PICK row : row = [Sole EXCEPT !.status = "active", !.end = PaidEnd(e)] OBVIOUS
  <2>1. i = 1 BY <1>2, <1>8, Lookup
  <2>2. /\ row \in Row /\ row.status = "active" /\ row.code = Sole.code /\ row.end = PaidEnd(e)
        /\ row.cancelAt = Sole.cancelAt /\ row.ended = Sole.ended
    BY <1>6 DEF Row, Live
  <2>3. Update(1, row) BY <1>8, <2>1 DEF Sole
  <2>4. /\ OneRow' /\ Exists' /\ Sole'.status = "active" /\ Sole'.code = Sole.code
        /\ Sole'.end = PaidEnd(e) /\ Sole'.cancelAt = Sole.cancelAt /\ Sole'.ended = Sole.ended
    <3>1. OneRow' /\ Exists' /\ Sole' = Touched(row) BY <1>2, <1>4, <2>2, <2>3, SoleUpdated
    <3> QED BY <2>2, <3>1, TouchedRow
  <2>5. ASSUME e.batch = moves PROVE Right'
    <3>1. Tells(e) BY <1>4, <2>5 DEF WellSent
    <3>2. provider.status = "active" /\ Yield(e) >= provider.end
      BY <1>4, <1>5, <3>1 DEF Tells, Reaches
    <3> QED BY <1>1, <1>6, <2>4, <3>2 DEF Right, Reached
  <2> QED BY <1>1, <1>4, <1>5, <1>6, <2>4, <2>5, Writes
<1> QED BY <1>1, <1>7, <1>8

(* A sweep or the reconciliation, which handle no event.                   *)
LEMMA Sweeps ==
  ASSUME IInv, Follows, hist = {}, UNCHANGED <<now, key, provider, covered, moves, pending, handler>>,
         OneRow', Exists <=> Exists', Exists => SoleKept', Sole.code = "sub" => Sole'.code = "sub",
         Exists /\ Sole.ended => Sole'.ended, Reached => Reached', Reading',
         Exists /\ Sole'.end > covered => Sole.end > covered, Retries /\ Right => Right'
  PROVE  Follows'
<1>1. OneRow /\ Times /\ InTurn /\ AllSent /\ SoleKept /\ Linking /\ AllDoing /\ Ends /\ Newest
      /\ FirstPaid
  BY DEF Follows
<1>2. Open' = Open /\ Working' = Working BY DEF Open, Working
<1>3. Times' BY <1>1, <1>2 DEF Times
<1>4. InTurn' BY <1>1, <1>2 DEF InTurn
<1>5. AllSent' BY <1>1, <1>2 DEF AllSent, WellSent, Tells, Reaches, Dated, Yield, PaidEnd
<1>6. SoleKept' /\ Linking' /\ Newest' BY <1>1, <1>2 DEF SoleKept, Linking, First, Newest, Later, Settles
<1>7. AllDoing' BY <1>1, <1>2, DoingKept
<1>8. Ends' BY <1>1, <1>2, EndsKept
<1>9. FirstPaid' BY <1>1, <1>2 DEF FirstPaid, FirstPaymentOpen, Open
<1> QED BY <1>3, <1>4, <1>5, <1>6, <1>7, <1>8, <1>9 DEF Follows

\* What ends a row early, and what marks it past due, is never true of one that is right.
LEMMA NotStale ==
  ASSUME Retries, IInv, Follows, hist = {}, Exists, Sole.status = "active", now > Sole.end + Stale,
         Right
  PROVE  provider.status = "active" /\ Sole.cancelAt # Never
<1>1. /\ now \in Nat /\ Stale \in Nat /\ provider.end \in Nat /\ Sole.end \in Nat
  BY OpenTyped DEF Exists
<1>2. Times BY DEF Follows
<1> QED BY <1>1, <1>2 DEF Right, Times

LEMMA NotDue ==
  ASSUME IInv, Follows, hist = {}, Exists, CancelDue(Sole), Right
  PROVE  provider.status = "active"
<1>1. now \in Nat /\ provider.end \in Nat /\ Sole.cancelAt \in Nat BY OpenTyped DEF Exists, Row
<1>2. Times BY DEF Follows
<1> QED BY <1>1, <1>2 DEF Right, Times, CancelDue

LEMMA FollowsEnded ==
  ASSUME IInv, Follows, hist = {}, UNCHANGED <<now, key, provider, covered, moves, pending, handler>>,
         Exists, CancelDue(Sole) \/ (provider.status = "canceled" /\ Sole.status # "canceled"),
         OneRow', Exists', Reading',
         Sole' = Touched([Sole EXCEPT !.status = "canceled", !.ended = TRUE])
  PROVE  Follows'
<1> PICK row : row = [Sole EXCEPT !.status = "canceled", !.ended = TRUE] OBVIOUS
<1>1. SoleKept BY DEF Follows
<1>2. Sole \in Row BY OpenTyped DEF Exists
<1>3. /\ row \in Row /\ row.status = "canceled" /\ row.ended = TRUE /\ row.end = Sole.end
      /\ row.code = Sole.code /\ row.cancelAt = Sole.cancelAt
  BY <1>2 DEF Row
<1>4. /\ Sole'.status = "canceled" /\ Sole'.ended = TRUE /\ Sole'.end = Sole.end
      /\ Sole'.code = Sole.code /\ Sole'.cancelAt = Sole.cancelAt
  BY <1>3, TouchedRow
<1>5. SoleKept' BY <1>1, <1>4 DEF SoleKept, CancelDue
<1>6. Reached' BY <1>4 DEF Reached
<1>7. ASSUME Right PROVE Right'
  <2>1. CASE CancelDue(Sole)
    <3>1. provider.status = "active" BY <1>7, <2>1, NotDue
    <3> QED BY <1>4, <1>6, <2>1, <3>1 DEF Right, CancelDue
  <2>2. CASE provider.status = "canceled" BY <1>4, <2>2 DEF Right
  <2> QED BY <2>1, <2>2
<1> QED BY <1>4, <1>5, <1>6, <1>7, Sweeps

LEMMA FollowsStale ==
  ASSUME IInv, Follows, hist = {}, UNCHANGED <<now, key, provider, covered, moves, pending, handler>>,
         Exists, Sole.status = "active", now > Sole.end + Stale,
         OneRow', Exists', Reading', Sole' = Touched([Sole EXCEPT !.status = "past_due"])
  PROVE  Follows'
<1> PICK row : row = [Sole EXCEPT !.status = "past_due"] OBVIOUS
<1>1. SoleKept BY DEF Follows
<1>2. Sole \in Row BY OpenTyped DEF Exists
<1>3. /\ row \in Row /\ row.status = "past_due" /\ row.ended = Sole.ended /\ row.end = Sole.end
      /\ row.code = Sole.code /\ row.cancelAt = Sole.cancelAt
  BY <1>2 DEF Row, Live
<1>4. /\ Sole'.status = "past_due" /\ Sole'.ended = Sole.ended /\ Sole'.end = Sole.end
      /\ Sole'.code = Sole.code /\ Sole'.cancelAt = Sole.cancelAt
  BY <1>3, TouchedRow
<1>5. SoleKept' BY <1>1, <1>4 DEF SoleKept
<1>6. Reached => Reached' BY <1>4 DEF Reached
<1>7. ASSUME Retries, Right PROVE Right'
  <2>1. provider.status = "active" /\ Sole.cancelAt # Never BY <1>7, NotStale
  <2> QED BY <1>4, <1>6, <1>7, <2>1 DEF Right
<1> QED BY <1>4, <1>5, <1>6, <1>7, Sweeps

LEMMA FollowsSweep ==
  ASSUME IInv, Follows, hist' = {}, CheckSweep
  PROVE  Follows'
<1> DEFINE new(i) == CASE i \in Canceled(check.seen) ->
                            Touched([rows[i] EXCEPT !.status = "canceled", !.ended = TRUE])
                       [] i \in GoneStale(check.seen) -> Touched([rows[i] EXCEPT !.status = "past_due"])
                       [] OTHER -> rows[i]
           next == [i \in Ids |-> new(i)]
<1>1. /\ UNCHANGED <<now, key, provider, covered, moves, pending, handler, rec>>
      /\ rows' = IF Unique(next) THEN next ELSE rows
  BY DEF CheckSweep
<1>2. hist = {} /\ \A i \in Canceled(check.seen) \cup GoneStale(check.seen) : rows[i] = check.seen[i]
  BY DEF CheckSweep
<1>3. /\ \A i \in Canceled(check.seen) : i \in Ids /\ CancelDue(rows[i])
      /\ \A i \in GoneStale(check.seen) :
           i \in Ids /\ PeriodStale(rows[i]) /\ i \notin Canceled(check.seen)
  BY <1>2 DEF Canceled, GoneStale
<1>4. OneRow /\ Reading BY <1>2 DEF Follows
<1>5. ASSUME NEW i \in Ids, i # 1 PROVE new(i) = rows[i]
  BY <1>3, <1>4, <1>5 DEF OneRow, CancelDue, PeriodStale
<1>6. Reading' BY <1>1, <1>4 DEF Reading
<1>7. CASE UNCHANGED rows
  <2>1. OneRow' BY <1>4, <1>7 DEF OneRow
  <2>2. UNCHANGED <<Exists, Sole>> BY <1>7 DEF Exists, Sole
  <2>3. SoleKept /\ (Reached => Reached') /\ (Right => Right')
    BY <1>1, <1>2, <2>2 DEF Follows, Reached, Right
  <2>4. SoleKept' BY <1>1, <2>2, <2>3 DEF SoleKept
  <2> QED BY <1>1, <1>2, <1>6, <2>1, <2>2, <2>3, <2>4, Sweeps
<1>8. CASE rows' = next /\ 1 \in Ids /\ new(1) # rows[1]
  <2>1. OneRow'
    <3>1. \A i \in Ids : i # 1 => rows'[i] = rows[i] BY <1>5, <1>8
    <3> QED BY <1>4, <3>1 DEF OneRow
  <2>2. Sole' = new(1) BY <1>8 DEF Sole
  <2>3. CASE 1 \in Canceled(check.seen)
    <3>1. Sole' = Touched([Sole EXCEPT !.status = "canceled", !.ended = TRUE])
      <4>1. new(1) = Touched([rows[1] EXCEPT !.status = "canceled", !.ended = TRUE])
        BY <1>3, <2>3
      <4> HIDE DEF new
      <4> QED BY <2>2, <4>1 DEF Sole
    <3>2. CancelDue(Sole) BY <1>3, <2>3 DEF Sole
    <3>3. Exists BY <1>8, <3>2 DEF Exists, CancelDue
    <3>4. Exists'
      <4> PICK row : row = [Sole EXCEPT !.status = "canceled", !.ended = TRUE] OBVIOUS
      <4>1. Sole \in Row BY <1>8, OpenTyped
      <4>2. row \in Row /\ row.status = "canceled" BY <4>1 DEF Row
      <4>3. Sole'.status = "canceled" BY <3>1, <4>2, TouchedRow
      <4> QED BY <1>8, <4>3 DEF Exists
    <3> HIDE DEF new
    <3> QED BY <1>1, <1>2, <1>6, <2>1, <3>1, <3>2, <3>3, <3>4, FollowsEnded
  <2>4. CASE 1 \notin Canceled(check.seen) /\ 1 \in GoneStale(check.seen)
    <3>1. Sole' = Touched([Sole EXCEPT !.status = "past_due"]) BY <2>2, <2>4 DEF Sole
    <3>2. Sole.status = "active" /\ now > Sole.end + Stale BY <1>3, <2>4 DEF Sole, PeriodStale
    <3>3. Exists BY <1>8, <3>2 DEF Exists
    <3>4. Exists'
      <4> PICK row : row = [Sole EXCEPT !.status = "past_due"] OBVIOUS
      <4>1. Sole \in Row BY <1>8, OpenTyped
      <4>2. row \in Row /\ row.status = "past_due" BY <4>1 DEF Row, Live
      <4>3. Sole'.status = "past_due" BY <3>1, <4>2, TouchedRow
      <4> QED BY <1>8, <4>3 DEF Exists
    <3> HIDE DEF new
    <3> QED BY <1>1, <1>2, <1>6, <2>1, <3>1, <3>2, <3>3, <3>4, FollowsStale
  <2> QED BY <1>8, <2>3, <2>4
<1>9. ASSUME rows' = next, ~(1 \in Ids /\ new(1) # rows[1]) PROVE UNCHANGED rows
  <2>1. \A i \in Ids : new(i) = rows[i] BY <1>5, <1>9
  <2>2. rows = [i \in Ids |-> rows[i]] BY DEF IInv, RowsOK, Rows
  <2> HIDE DEF new
  <2> QED BY <1>9, <2>1, <2>2
<1> HIDE DEF new
<1> QED BY <1>1, <1>7, <1>8, <1>9

LEMMA FollowsCheck ==
  ASSUME IInv, Follows, hist' = {}, Check
  PROVE  Follows'
<1>1. CASE CheckRead
  <2>1. UNCHANGED <<now, key, provider, covered, moves, pending, rows, handler, rec>> /\ hist = {}
    BY <1>1 DEF CheckRead
  <2>2. OneRow /\ SoleKept /\ Reading BY <2>1 DEF Follows
  <2>3. UNCHANGED <<Exists, Sole>> /\ OneRow' BY <2>1, <2>2 DEF Exists, Sole, OneRow
  <2>4. SoleKept' /\ Reading' BY <2>1, <2>2, <2>3 DEF SoleKept, Reading
  <2>5. (Reached => Reached') /\ (Right => Right') BY <2>1, <2>3 DEF Reached, Right
  <2> QED BY <2>1, <2>3, <2>4, <2>5, Sweeps
<1> QED BY <1>1, FollowsSweep DEF Check

(* The reconciliation.  What it writes, it writes over the row it read,    *)
(* with the period the provider still has.                                 *)
LEMMA FollowsRead ==
  ASSUME IInv, Follows, hist = {}, UNCHANGED <<now, key, provider, covered, moves, pending, handler, rows>>,
         Reading'
  PROVE  Follows'
<1>1. OneRow /\ SoleKept BY DEF Follows
<1>2. UNCHANGED <<Exists, Sole>> /\ OneRow' BY <1>1 DEF Exists, Sole, OneRow
<1>3. SoleKept' BY <1>1, <1>2 DEF SoleKept
<1>4. (Reached => Reached') /\ (Right => Right') BY <1>2 DEF Reached, Right
<1> QED BY <1>2, <1>3, <1>4, Sweeps

LEMMA FollowsRecWrite ==
  ASSUME IInv, Follows, hist' = {}, RecWrite
  PROVE  Follows'
<1> PICK new : new = Reconciled(rows[rec.id]) OBVIOUS
<1>1. /\ rec.pc = "write" /\ rec' = [pc |-> "idle"]
      /\ UNCHANGED <<now, key, provider, covered, moves, pending, handler>>
      /\ \/ new = rows[rec.id] /\ UNCHANGED <<rows, cache, hist>>
         \/ /\ new # rows[rec.id] /\ Update(rec.id, new)
            /\ hist' = IF rows[rec.id] = rec.snap /\ rec.end = provider.end THEN hist
                       ELSE hist \cup {"raced"}
  BY DEF RecWrite
<1>2. hist = {} BY <1>1
<1>3. OneRow /\ SoleKept /\ Reading /\ Times BY <1>2 DEF Follows
<1>4. Reading' BY <1>1 DEF Reading
<1>5. CASE UNCHANGED rows BY <1>1, <1>2, <1>4, <1>5, FollowsRead
<1>6. CASE new # rows[rec.id] /\ Update(rec.id, new) /\ rows[rec.id] = rec.snap
           /\ rec.end = provider.end
  <2>1. /\ rec.id = 1 /\ 1 \in Ids /\ Sole.status = "active" /\ Exists /\ Sole.end # Never
        /\ Sole = rec.snap /\ Update(1, new) /\ Sole \in Row /\ new \in Row
        /\ new = Reconciled(Sole) /\ new # Sole /\ provider.end \in Nat
        /\ rec.verdict \in {"terminal", "pending", "active", "stale"}
        /\ rec.verdict = "stale" => now > Sole.end + Stale
        /\ rec.verdict = "terminal" => provider.status = "canceled"
        /\ covered \in Nat /\ provider.end <= covered
    <3>1. /\ rec.id = 1 /\ rec.snap.status = "active" /\ rec.snap.end # Never
          /\ rec.verdict = "stale" => now > rec.snap.end + Stale
          /\ rec.verdict = "terminal" => provider.status = "canceled"
      BY <1>1, <1>3 DEF Reading
    <3>2. rec.id \in Ids /\ rec.verdict \in {"terminal", "pending", "active", "stale"}
      BY <1>1 DEF IInv, RecOK
    <3>3. Sole = rec.snap /\ Sole = rows[rec.id] BY <1>6, <3>1 DEF Sole
    <3>4. Sole \in Row /\ Allowed(Sole.end) /\ provider.end \in Nat
          /\ covered \in Nat /\ provider.end <= covered
      BY <3>1, <3>2, OpenTyped DEF IInv, ProviderOK, RowsOK, Sole
    <3>5. new \in Row BY <1>1, <3>3, <3>4, ReconciledTyped
    <3> QED BY <1>6, <3>1, <3>2, <3>3, <3>4, <3>5 DEF Exists
  <2>2. ASSUME new.status # "none"
        PROVE  OneRow' /\ Exists' /\ Sole' = Touched(new)
    BY <1>3, <2>1, <2>2, SoleUpdated
  <2>3. CASE rec.verdict = "terminal"
    <3>1. new = [Sole EXCEPT !.status = "canceled", !.ended = TRUE]
      BY <2>1, <2>3 DEF Reconciled
    <3>2. new.status = "canceled" BY <2>1, <3>1 DEF Row
    <3> QED BY <1>1, <1>2, <1>4, <2>1, <2>2, <2>3, <3>1, <3>2, FollowsEnded
  <2>4. CASE rec.verdict = "stale"
    <3>1. new = [Sole EXCEPT !.status = "past_due"] BY <2>1, <2>4 DEF Reconciled
    <3>2. new.status = "past_due" BY <2>1, <3>1 DEF Row
    <3> QED BY <1>1, <1>2, <1>4, <2>1, <2>2, <2>4, <3>1, <3>2, FollowsStale
  <2>5. CASE rec.verdict = "pending"
    <3>1. new = [Sole EXCEPT !.status = "pending_cancel", !.cancelAt = Sole.end]
      BY <2>1, <2>5 DEF Reconciled
    <3>2. /\ new.status = "pending_cancel" /\ new.cancelAt = Sole.end /\ new.end = Sole.end
          /\ new.code = Sole.code /\ new.ended = Sole.ended
      BY <2>1, <3>1 DEF Row
    <3>3. /\ OneRow' /\ Exists' /\ Sole'.status = "pending_cancel" /\ Sole'.cancelAt = Sole.end
          /\ Sole'.end = Sole.end /\ Sole'.code = Sole.code /\ Sole'.ended = Sole.ended
      BY <2>1, <2>2, <3>2, TouchedRow
    <3>4. SoleKept' BY <1>1, <1>3, <2>1, <3>3 DEF SoleKept
    <3>5. Reached => Reached' BY <1>1, <3>3 DEF Reached
    <3>6. Right => Right' BY <1>1, <2>1, <3>3, <3>5 DEF Right
    <3> QED BY <1>1, <1>2, <1>4, <2>1, <3>3, <3>4, <3>5, <3>6, Sweeps
  <2>6. CASE rec.verdict = "active"
    <3>1. new = [Sole EXCEPT !.status = "active", !.end = provider.end]
      BY <1>6, <2>1, <2>6 DEF Reconciled
    <3>2. /\ new.status = "active" /\ new.cancelAt = Sole.cancelAt /\ new.end = provider.end
          /\ new.code = Sole.code /\ new.ended = Sole.ended
      BY <2>1, <3>1 DEF Row
    <3>3. /\ OneRow' /\ Exists' /\ Sole'.status = "active" /\ Sole'.cancelAt = Sole.cancelAt
          /\ Sole'.end = provider.end /\ Sole'.code = Sole.code /\ Sole'.ended = Sole.ended
      BY <2>1, <2>2, <3>2, TouchedRow
    <3>4. provider.end # Never
      <4>1. moves \in Nat /\ moves # 0 BY <1>3, <2>1, OpenTyped DEF Times
      <4> QED BY <1>3, <2>1, <4>1 DEF Times, Never
    <3>5. SoleKept' BY <1>1, <1>3, <2>1, <3>3, <3>4 DEF SoleKept
    <3>6. Reached' BY <1>1, <2>1, <3>3 DEF Reached
    <3>7. Right => Right' BY <1>1, <2>1, <3>3, <3>6 DEF Right
    <3> QED BY <1>1, <1>2, <1>4, <2>1, <3>3, <3>5, <3>6, <3>7, Sweeps
  <2> QED BY <2>1, <2>3, <2>4, <2>5, <2>6
<1> QED BY <1>1, <1>2, <1>5, <1>6

LEMMA FollowsReconcile ==
  ASSUME IInv, Follows, hist' = {}, Reconcile
  PROVE  Follows'
<1>1. CASE RecLoad
  <2>1. UNCHANGED <<now, key, provider, covered, moves, pending, rows, handler>> /\ hist = {}
    BY <1>1 DEF RecLoad
  <2>2. PICK i \in Found({"active"}) : rec' = [pc |-> "fetch", id |-> i, snap |-> rows[i]]
    BY <1>1 DEF RecLoad
  <2>3. OneRow /\ SoleKept BY <2>1 DEF Follows
  <2>4. i = 1 /\ Exists /\ Sole.status = "active"
    <3>1. {"active"} \in SUBSET (Live \cup {"canceled"}) BY DEF Live
    <3> QED BY <2>2, <2>3, <3>1, Lookup
  <2>5. rec' = [pc |-> "fetch", id |-> 1, snap |-> Sole] BY <2>2, <2>4 DEF Sole
  <2>6. Reading' BY <2>3, <2>4, <2>5 DEF Reading, SoleKept
  <2> QED BY <2>1, <2>6, FollowsRead
<1>2. CASE RecFetch
  <2>1. UNCHANGED <<now, key, provider, covered, moves, pending, rows, handler>> /\ hist = {}
        /\ rec.pc = "fetch"
    BY <1>2 DEF RecFetch
  <2>2. Reading BY <2>1 DEF Follows
  <2>3. rec.id = 1 /\ rec.snap.status = "active" /\ rec.snap.end # Never
    BY <2>1, <2>2 DEF Reading
  <2>4. PICK answer \in Answers(rec.snap) :
          LET advanced == answer = "active" /\ provider.end > rec.snap.end
              verdict == IF answer = "error" \/ (answer = "active" /\ ~advanced)
                         THEN IF now > rec.snap.end + Stale THEN "stale" ELSE "none"
                         ELSE answer
          IN rec' = IF verdict = "none" THEN [pc |-> "idle"]
                    ELSE [pc |-> "write", id |-> rec.id, snap |-> rec.snap, verdict |-> verdict,
                          end |-> provider.end]
    BY <1>2 DEF RecFetch
  <2>5. answer = "terminal" => provider.status = "canceled" BY <2>4 DEF Answers
  <2>6. answer # "stale" BY <2>4 DEF Answers
  <2>7. \/ rec' = [pc |-> "idle"]
        \/ \E verdict : /\ rec' = [pc |-> "write", id |-> rec.id, snap |-> rec.snap,
                                   verdict |-> verdict, end |-> provider.end]
                        /\ verdict = "stale" => now > rec.snap.end + Stale
                        /\ verdict = "terminal" => provider.status = "canceled"
    BY <2>4, <2>5, <2>6
  <2>8. Reading' BY <2>1, <2>3, <2>7 DEF Reading
  <2> QED BY <2>1, <2>8, FollowsRead
<1> QED BY <1>1, <1>2, FollowsRecWrite DEF Reconcile

LEMMA FollowsTick ==
  ASSUME IInv, Follows, hist' = {}, Tick
  PROVE  Follows'
<1>1. /\ now' = now + 1 /\ UNCHANGED <<key, provider, covered, moves, pending, rows, handler, rec, hist>>
      /\ provider.status # "none" /\ rec.pc = "idle"
      /\ provider.status \in {"active", "canceling"} => now < provider.end
      /\ provider.status = "past_due" => now < provider.failed + Window
  BY DEF Tick
<1>2. OneRow /\ Times /\ InTurn /\ AllSent /\ SoleKept /\ Linking /\ AllDoing /\ Ends /\ Newest
      /\ FirstPaid
  BY <1>1 DEF Follows
<1>3. now \in Nat /\ provider.end \in Nat /\ provider.failed \in Nat /\ Stale \in Nat /\ Window \in Nat
  BY OpenTyped
<1>4. Open' = Open /\ Working' = Working /\ UNCHANGED <<Exists, Sole>>
  BY <1>1 DEF Open, Working, Exists, Sole
<1>5. Times'
  <2>1. provider.status = "active" => now + 1 <= provider.end + Stale BY <1>1, <1>3
  <2>2. provider.status = "canceling" => now + 1 <= provider.end BY <1>1, <1>3
  <2>3. provider.status = "past_due" =>
          /\ provider.failed = provider.end /\ provider.end <= now + 1
          /\ now + 1 <= provider.failed + Window
    BY <1>1, <1>2, <1>3 DEF Times
  <2>4. now + 1 >= 1 BY <1>3
  <2> QED BY <1>1, <1>2, <1>4, <2>1, <2>2, <2>3, <2>4 DEF Times
<1>6. OneRow' /\ InTurn' /\ SoleKept' /\ Linking'
  BY <1>1, <1>2, <1>4 DEF OneRow, InTurn, SoleKept, Linking, First
<1>7. AllSent' BY <1>1, <1>2, <1>4 DEF AllSent, WellSent, Tells, Reaches, Dated, Yield, PaidEnd
<1>8. AllDoing' BY <1>1, <1>2, <1>4, DoingKept
<1>9. Ends' BY <1>1, <1>2, <1>4
      DEF Ends, Reached, Carries, Settles, Reaches, Dated, Yield, PaidEnd
<1>10. Newest' BY <1>1, <1>2, <1>4 DEF Newest, Later, Settles, Right, Reached
<1>11. Reading' BY <1>1 DEF Reading
<1>12. FirstPaid' BY <1>1, <1>2, <1>4 DEF FirstPaid, FirstPaymentOpen, Open
<1> QED BY <1>5, <1>6, <1>7, <1>8, <1>9, <1>10, <1>11, <1>12 DEF Follows

LEMMA FollowsStep == IInv /\ Follows /\ [Next]_vars => Follows'
<1> SUFFICES ASSUME IInv, Follows, [Next]_vars, hist' = {} PROVE Follows'
  BY DEF Follows
<1>1. CASE Provider
  <2>1. hist = {}
    BY <1>1 DEF Provider, Begin, Renew, RenewalFails, Recover, CancelAtEnd, Uncancel, End, Move
  <2> QED BY <1>1, <2>1, FollowsMoves
<1>2. CASE Tick BY <1>2, FollowsTick
<1>3. ASSUME NEW h \in Handlers, Handle(h) PROVE Follows'
  BY <1>3, FollowsWrite, FollowsLink, FollowsInsert, FollowsMerge DEF Handle
<1>4. ASSUME NEW h \in Handlers, NEW e \in pending, Deliver(h, e) PROVE Follows'
  BY <1>4, FollowsDeliver
<1>5. ASSUME NEW e \in pending, Lose(e) PROVE Follows' BY <1>5 DEF Lose
<1>6. CASE Check BY <1>6, FollowsCheck
<1>7. CASE Reconcile BY <1>7, FollowsReconcile
<1>8. CASE UNCHANGED vars
  <2>1. UNCHANGED <<now, key, provider, covered, moves, pending, handler, rows, rec, hist>>
    BY <1>8 DEF vars
  <2>2. Reading' BY <2>1 DEF Follows, Reading
  <2> QED BY <2>1, <2>2, FollowsRead
<1> QED BY <1>1, <1>2, <1>3, <1>4, <1>5, <1>6, <1>7, <1>8 DEF Next

LEMMA FollowsImplies ==
  ASSUME Retries, IInv, Follows
  PROVE  FollowsProvider
<1> SUFFICES ASSUME Quiet, hist = {}
             PROVE  /\ ProviderServes => Entitled \/ Leftover
                    /\ provider.status = "canceled" => ~Entitled
  BY DEF FollowsProvider
<1>1. OneRow /\ Times /\ Newest BY DEF Follows
<1>2. Open = {}
  <2>1. pending = {} /\ Working = {} BY DEF Quiet, Working
  <2> QED BY <2>1 DEF Open
<1>3. /\ now \in Nat /\ provider.end \in Nat /\ provider.failed \in Nat /\ Stale \in Nat
      /\ Window \in Nat /\ Grace \in Nat /\ moves \in Nat
      /\ 1 \in Ids => /\ Sole.end \in Nat /\ Sole.cancelAt \in Nat /\ Sole.since \in Nat
                      /\ Sole.updated \in Nat
  BY OpenTyped DEF Row
<1>4. provider.status # "none" => Right BY <1>1, <1>2, <1>3 DEF Newest, Later, Times
<1>5. Right => 1 \in Ids /\ (Grants(Sole) => Entitled) BY DEF Right, Exists, Entitled, Sole
<1>6. CASE provider.status = "active"
  <2>1. CASE Sole.cancelAt # Never
    <3>1. Leftover BY <1>4, <1>5, <1>6, <2>1 DEF Leftover, Sole
    <3> QED BY <1>6, <3>1
  <2>2. CASE Sole.cancelAt = Never
    <3>1. Sole.status = "active" /\ Sole.end >= provider.end BY <1>4, <1>6, <2>2 DEF Right
    <3>2. ~CancelDue(Sole) BY <2>2 DEF CancelDue
    <3>3. ~PeriodStale(Sole) BY <1>1, <1>3, <1>4, <1>5, <1>6, <3>1 DEF PeriodStale, Times
    <3> QED BY <1>4, <1>5, <1>6, <3>1, <3>2, <3>3 DEF Grants
  <2> QED BY <2>1, <2>2
<1>7. CASE provider.status = "canceling"
  <2>1. Sole.status = "pending_cancel" /\ (Sole.ended \/ Sole.cancelAt >= provider.end)
    BY <1>4, <1>7 DEF Right
  <2>2. now <= provider.end BY <1>1, <1>7 DEF Times
  <2>3. ~CancelDue(Sole) BY <1>3, <1>4, <1>5, <1>7, <2>1, <2>2 DEF CancelDue
  <2>4. ~PeriodStale(Sole) BY <2>1 DEF PeriodStale
  <2> QED BY <1>4, <1>5, <1>7, <2>1, <2>3, <2>4 DEF Grants
<1>8. CASE provider.status = "past_due"
  <2>1. /\ Sole.status = "past_due" /\ (Sole.since # Never \/ Sole.updated >= provider.failed)
        /\ now <= provider.failed + Window
    BY <1>1, <1>4, <1>8 DEF Right, Times
  <2>2. now <= provider.failed + Grace BY <1>3, <2>1 DEF Retries
  <2>3. CASE Sole.since # Never /\ Sole.since < provider.failed
    <3>1. Leftover BY <1>4, <1>5, <1>8, <2>1, <2>3 DEF Leftover, Sole
    <3> QED BY <1>8, <3>1
  <2>4. CASE ~(Sole.since # Never /\ Sole.since < provider.failed)
    <3>1. InGrace(Sole)
      <4>1. CASE Sole.since # Never
        <5>1. Sole.since >= provider.failed BY <1>3, <1>4, <1>5, <1>8, <2>4, <4>1
        <5>2. now <= Sole.since + Grace BY <1>3, <1>4, <1>5, <1>8, <2>2, <5>1
        <5> QED BY <4>1, <5>2 DEF InGrace
      <4>2. CASE Sole.since = Never
        <5>1. now <= Sole.updated + Grace BY <1>3, <1>4, <1>5, <1>8, <2>1, <2>2, <4>2
        <5> QED BY <4>2, <5>1 DEF InGrace
      <4> QED BY <4>1, <4>2
    <3> QED BY <1>4, <1>5, <1>8, <2>1, <3>1 DEF Grants
  <2> QED BY <2>3, <2>4
<1>9. CASE provider.status = "canceled"
  <2>1. Sole.status = "canceled" BY <1>4, <1>9 DEF Right
  <2>2. ASSUME NEW i \in Ids PROVE ~Grants(rows[i])
    BY <1>1, <2>1 DEF Grants, OneRow, Sole
  <2> QED BY <1>9, <2>2 DEF Entitled, ProviderServes
<1> QED BY <1>6, <1>7, <1>8, <1>9 DEF ProviderServes

(* No event, however late or often it is handled, and no sweep or          *)
(* reconciliation gives a row a period beyond what was paid for, but the   *)
(* 30 days that handleSubscriptionCreated gives a row of an event without  *)
(* a date; and if events were handled once and in order, those are gone    *)
(* once the first payment is handled (subscription-created.ts:304,         *)
(* charge-success.ts, overage-billing.ts).                                 *)
THEOREM NothingUnpaid == Spec => []NoFreePeriod
<1>1. ASSUME IInv, Follows PROVE NoFreePeriod
  <2> SUFFICES ASSUME NEW i \in Ids \ Free, rows[i].end > covered
               PROVE  /\ key = "session" /\ rows[i].end = Start + Fallback
                      /\ hist = {} => FirstPaymentOpen
    BY DEF NoFreePeriod
  <2>1. Allowed(rows[i].end) /\ rows[i].end \in Nat /\ covered \in Nat
    BY <1>1 DEF IInv, ClockOK, RowsOK, Rows, Row
  <2>2. key = "session" /\ rows[i].end = Start + Fallback BY <2>1 DEF Allowed
  <2>3. ASSUME hist = {} PROVE FirstPaymentOpen
    <3>1. OneRow /\ Times /\ FirstPaid BY <1>1, <2>3 DEF Follows
    <3>2. i = 1 /\ Exists BY <3>1 DEF OneRow, Free, Found, Exists, Sole
    <3>3. moves \in Nat /\ moves # 0 BY <1>1, <3>1, <3>2, OpenTyped DEF Times
    <3> QED BY <2>2, <3>1, <3>2, <3>3 DEF FirstPaid, Sole
  <2> QED BY <2>2, <2>3
<1>2. Init => IInv /\ Follows BY InitHolds, FollowsInit
<1>3. IInv /\ Follows /\ [Next]_vars => (IInv /\ Follows)' BY Step, FollowsStep
<1> QED BY <1>1, <1>2, <1>3, PTL DEF Spec

(* When every event was handled once and in order, and no sweep or         *)
(* reconciliation overtook one, what /check answers is what the provider   *)
(* says, through any renewals, failures, recoveries and cancellations: for *)
(* any periods, delays, repetitions and handlers at once, if the provider  *)
(* retries no longer than the window of grace (dunning.ts:39,              *)
(* subscription-status.ts, charge-success.ts, entitlements.ts:1498).       *)
THEOREM AccessFollows == ASSUME Retries PROVE Spec => []FollowsProvider
<1>1. Init => IInv /\ Follows BY InitHolds, FollowsInit
<1>2. IInv /\ Follows /\ [Next]_vars => (IInv /\ Follows)' BY Step, FollowsStep
<1>3. IInv /\ Follows => FollowsProvider BY FollowsImplies
<1> QED BY <1>1, <1>2, <1>3, PTL DEF Spec

-----------------------------------------------------------------------------
(* CatalogSync, for any prices, providers and requests at once.  The       *)
(* invariant adds that the row's own id counts as linked, and that whoever *)
(* is at work has a price, the row it read, and an object by the time it   *)
(* links one.                                                              *)
WellKept(r) ==
  /\ r.pc # "idle" => r.price \in Prices /\ r.seen \in Item
  /\ r.pc = "claim" => r.ref \in Refs
LinkInv == /\ item.ref # None => item.ref \in linked
           /\ sold \subseteq linked
Kept == \A a \in Actors : WellKept(act[a])

CatalogInv == CatalogTypeOK /\ LinkInv /\ Kept

-----------------------------------------------------------------------------
LEMMA Constants ==
  /\ None \notin Nat /\ Default \in Providers /\ TooSmall \subseteq Prices
  /\ MaxObjects \in Nat /\ 1 \in Refs /\ Refs \subseteq Nat /\ None \notin Refs
BY CatalogAssumption DEF Refs

LEMMA IdleKept == Idle \in Request /\ WellKept(Idle)
BY DEF Idle, Request, Ops, Steps, WellKept

LEMMA TargetProvider == ASSUME NEW p \in Providers \cup {None} PROVE Target(p) \in Providers
BY Constants DEF Target

(* A request put in place of another keeps the table of requests in order. *)
LEMMA BecomeKept ==
  ASSUME act \in [Actors -> Request], Kept, NEW a \in Actors, NEW r \in Request, WellKept(r),
         Become(a, r)
  PROVE  act' \in [Actors -> Request] /\ Kept'
<1>1. act' = [act EXCEPT ![a] = r]  BY DEF Become
<1>2. act' \in [Actors -> Request]  BY <1>1
<1>3. ASSUME NEW b \in Actors PROVE WellKept(act'[b])
  <2>1. act'[b] = IF b = a THEN r ELSE act[b]  BY <1>1
  <2> QED  BY <2>1 DEF Kept
<1>4. Kept'
  <2>1. \A b \in Actors : WellKept(act'[b])  BY <1>3
  <2> QED  BY <2>1 DEF Kept, WellKept
<1> QED  BY <1>2, <1>4

LEMMA FinishKept ==
  ASSUME act \in [Actors -> Request], Kept, NEW a \in Actors, Finish(a)
  PROVE  act' \in [Actors -> Request] /\ Kept'
BY BecomeKept, IdleKept DEF Finish

LEMMA CatalogInitInv == CatalogInit => CatalogInv
<1> SUFFICES ASSUME CatalogInit PROVE CatalogInv  OBVIOUS
<1>1. act = [a \in Actors |-> Idle] /\ sold = {} /\ apart = FALSE /\ starts = 0 /\ mishaps = 0
      /\ kind \in {"plan", "pack"}
  BY DEF CatalogInit
<1>2. Kept /\ act \in [Actors -> Request]  BY <1>1, IdleKept DEF Kept
<1>3. PICK price \in Prices, p \in Providers \cup {None} :
        \/ item = [price |-> price, provider |-> p, ref |-> None] /\ objects = <<>> /\ linked = {}
        \/ /\ p \in Providers /\ item = [price |-> price, provider |-> p, ref |-> 1]
           /\ objects = <<[price |-> price, provider |-> p]>> /\ linked = {1}
  BY DEF CatalogInit
<1>4. item \in Item /\ linked \subseteq Refs /\ (item.ref # None => item.ref \in linked)
  BY <1>3, Constants DEF Item
<1>5. objects \in Seq(Object) /\ Len(objects) \in 0..MaxObjects
  <2>1. CASE objects = <<>>  BY <2>1, Constants
  <2>2. CASE p \in Providers /\ objects = <<[price |-> price, provider |-> p]>>
    <3>1. [price |-> price, provider |-> p] \in Object  BY <2>2 DEF Object
    <3>2. Len(objects) = 1  BY <2>2
    <3>3. 1 <= MaxObjects  BY CatalogAssumption
    <3> QED  BY <2>2, <3>1, <3>2, <3>3, Constants
  <2> QED  BY <1>3, <2>1, <2>2
<1>6. LinkInv  BY <1>1, <1>4 DEF LinkInv
<1>7. starts \in 0..MaxStarts /\ mishaps \in 0..MaxMishaps  BY <1>1, CatalogAssumption
<1> QED  BY <1>1, <1>2, <1>4, <1>5, <1>6, <1>7 DEF CatalogInv, CatalogTypeOK

-----------------------------------------------------------------------------
(* The steps, one lemma each.                                              *)
LEMMA BeginStep ==
  ASSUME CatalogInv, NEW a \in Actors, NEW op \in {"sync", "patch", "connect", "buy"},
         NEW step \in {"write", "fresh"}, NEW price \in Prices,
         NEW p \in Providers \cup {None}, Enter(a, op, step, price, p)
  PROVE  CatalogInv'
<1> DEFINE r == [op |-> op, pc |-> step, price |-> price, provider |-> p, seen |-> item,
                 ref |-> None, force |-> FALSE]
<1>1. r \in Request /\ WellKept(r)
  BY DEF CatalogInv, CatalogTypeOK, Request, Ops, Steps, WellKept
<1>2. Become(a, r)  BY DEF Enter
<1> HIDE DEF r
<1>3. act' \in [Actors -> Request] /\ Kept'  BY <1>1, <1>2, BecomeKept DEF CatalogInv, CatalogTypeOK
<1>4. starts' \in 0..MaxStarts  BY CatalogAssumption DEF Enter, CatalogInv, CatalogTypeOK
<1>5. apart' \in BOOLEAN  BY DEF Enter, CatalogInv, CatalogTypeOK, Crossing
<1>6. UNCHANGED <<kind, item, objects, linked, sold, mishaps>>  BY DEF Enter
<1> QED  BY <1>3, <1>4, <1>5, <1>6 DEF CatalogInv, CatalogTypeOK, LinkInv

LEMMA EnterStep ==
  ASSUME CatalogInv, NEW a \in Actors,
         \/ \E price \in Prices, p \in Providers \cup {None} : Sync(a, price, p) \/ Patch(a, price, p)
         \/ \E p \in Providers : Connect(a, p)
         \/ Buy(a)
  PROVE  CatalogInv'
<1>1. item \in Item  BY DEF CatalogInv, CatalogTypeOK
<1>2. item.price \in Prices /\ item.provider \in Providers \cup {None}  BY <1>1 DEF Item
<1>3. ASSUME NEW price \in Prices, NEW p \in Providers \cup {None}, Sync(a, price, p)  PROVE CatalogInv'
  BY <1>2, <1>3, BeginStep DEF Sync
<1>4. ASSUME NEW price \in Prices, NEW p \in Providers \cup {None}, Patch(a, price, p)  PROVE CatalogInv'
  BY <1>2, <1>4, BeginStep DEF Patch
<1>5. ASSUME NEW p \in Providers, Connect(a, p)  PROVE CatalogInv'
  BY <1>2, <1>5, BeginStep DEF Connect
<1>6. ASSUME Buy(a)  PROVE CatalogInv'
  <2>1. CASE item.ref # None /\ sold' = sold \cup {item.ref}
             /\ UNCHANGED <<kind, item, objects, act, linked, apart, starts, mishaps>>
    <3>1. sold' \subseteq linked  BY <2>1 DEF CatalogInv, LinkInv
    <3>2. Kept'  BY <2>1 DEF CatalogInv, Kept, WellKept
    <3> QED  BY <2>1, <3>1, <3>2 DEF CatalogInv, CatalogTypeOK, LinkInv
  <2>2. CASE Enter(a, "buy", "fresh", item.price, Target(item.provider))
    BY <2>2, <1>2, BeginStep, TargetProvider
  <2> QED  BY <1>6, <2>1, <2>2 DEF Buy
<1> QED  BY <1>3, <1>4, <1>5, <1>6

(* What every step reads of a request at work.                             *)
LEMMA AtWork ==
  ASSUME CatalogInv, NEW a \in Actors, act[a].pc # "idle"
  PROVE  /\ act[a] \in Request /\ act[a].price \in Prices /\ act[a].seen \in Item
         /\ act[a].seen.ref \in Refs \cup {None} /\ act[a].provider \in Providers \cup {None}
         /\ item.price \in Prices /\ item.ref \in Refs \cup {None}
         /\ item.provider \in Providers \cup {None}
         /\ Target(act[a].provider) \in Providers
<1>1. act[a] \in Request /\ WellKept(act[a]) /\ item \in Item  BY DEF CatalogInv, CatalogTypeOK, Kept
<1>2. act[a].provider \in Providers \cup {None}  BY <1>1 DEF Request
<1>3. act[a].price \in Prices /\ act[a].seen \in Item  BY <1>1 DEF WellKept
<1>4. act[a].seen.ref \in Refs \cup {None}  BY <1>3 DEF Item
<1>5. item.price \in Prices /\ item.ref \in Refs \cup {None} /\ item.provider \in Providers \cup {None}
  BY <1>1 DEF Item
<1> QED  BY <1>1, <1>2, <1>3, <1>4, <1>5, TargetProvider

LEMMA SlipTyped == ASSUME apart \in BOOLEAN, NEW a, Slip(a) PROVE apart' \in BOOLEAN
BY DEF Slip, OthersOccupied

LEMMA WritePlanSyncStep == ASSUME CatalogInv, NEW a \in Actors, WritePlanSync(a) PROVE CatalogInv'
<1> DEFINE call(f) == [act[a] EXCEPT !.pc = "call", !.ref = act[a].seen.ref, !.force = f]
<1>1. act[a].pc = "write"  BY DEF WritePlanSync, At
<1>2. /\ act[a] \in Request /\ act[a].price \in Prices /\ act[a].seen \in Item
      /\ act[a].seen.ref \in Refs \cup {None} /\ act[a].provider \in Providers \cup {None}
  BY <1>1, AtWork
<1>3. ASSUME NEW f \in BOOLEAN PROVE call(f) \in Request /\ WellKept(call(f))
  BY <1>2 DEF Request, Steps, WellKept
<1>4. \/ Finish(a)
      \/ \E f \in BOOLEAN : Become(a, call(f))
  BY DEF WritePlanSync
<1> HIDE DEF call
<1>5. act' \in [Actors -> Request] /\ Kept'
  BY <1>3, <1>4, BecomeKept, FinishKept DEF CatalogInv, CatalogTypeOK
<1>6. item' \in Item /\ item'.ref = item.ref  BY <1>2 DEF WritePlanSync, CatalogInv, CatalogTypeOK, Item
<1>7. apart' \in BOOLEAN  BY DEF WritePlanSync, CatalogInv, CatalogTypeOK
<1>8. UNCHANGED <<kind, objects, linked, sold, starts, mishaps>>  BY DEF WritePlanSync
<1> QED  BY <1>5, <1>6, <1>7, <1>8 DEF CatalogInv, CatalogTypeOK, LinkInv

LEMMA WritePlanPatchStep == ASSUME CatalogInv, NEW a \in Actors, WritePlanPatch(a) PROVE CatalogInv'
<1> DEFINE call == [act[a] EXCEPT !.pc = "call", !.provider = item.provider, !.ref = item.ref,
                                  !.force = TRUE]
<1>1. act[a].pc = "write"  BY DEF WritePlanPatch, At
<1>2. /\ act[a] \in Request /\ act[a].price \in Prices /\ act[a].seen \in Item
      /\ item.ref \in Refs \cup {None} /\ item.provider \in Providers \cup {None}
  BY <1>1, AtWork
<1>3. call \in Request /\ WellKept(call)  BY <1>2 DEF Request, Steps, WellKept
<1>4. Finish(a) \/ Become(a, call)  BY DEF WritePlanPatch
<1> HIDE DEF call
<1>5. act' \in [Actors -> Request] /\ Kept'
  BY <1>3, <1>4, BecomeKept, FinishKept DEF CatalogInv, CatalogTypeOK
<1>6. item' \in Item /\ item'.ref = item.ref  BY <1>2 DEF WritePlanPatch, CatalogInv, CatalogTypeOK, Item
<1>7. UNCHANGED <<kind, objects, linked, sold, apart, starts, mishaps>>  BY DEF WritePlanPatch
<1> QED  BY <1>5, <1>6, <1>7 DEF CatalogInv, CatalogTypeOK, LinkInv

LEMMA WritePackStep == ASSUME CatalogInv, NEW a \in Actors, WritePack(a) PROVE CatalogInv'
<1> DEFINE p == IF Named(act[a]) THEN act[a].provider ELSE item.provider
           call(step, f) == [act[a] EXCEPT !.provider = p, !.pc = step, !.force = f]
<1>1. act[a].pc = "write"  BY DEF WritePack, At
<1>2. /\ act[a] \in Request /\ act[a].price \in Prices /\ act[a].seen \in Item
      /\ act[a].provider \in Providers \cup {None}
      /\ item.ref \in Refs \cup {None} /\ item.provider \in Providers \cup {None}
  BY <1>1, AtWork
<1>3. p \in Providers \cup {None}  BY <1>2
<1>4. \/ Finish(a)
      \/ \E step \in {"call", "fresh"}, f \in BOOLEAN : Become(a, call(step, f))
  <2>1. \/ Finish(a)
        \/ Become(a, [act[a] EXCEPT !.provider = p, !.pc = "call", !.force = TRUE])
        \/ \E step \in {"call", "fresh"} : Become(a, [act[a] EXCEPT !.provider = p, !.pc = step])
    BY DEF WritePack
  <2>2. act[a].force \in BOOLEAN  BY <1>2 DEF Request
  <2>3. ASSUME NEW step \in {"call", "fresh"}
        PROVE  [act[a] EXCEPT !.provider = p, !.pc = step] = call(step, act[a].force)
    BY <1>2 DEF Request
  <2> QED  BY <2>1, <2>2, <2>3
<1>5. item' \in Item /\ item'.ref \in {item.ref, None}
  <2>1. ProductAfter(act[a]) \in {item.ref, None}  BY DEF ProductAfter
  <2>2. \/ item' = item
        \/ item' = [price |-> act[a].price, ref |-> ProductAfter(act[a]), provider |-> p]
    BY DEF WritePack
  <2> HIDE DEF p
  <2> QED  BY <1>2, <1>3, <2>1, <2>2 DEF Item, CatalogInv, CatalogTypeOK
<1> HIDE DEF p
<1>6. ASSUME NEW f \in BOOLEAN, NEW step \in {"call", "fresh"}
      PROVE  call(step, f) \in Request /\ WellKept(call(step, f))
  BY <1>2, <1>3 DEF Request, Steps, WellKept
<1> HIDE DEF call
<1>7. act' \in [Actors -> Request] /\ Kept'
  BY <1>4, <1>6, BecomeKept, FinishKept DEF CatalogInv, CatalogTypeOK
<1>8. UNCHANGED <<kind, objects, linked, sold, apart, starts, mishaps>>  BY DEF WritePack
<1> QED  BY <1>5, <1>7, <1>8, Constants DEF CatalogInv, CatalogTypeOK, LinkInv

LEMMA FreshStep == ASSUME CatalogInv, NEW a \in Actors, Fresh(a) PROVE CatalogInv'
<1>1. act[a].pc = "fresh"  BY DEF Fresh, At
<1>2. /\ act[a] \in Request /\ act[a].price \in Prices /\ act[a].seen \in Item
      /\ item.ref \in Refs \cup {None}
  BY <1>1, AtWork
<1>3. [act[a] EXCEPT !.pc = "call"] \in Request /\ WellKept([act[a] EXCEPT !.pc = "call"])
  BY <1>2 DEF Request, Steps, WellKept
<1>4. ASSUME NEW step \in {"claim", "link"}, item.ref # None
      PROVE  LET r == [act[a] EXCEPT !.ref = item.ref, !.pc = step]
             IN  r \in Request /\ WellKept(r)
  BY <1>2, <1>4 DEF Request, Steps, WellKept
<1>5. act' \in [Actors -> Request] /\ Kept'
  <2>1. CASE Finish(a)  BY <2>1, FinishKept DEF CatalogInv, CatalogTypeOK
  <2>2. CASE Become(a, [act[a] EXCEPT !.pc = "call"])
    BY <2>2, <1>3, BecomeKept DEF CatalogInv, CatalogTypeOK
  <2>3. CASE item.ref # None /\ \E step \in {"claim", "link"} :
               Become(a, [act[a] EXCEPT !.ref = item.ref, !.pc = step])
    BY <2>3, <1>4, BecomeKept DEF CatalogInv, CatalogTypeOK
  <2> QED  BY <2>1, <2>2, <2>3 DEF Fresh, Known
<1>6. sold' = sold \/ (item.ref # None /\ sold' = sold \cup {item.ref})  BY DEF Fresh, Known
<1>7. sold' \subseteq linked  BY <1>6 DEF CatalogInv, LinkInv
<1>8. UNCHANGED <<kind, item, objects, linked, apart, starts, mishaps>>  BY DEF Fresh
<1> QED  BY <1>5, <1>7, <1>8 DEF CatalogInv, CatalogTypeOK, LinkInv

(* A new object gets the next id, and whoever made it carries that id.     *)
LEMMA MadeKept ==
  ASSUME CatalogInv, NEW a \in Actors, act[a].pc # "idle", Len(objects) < MaxObjects,
         NEW o \in Object, objects' = Append(objects, o), Become(a, Made(a))
  PROVE  /\ objects' \in Seq(Object) /\ Len(objects') \in 0..MaxObjects
         /\ act' \in [Actors -> Request] /\ Kept'
<1>1. objects \in Seq(Object) /\ Len(objects) \in 0..MaxObjects  BY DEF CatalogInv, CatalogTypeOK
<1>2. objects' \in Seq(Object) /\ Len(objects') = Len(objects) + 1  BY <1>1
<1>3. Len(objects) + 1 \in 1..MaxObjects  BY <1>1, Constants
<1>4. act[a] \in Request /\ act[a].price \in Prices /\ act[a].seen \in Item  BY AtWork
<1>5. Made(a) \in Request /\ WellKept(Made(a))
  <2>1. Len(objects) + 1 \in Refs  BY <1>3 DEF Refs
  <2>2. \E step \in {"link", "claim"} :
          Made(a) = [act[a] EXCEPT !.ref = Len(objects) + 1, !.pc = step]
    BY DEF Made
  <2> QED  BY <2>1, <2>2, <1>4 DEF Request, Steps, WellKept
<1>6. act' \in [Actors -> Request] /\ Kept'  BY <1>5, BecomeKept DEF CatalogInv, CatalogTypeOK
<1> QED  BY <1>1, <1>2, <1>3, <1>6, Constants

LEMMA CreateStep == ASSUME CatalogInv, NEW a \in Actors, Create(a) PROVE CatalogInv'
<1>1. act[a].pc # "idle" /\ Len(objects) < MaxObjects  BY DEF Create, At
<1>2. [price |-> act[a].price, provider |-> Target(act[a].provider)] \in Object
  BY <1>1, AtWork DEF Object
<1>3. /\ objects' = Append(objects, [price |-> act[a].price, provider |-> Target(act[a].provider)])
      /\ Become(a, Made(a))
  BY DEF Create
<1>4. /\ objects' \in Seq(Object) /\ Len(objects') \in 0..MaxObjects
      /\ act' \in [Actors -> Request] /\ Kept'
  BY <1>1, <1>2, <1>3, MadeKept
<1>5. UNCHANGED <<kind, item, linked, sold, apart, starts, mishaps>>  BY DEF Create
<1> QED  BY <1>4, <1>5 DEF CatalogInv, CatalogTypeOK, LinkInv

LEMMA UpdateStep == ASSUME CatalogInv, NEW a \in Actors, UpdateObject(a) PROVE CatalogInv'
<1> DEFINE new == [price |-> act[a].price, provider |-> Target(act[a].provider)]
<1>1. act[a].pc # "idle"  BY DEF UpdateObject, At
<1>2. new \in Object  BY <1>1, AtWork DEF Object
<1>3. UNCHANGED <<kind, item, linked, sold, apart, starts, mishaps>>  BY DEF UpdateObject
<1>4. /\ objects' \in Seq(Object) /\ Len(objects') \in 0..MaxObjects
      /\ act' \in [Actors -> Request] /\ Kept'
  <2>1. CASE Len(objects) < MaxObjects /\ objects' = Append(objects, new) /\ Become(a, Made(a))
    <3> HIDE DEF new
    <3> QED  BY <2>1, <1>1, <1>2, MadeKept
  <2>2. CASE objects' = [objects EXCEPT ![act[a].ref] = new] /\ Finish(a)
    <3> HIDE DEF new
    <3>1. objects \in Seq(Object) /\ Len(objects) \in 0..MaxObjects  BY DEF CatalogInv, CatalogTypeOK
    <3>2. objects' \in Seq(Object) /\ Len(objects') = Len(objects)
      <4>1. objects \in [1..Len(objects) -> Object]  BY <3>1
      <4>2. objects' \in [1..Len(objects) -> Object]  BY <2>2, <4>1, <1>2
      <4>3. PICK n \in Nat : Len(objects) = n  BY <3>1, Constants
      <4> QED  BY <4>2, <4>3
    <3>3. act' \in [Actors -> Request] /\ Kept'  BY <2>2, FinishKept DEF CatalogInv, CatalogTypeOK
    <3> QED  BY <3>1, <3>2, <3>3
  <2> QED  BY <2>1, <2>2 DEF UpdateObject
<1> QED  BY <1>3, <1>4 DEF CatalogInv, CatalogTypeOK, LinkInv

LEMMA SkipStep == ASSUME CatalogInv, NEW a \in Actors, Skip(a) PROVE CatalogInv'
<1>1. act[a].pc # "idle"  BY DEF Skip, At
<1>2. /\ act[a] \in Request /\ act[a].price \in Prices /\ act[a].seen \in Item
  BY <1>1, AtWork
<1>3. [act[a] EXCEPT !.pc = "link"] \in Request /\ WellKept([act[a] EXCEPT !.pc = "link"])
  BY <1>2 DEF Request, Steps, WellKept
<1>4. Finish(a) \/ Become(a, [act[a] EXCEPT !.pc = "link"])  BY DEF Skip
<1>5. act' \in [Actors -> Request] /\ Kept'
  BY <1>3, <1>4, BecomeKept, FinishKept DEF CatalogInv, CatalogTypeOK
<1>6. apart' \in BOOLEAN  BY SlipTyped DEF Skip, CatalogInv, CatalogTypeOK
<1>7. UNCHANGED <<kind, item, objects, linked, sold, starts, mishaps>>  BY DEF Skip
<1> QED  BY <1>5, <1>6, <1>7 DEF CatalogInv, CatalogTypeOK, LinkInv

(* A refusal and a death leave everything but the request and the counters.*)
LEMMA FaultStep ==
  ASSUME CatalogInv, NEW a \in Actors, Refuse(a) \/ Die(a)
  PROVE  CatalogInv'
<1>1. Finish(a)  BY DEF Refuse, Die
<1>2. act' \in [Actors -> Request] /\ Kept'  BY <1>1, FinishKept DEF CatalogInv, CatalogTypeOK
<1>3. Slip(a) \/ UNCHANGED apart  BY DEF Refuse, Die
<1>4. apart' \in BOOLEAN  BY <1>3, SlipTyped DEF CatalogInv, CatalogTypeOK
<1>5. mishaps' = mishaps \/ (mishaps < MaxMishaps /\ mishaps' = mishaps + 1)  BY DEF Refuse, Die
<1>6. mishaps' \in 0..MaxMishaps  BY <1>5, CatalogAssumption DEF CatalogInv, CatalogTypeOK
<1>7. UNCHANGED <<kind, item, objects, linked, sold, starts>>  BY DEF Refuse, Die
<1> QED  BY <1>2, <1>4, <1>6, <1>7 DEF CatalogInv, CatalogTypeOK, LinkInv

LEMMA LinkStep == ASSUME CatalogInv, NEW a \in Actors, Link(a) PROVE CatalogInv'
<1>1. act[a].pc # "idle" /\ Finish(a)  BY DEF Link, At
<1>2. /\ act[a] \in Request /\ Target(act[a].provider) \in Providers
      /\ item.provider \in Providers \cup {None}
  BY <1>1, AtWork
<1>3. act' \in [Actors -> Request] /\ Kept'  BY <1>1, FinishKept DEF CatalogInv, CatalogTypeOK
<1>4. act[a].ref \in Refs \cup {None}  BY <1>2 DEF Request
<1>5. item' \in Item /\ item'.ref = act[a].ref  BY <1>2, <1>4 DEF Link, CatalogInv, CatalogTypeOK, Item
<1>6. linked' = linked \cup ({act[a].ref} \ {None})  BY DEF Link
<1>7. linked' \subseteq Refs  BY <1>4, <1>6 DEF CatalogInv, CatalogTypeOK
<1>8. UNCHANGED <<kind, objects, sold, apart, starts, mishaps>>  BY DEF Link
<1>9. LinkInv'  BY <1>5, <1>6, <1>8 DEF CatalogInv, LinkInv
<1> QED  BY <1>3, <1>5, <1>7, <1>8, <1>9 DEF CatalogInv, CatalogTypeOK

LEMMA ClaimStep == ASSUME CatalogInv, NEW a \in Actors, Claim(a) PROVE CatalogInv'
<1>1. act[a].pc = "claim" /\ Finish(a)  BY DEF Claim, At
<1>2. Target(act[a].provider) \in Providers /\ act[a].ref \in Refs
  BY <1>1, AtWork DEF CatalogInv, Kept, WellKept
<1>3. act' \in [Actors -> Request] /\ Kept'  BY <1>1, FinishKept DEF CatalogInv, CatalogTypeOK
<1>4. item' \in Item /\ item'.ref = act[a].ref  BY <1>2 DEF Claim, CatalogInv, CatalogTypeOK, Item
<1>5. linked' = linked \cup {act[a].ref}  BY DEF Claim
<1>6. sold' \subseteq sold \cup {act[a].ref}  BY DEF Claim
<1>7. linked' \subseteq Refs /\ sold' \subseteq Refs /\ LinkInv'
  BY <1>2, <1>4, <1>5, <1>6 DEF CatalogInv, CatalogTypeOK, LinkInv
<1>8. UNCHANGED <<kind, objects, apart, starts, mishaps>>  BY DEF Claim
<1> QED  BY <1>3, <1>4, <1>7, <1>8 DEF CatalogInv, CatalogTypeOK

LEMMA LoseClaimStep == ASSUME CatalogInv, NEW a \in Actors, LoseClaim(a) PROVE CatalogInv'
<1>1. act[a].pc # "idle"  BY DEF LoseClaim, At
<1>2. act[a] \in Request /\ act[a].price \in Prices /\ act[a].seen \in Item  BY <1>1, AtWork
<1>3. [act[a] EXCEPT !.pc = "winner"] \in Request /\ WellKept([act[a] EXCEPT !.pc = "winner"])
  BY <1>2 DEF Request, Steps, WellKept
<1>4. Finish(a) \/ Become(a, [act[a] EXCEPT !.pc = "winner"])  BY DEF LoseClaim
<1>5. act' \in [Actors -> Request] /\ Kept'
  BY <1>3, <1>4, BecomeKept, FinishKept DEF CatalogInv, CatalogTypeOK
<1>6. UNCHANGED <<kind, item, objects, linked, sold, apart, starts, mishaps>>  BY DEF LoseClaim
<1> QED  BY <1>5, <1>6 DEF CatalogInv, CatalogTypeOK, LinkInv

LEMMA WinnerStep == ASSUME CatalogInv, NEW a \in Actors, Winner(a) PROVE CatalogInv'
<1>1. Finish(a) /\ sold' = sold \cup ({item.ref} \ {None})  BY DEF Winner
<1>2. act' \in [Actors -> Request] /\ Kept'  BY <1>1, FinishKept DEF CatalogInv, CatalogTypeOK
<1>3. sold' \subseteq linked  BY <1>1 DEF CatalogInv, LinkInv
<1>4. UNCHANGED <<kind, item, objects, linked, apart, starts, mishaps>>  BY DEF Winner
<1> QED  BY <1>2, <1>3, <1>4 DEF CatalogInv, CatalogTypeOK, LinkInv

LEMMA CatalogStep == CatalogInv /\ [CatalogNext]_catalogVars => CatalogInv'
<1> SUFFICES ASSUME CatalogInv, [CatalogNext]_catalogVars PROVE CatalogInv'  OBVIOUS
<1>1. CASE UNCHANGED catalogVars
  BY <1>1 DEF catalogVars, CatalogInv, CatalogTypeOK, LinkInv, Kept, WellKept
<1>2. CASE CatalogNext
  <2>1. PICK a \in Actors :
          \/ \E price \in Prices, p \in Providers \cup {None} : Sync(a, price, p) \/ Patch(a, price, p)
          \/ \E p \in Providers : Connect(a, p)
          \/ Buy(a)
          \/ WritePlanSync(a) \/ WritePlanPatch(a) \/ WritePack(a)
          \/ Fresh(a) \/ Create(a) \/ UpdateObject(a) \/ Skip(a) \/ Refuse(a)
          \/ Link(a) \/ Claim(a) \/ LoseClaim(a) \/ Winner(a) \/ Die(a)
    BY <1>2 DEF CatalogNext
  <2>2. CASE WritePlanSync(a) \/ WritePlanPatch(a) \/ WritePack(a)
    BY <2>2, WritePlanSyncStep, WritePlanPatchStep, WritePackStep
  <2>3. CASE Fresh(a) \/ Create(a) \/ UpdateObject(a) \/ Skip(a)
    BY <2>3, FreshStep, CreateStep, UpdateStep, SkipStep
  <2>4. CASE Link(a) \/ Claim(a) \/ LoseClaim(a) \/ Winner(a)
    BY <2>4, LinkStep, ClaimStep, LoseClaimStep, WinnerStep
  <2>5. CASE Refuse(a) \/ Die(a)  BY <2>5, FaultStep
  <2> QED  BY <2>1, <2>2, <2>3, <2>4, <2>5, EnterStep
<1> QED  BY <1>1, <1>2

-----------------------------------------------------------------------------
(* The row, the objects and the requests at work stay well typed, however  *)
(* edits, connections and checkouts interleave, are refused or die.        *)
THEOREM CatalogTyped == CatalogSpec => []CatalogTypeOK
<1>1. CatalogSpec => []CatalogInv  BY CatalogInitInv, CatalogStep, PTL DEF CatalogSpec
<1>2. CatalogInv => CatalogTypeOK  BY DEF CatalogInv
<1> QED  BY <1>1, <1>2, PTL

(* A checkout opens only with an object that the row has carried: whoever  *)
(* loses the race to make one sells the winner's (plan-sync.ts:213,        *)
(* credit-pack-sync.ts:97).                                                *)
THEOREM SoldWasLinkedEver == CatalogSpec => []SoldWasLinked
<1>1. CatalogSpec => []CatalogInv  BY CatalogInitInv, CatalogStep, PTL DEF CatalogSpec
<1>2. CatalogInv => SoldWasLinked  BY DEF CatalogInv, LinkInv, SoldWasLinked
<1> QED  BY <1>1, <1>2, PTL

-----------------------------------------------------------------------------
(* PricedAsListed.  While row and object are not apart, there is at most   *)
(* one edit, and one of two things holds.  Either that edit still has to   *)
(* bring its price to the provider or its object to the row, and then the  *)
(* row already shows its price (Fits); or none has to, and then the row's  *)
(* object has the row's price or, when it has none yet, every checkout or  *)
(* connection at work asks for the row's price (Settled).  So whoever      *)
(* writes the row's id last writes one of an object at the row's price.    *)
Asked(r) == [price |-> r.price, provider |-> Target(r.provider)]
Edits(r) == r.op \in Editors
Pending(r) == Edits(r) /\ (r.pc = "link" \/ (r.pc = "call" /\ (r.force \/ r.ref = None)))

(* What a request at work looks like, by its operation and its step; n is  *)
(* the number of objects, k the kind of item.                              *)
Formed(r, k, n) ==
  /\ r.ref \in 1..n \cup {None}
  /\ r.pc # "idle" => r.seen.ref \in 1..n \cup {None}
  /\ r.pc = "idle" <=> r.op = "none"
  /\ r.pc \in {"write", "link"} => Edits(r)
  /\ r.pc \in {"claim", "winner"} => ~Edits(r)
  /\ r.op \in {"buy", "connect"} => r.provider \in Providers
  /\ r.op \in {"buy", "connect"} /\ r.pc \in {"fresh", "call"} => r.ref = None /\ ~r.force
  /\ k = "pack" => r.op # "connect" /\ (r.pc \in {"write", "fresh", "call"} => r.ref = None)
  /\ k = "plan" /\ Edits(r) => r.pc # "fresh"
  /\ k = "plan" /\ r.pc = "write" /\ r.op = "patch" => r.provider = None
  /\ r.pc = "write" => ~r.force /\ r.ref = None
FormedInv ==
  /\ item.ref \in 1..Len(objects) \cup {None}
  /\ \A a \in Actors : Formed(act[a], kind, Len(objects))

(* An edit r beside the row i and the objects o.                           *)
Fits(r, k, i, o) ==
  /\ r.pc = "write" =>
       /\ r.seen.price = i.price
       /\ \/ i = r.seen
          \/ r.seen.ref = None /\ i.ref # None /\ (k = "pack" => i.provider = Target(r.seen.provider))
  /\ r.pc # "write" => i.price = r.price
  /\ r.pc = "link" /\ r.ref # None => o[r.ref] = Asked(r)
  /\ r.pc = "link" /\ r.ref = None =>
       k = "pack" /\ i.ref = None /\ i.provider = None /\ r.provider = None /\ Default \in Bare
  /\ k = "plan" /\ r.pc = "call" /\ r.ref # None /\ r.force =>
       i.ref = r.ref /\ i.provider = r.provider /\ r.provider \in Providers
  /\ k = "plan" /\ r.op = "patch" /\ r.pc \in {"call", "link"} =>
       i.provider = r.provider /\ r.provider \in Providers
  /\ k = "pack" /\ r.pc \in {"fresh", "call"} /\ i.ref = None => i.provider = r.provider

(* The row's object is as the row says; a request asks for what it says.   *)
Matches(i, o) ==
  i.ref # None => i.provider \in Providers /\ o[i.ref] = [price |-> i.price, provider |-> i.provider]
AsRow(r, k, i, o) ==
  /\ r.price = i.price
  /\ k = "pack" => r.provider = Target(i.provider)
  /\ r.pc = "claim" => o[r.ref] = Asked(r)

(* Edits that nobody else is at work beside.                               *)
Solo(r, k) == \/ k = "plan" /\ r.op = "patch"
              \/ Edits(r) /\ r.pc = "link" /\ r.ref = None

(* The requests t among themselves, and with the row and the objects.      *)
Ordered(k, t) ==
  \A a, b \in Actors :
    /\ Edits(t[a]) /\ Edits(t[b]) => a = b
    /\ Solo(t[a], k) /\ t[b].pc # "idle" => a = b
Settled(k, i, o, t) ==
  (\A a \in Actors : ~Pending(t[a])) =>
    /\ Matches(i, o)
    /\ i.ref = None => \A a \in Actors : t[a].pc # "idle" /\ ~Edits(t[a]) => AsRow(t[a], k, i, o)
AllFit(k, i, o, t) == \A a \in Actors : Edits(t[a]) => Fits(t[a], k, i, o)
Agree(k, i, o, t) == Ordered(k, t) /\ Settled(k, i, o, t) /\ AllFit(k, i, o, t)

PricedInv == CatalogInv /\ FormedInv /\ (~apart => Agree(kind, item, objects, act))

-----------------------------------------------------------------------------
LEMMA IdleFormed ==
  ASSUME NEW k, NEW n PROVE Formed(Idle, k, n) /\ ~Edits(Idle) /\ ~Pending(Idle) /\ Idle.pc = "idle"
BY DEF Formed, Idle, Edits, Editors, Pending

(* The edit at work goes on, or ends.                                      *)
LEMMA EditMoves ==
  ASSUME NEW k, NEW i, NEW o, NEW t \in [Actors -> Request], Ordered(k, t),
         NEW a \in Actors, Edits(t[a]), NEW r,
         \/ r = Idle
         \/ /\ r.op = t[a].op /\ Fits(r, k, i, o)
            /\ r.pc = "link" /\ r.ref = None => \A b \in Actors \ {a} : t[b].pc = "idle",
         ~Pending(r) => /\ Matches(i, o)
                        /\ i.ref = None => \A b \in Actors \ {a} : t[b].pc # "idle" => AsRow(t[b], k, i, o)
  PROVE  Agree(k, i, o, [t EXCEPT ![a] = r])
<1> DEFINE u == [t EXCEPT ![a] = r]
<1>1. u[a] = r /\ \A b \in Actors \ {a} : u[b] = t[b]  OBVIOUS
<1> HIDE DEF u
<1>2. Edits(r) => r.op = t[a].op /\ Fits(r, k, i, o)  BY IdleFormed
<1>3. \A b \in Actors \ {a} : ~Edits(t[b])  BY DEF Ordered
<1>4. \A b \in Actors \ {a} : ~Solo(t[b], k)
  <2> SUFFICES ASSUME NEW b \in Actors \ {a}, Solo(t[b], k) PROVE FALSE  OBVIOUS
  <2>1. Edits(t[b])  BY DEF Solo, Edits, Editors
  <2> QED  BY <2>1, <1>3
<1>5. Solo(r, k) => \A b \in Actors \ {a} : t[b].pc = "idle"
  <2> SUFFICES ASSUME Solo(r, k), NEW b \in Actors \ {a} PROVE t[b].pc = "idle"  OBVIOUS
  <2>1. r # Idle  BY DEF Solo, Edits, Editors, Idle
  <2>2. CASE k = "plan" /\ r.op = "patch"
    <3>1. Solo(t[a], k)  BY <2>1, <2>2 DEF Solo
    <3> QED  BY <3>1 DEF Ordered
  <2>3. CASE r.pc = "link" /\ r.ref = None  BY <2>1, <2>3
  <2> QED  BY <2>2, <2>3 DEF Solo
<1>6. Ordered(k, u)  BY <1>1, <1>3, <1>4, <1>5 DEF Ordered
<1>7. AllFit(k, i, o, u)  BY <1>1, <1>2, <1>3 DEF AllFit
<1>8. Settled(k, i, o, u)
  <2> SUFFICES ASSUME \A b \in Actors : ~Pending(u[b])
               PROVE  /\ Matches(i, o)
                      /\ i.ref = None => \A b \in Actors : u[b].pc # "idle" /\ ~Edits(u[b]) => AsRow(u[b], k, i, o)
    BY DEF Settled
  <2>1. ~Pending(r)  BY <1>1
  <2>2. r.pc = "idle" \/ Edits(r)  BY IdleFormed DEF Edits
  <2> QED  BY <2>1, <2>2, <1>1
<1> QED  BY <1>6, <1>7, <1>8 DEF Agree, u

(* Somebody who is not an edit goes on, ends or begins.                    *)
LEMMA OtherMoves ==
  ASSUME NEW k, NEW i, NEW o, NEW t \in [Actors -> Request], Agree(k, i, o, t),
         NEW a \in Actors, ~Edits(t[a]), NEW r, ~Edits(r),
         r.pc = "idle" \/ t[a].pc # "idle" \/ \A b \in Actors : ~Solo(t[b], k),
         \/ r.pc = "idle"
         \/ Settled(k, i, o, t) /\ i.ref = None /\ (\A b \in Actors : ~Pending(t[b])) => AsRow(r, k, i, o)
  PROVE  Agree(k, i, o, [t EXCEPT ![a] = r])
<1> DEFINE u == [t EXCEPT ![a] = r]
<1>1. u[a] = r /\ \A b \in Actors \ {a} : u[b] = t[b]  OBVIOUS
<1> HIDE DEF u
<1>2. ~Solo(r, k) /\ ~Solo(t[a], k)  BY DEF Solo, Edits, Editors
<1>3. Ordered(k, u)  BY <1>1, <1>2 DEF Ordered, Agree
<1>4. AllFit(k, i, o, u)  BY <1>1 DEF AllFit, Agree
<1>5. (\A b \in Actors : ~Pending(u[b])) => \A b \in Actors : ~Pending(t[b])  BY <1>1 DEF Pending
<1>6. Settled(k, i, o, u)  BY <1>1, <1>5 DEF Settled, Agree
<1> QED  BY <1>3, <1>4, <1>6 DEF Agree, u

(* More objects disturb nobody.                                            *)
LEMMA ObjectsGrow ==
  ASSUME NEW k, NEW i, NEW o, NEW t \in [Actors -> Request], Agree(k, i, o, t), NEW o2, NEW n,
         i.ref \in 1..n \cup {None}, \A a \in Actors : t[a].ref \in 1..n \cup {None},
         \A a \in Actors : t[a].pc = "claim" => t[a].ref # None,
         \A m \in 1..n : o2[m] = o[m]
  PROVE  Agree(k, i, o2, t)
<1>1. AllFit(k, i, o2, t)  BY DEF AllFit, Agree, Fits
<1>2. Matches(i, o) => Matches(i, o2)  BY DEF Matches
<1>3. \A a \in Actors : AsRow(t[a], k, i, o) => AsRow(t[a], k, i, o2)  BY DEF AsRow
<1>4. Settled(k, i, o2, t)  BY <1>2, <1>3 DEF Settled, Agree
<1> QED  BY <1>1, <1>4 DEF Agree

-----------------------------------------------------------------------------
LEMMA PricedInitInv == CatalogInit => PricedInv
<1> SUFFICES ASSUME CatalogInit PROVE FormedInv /\ Agree(kind, item, objects, act)
  BY CatalogInitInv DEF PricedInv
<1>1. act = [a \in Actors |-> Idle]  BY DEF CatalogInit
<1>2. \A a \in Actors : act[a] = Idle  BY <1>1
<1>3. PICK price \in Prices, p \in Providers \cup {None} :
        \/ item = [price |-> price, provider |-> p, ref |-> None] /\ objects = <<>>
        \/ /\ p \in Providers /\ item = [price |-> price, provider |-> p, ref |-> 1]
           /\ objects = <<[price |-> price, provider |-> p]>>
  BY DEF CatalogInit
<1>4. item.ref \in 1..Len(objects) \cup {None}
  <2>1. CASE item.ref = None  BY <2>1
  <2>2. CASE item.ref = 1 /\ objects = <<[price |-> price, provider |-> p]>>  BY <2>2
  <2> QED  BY <1>3, <2>1, <2>2
<1>5. FormedInv  BY <1>2, <1>4, IdleFormed DEF FormedInv
<1>6. Matches(item, objects)
  <2>1. CASE item.ref = None  BY <2>1 DEF Matches
  <2>2. CASE /\ p \in Providers /\ item = [price |-> price, provider |-> p, ref |-> 1]
             /\ objects = <<[price |-> price, provider |-> p]>>
    BY <2>2 DEF Matches
  <2> QED  BY <1>3, <2>1, <2>2
<1>7. Settled(kind, item, objects, act)  BY <1>2, <1>6, IdleFormed DEF Settled
<1>8. AllFit(kind, item, objects, act)  BY <1>2, IdleFormed DEF AllFit
<1>9. Ordered(kind, act)
  <2>1. ~Solo(Idle, kind)  BY DEF Solo, Idle, Edits, Editors
  <2> QED  BY <1>2, <2>1, IdleFormed DEF Ordered
<1> QED  BY <1>5, <1>7, <1>8, <1>9 DEF Agree

(* What is kept of the requests when one becomes r.                        *)
LEMMA StaysFormed ==
  ASSUME CatalogInv, FormedInv, NEW a \in Actors, NEW r, Become(a, r), UNCHANGED kind,
         Len(objects') \in Nat, Len(objects) <= Len(objects'), Formed(r, kind, Len(objects')),
         item'.ref \in 1..Len(objects') \cup {None}
  PROVE  FormedInv'
<1>1. act \in [Actors -> Request] /\ Len(objects) \in Nat  BY DEF CatalogInv, CatalogTypeOK
<1>2. act' = [act EXCEPT ![a] = r]  BY DEF Become
<1>3. 1..Len(objects) \subseteq 1..Len(objects')  BY <1>1
<1>4. \A b \in Actors : Formed(act[b], kind, Len(objects'))  BY <1>3 DEF FormedInv, Formed
<1>5. \A b \in Actors : act'[b] = IF b = a THEN r ELSE act[b]  BY <1>1, <1>2
<1>6. \A b \in Actors : Formed(act'[b], kind', Len(objects'))  BY <1>4, <1>5
<1> QED  BY <1>6 DEF FormedInv

(* Row and object part for good.                                           *)
LEMMA ApartStays ==
  ASSUME CatalogInv, NEW a \in Actors, \/ apart' = apart
                                        \/ Slip(a)
                                        \/ \E op : apart' = (apart \/ Crossing(a, op))
                                        \/ \E x \in BOOLEAN : apart' = (apart \/ x)
  PROVE  ~apart' => ~apart
BY DEF Slip, CatalogInv, CatalogTypeOK

(* What a request that does not edit finds.                                *)
LEMMA Steady ==
  ASSUME CatalogInv, FormedInv, ~apart => Agree(kind, item, objects, act), NEW a \in Actors,
         ~Edits(act[a]), NEW r, ~Edits(r), Formed(r, kind, Len(objects)), Become(a, r),
         ~apart' => r.pc = "idle" \/ act[a].pc # "idle" \/ \A b \in Actors : ~Solo(act[b], kind),
         \/ r.pc = "idle"
         \/ Settled(kind, item, objects, act) /\ item.ref = None /\ (\A b \in Actors : ~Pending(act[b]))
              => AsRow(r, kind, item, objects),
         UNCHANGED <<kind, item, objects>>, ~apart' => ~apart
  PROVE  FormedInv' /\ (~apart' => Agree(kind', item', objects', act'))
<1>1. act \in [Actors -> Request] /\ Len(objects) \in Nat  BY DEF CatalogInv, CatalogTypeOK
<1>2. FormedInv'  BY <1>1, StaysFormed DEF FormedInv
<1>3. ASSUME ~apart' PROVE Agree(kind, item, objects, [act EXCEPT ![a] = r])
  BY <1>1, <1>3, OtherMoves
<1> QED  BY <1>2, <1>3 DEF Become

(* An edit that ends or goes on without new objects, beside a row i.       *)
LEMMA EditSteady ==
  ASSUME CatalogInv, FormedInv, ~apart => Agree(kind, item, objects, act), NEW a \in Actors,
         Edits(act[a]), NEW r, Formed(r, kind, Len(objects)), Become(a, r),
         UNCHANGED <<kind, objects>>, ~apart' => ~apart,
         item'.ref \in 1..Len(objects) \cup {None},
         ~apart' =>
           \/ r = Idle
           \/ /\ r.op = act[a].op /\ Fits(r, kind, item', objects)
              /\ r.pc = "link" /\ r.ref = None => \A b \in Actors \ {a} : act[b].pc = "idle",
         ~apart' /\ ~Pending(r) =>
           /\ Matches(item', objects)
           /\ item'.ref = None =>
                \A b \in Actors \ {a} : act[b].pc # "idle" => AsRow(act[b], kind, item', objects)
  PROVE  FormedInv' /\ (~apart' => Agree(kind', item', objects', act'))
<1>1. act \in [Actors -> Request] /\ Len(objects) \in Nat  BY DEF CatalogInv, CatalogTypeOK
<1>2. FormedInv'  BY <1>1, StaysFormed DEF FormedInv
<1>3. ASSUME ~apart' PROVE Agree(kind, item', objects, [act EXCEPT ![a] = r])
  <2>1. Ordered(kind, act)  BY <1>3 DEF Agree
  <2> QED  BY <1>1, <1>3, <2>1, EditMoves
<1> QED  BY <1>2, <1>3 DEF Become

-----------------------------------------------------------------------------
(* Requests begin.  An edit that begins beside another crosses it; and so  *)
(* does any request beside the dashboard's edit of a plan.                 *)
LEMMA JoinStep ==
  ASSUME PricedInv, NEW a \in Actors, NEW op \in {"buy", "connect"}, NEW p \in Providers,
         item.ref = None,
         kind = "pack" => op = "buy" /\ p = Target(item.provider) /\ p \notin Bare,
         Enter(a, op, "fresh", item.price, p)
  PROVE  FormedInv' /\ (~apart' => Agree(kind', item', objects', act'))
<1> DEFINE r == [op |-> op, pc |-> "fresh", price |-> item.price, provider |-> p, seen |-> item,
                 ref |-> None, force |-> FALSE]
<1>1. /\ CatalogInv /\ FormedInv /\ (~apart => Agree(kind, item, objects, act))
      /\ kind \in {"plan", "pack"}
  BY DEF PricedInv, CatalogInv, CatalogTypeOK
<1>2. act[a].pc = "idle" /\ Become(a, r) /\ apart' = (apart \/ Crossing(a, op))
      /\ UNCHANGED <<kind, item, objects>>
  BY DEF Enter, Occupied
<1>3. ~Edits(r) /\ Formed(r, kind, Len(objects))
  BY <1>1 DEF Formed, Edits, Editors, FormedInv
<1>4. ~Edits(act[a])  BY <1>1, <1>2 DEF FormedInv, Formed, Edits, Editors
<1>5. ~apart' => ~apart  BY <1>1, <1>2 DEF CatalogInv, CatalogTypeOK
<1>6. AsRow(r, kind, item, objects)  BY DEF AsRow
<1>7. ASSUME ~apart', NEW b \in Actors, Solo(act[b], kind) PROVE FALSE
  <2>1. b # a  BY <1>7, <1>4, <1>2 DEF Solo, Edits, Editors
  <2>2. CASE kind = "plan" /\ act[b].op = "patch"
    <3>1. Occupied(b)  BY <1>1, <2>2 DEF FormedInv, Formed, Occupied
    <3>2. Crossing(a, op)  BY <2>1, <2>2, <3>1 DEF Crossing
    <3> QED  BY <3>2, <1>2, <1>7
  <2>3. CASE Edits(act[b]) /\ act[b].pc = "link" /\ act[b].ref = None
    <3>1. Fits(act[b], kind, item, objects)  BY <1>1, <1>5, <1>7, <2>3 DEF Agree, AllFit
    <3>2. kind = "pack" /\ item.provider = None /\ Default \in Bare  BY <3>1, <2>3 DEF Fits
    <3> QED  BY <3>2 DEF Target
  <2> QED  BY <1>7, <2>2, <2>3 DEF Solo
<1> HIDE DEF r
<1>8. ~apart' => \A b \in Actors : ~Solo(act[b], kind)  BY <1>7
<1> QED  BY <1>1, <1>2, <1>3, <1>4, <1>5, <1>6, <1>8, Steady

LEMMA EditBegins ==
  ASSUME PricedInv, NEW a \in Actors, NEW op \in Editors, NEW price, NEW p,
         kind = "plan" /\ op = "patch" => p = None,
         Enter(a, op, "write", price, p)
  PROVE  FormedInv' /\ (~apart' => Agree(kind', item', objects', act'))
<1> DEFINE r == [op |-> op, pc |-> "write", price |-> price, provider |-> p, seen |-> item,
                 ref |-> None, force |-> FALSE]
<1>1. /\ CatalogInv /\ FormedInv /\ (~apart => Agree(kind, item, objects, act))
      /\ act \in [Actors -> Request] /\ Len(objects) \in Nat
  BY DEF PricedInv, CatalogInv, CatalogTypeOK
<1>2. act[a].pc = "idle" /\ Become(a, r) /\ apart' = (apart \/ Crossing(a, op))
      /\ UNCHANGED <<kind, item, objects>>
  BY DEF Enter, Occupied
<1>3. Formed(r, kind, Len(objects))  BY <1>1 DEF Formed, Edits, Editors, FormedInv
<1>4. Edits(r) /\ r.pc = "write" /\ r.op = op /\ r.seen = item  BY DEF Edits
<1> HIDE DEF r
<1>5. FormedInv'  BY <1>1, <1>2, <1>3, StaysFormed DEF FormedInv
<1>6. ~apart' => ~apart /\ ~Crossing(a, op)  BY <1>1, <1>2 DEF CatalogInv, CatalogTypeOK
<1>7. ~Edits(act[a])  BY <1>1, <1>2 DEF FormedInv, Formed, Edits, Editors
<1>8. act'[a] = r /\ \A b \in Actors \ {a} : act'[b] = act[b]  BY <1>1, <1>2 DEF Become
<1>9. ASSUME ~apart' PROVE Agree(kind, item, objects, act')
  <2>1. Agree(kind, item, objects, act) /\ ~Crossing(a, op)  BY <1>1, <1>6, <1>9
  <2>2. \A b \in Actors : ~Edits(act[b])  BY <1>7, <2>1 DEF Crossing, Edits
  <2>3. Solo(r, kind) => \A b \in Actors \ {a} : act[b].pc = "idle"
    BY <1>4, <2>1 DEF Solo, Crossing, Occupied
  <2>4. \A b \in Actors : ~Solo(act[b], kind)  BY <2>2 DEF Solo, Edits, Editors
  <2>5. Ordered(kind, act')  BY <1>8, <2>2, <2>3, <2>4 DEF Ordered
  <2>6. AllFit(kind, item, objects, act')
    <3>1. Fits(r, kind, item, objects)  BY <1>4 DEF Fits
    <3> QED  BY <1>8, <2>2, <3>1 DEF AllFit
  <2>7. Settled(kind, item, objects, act')
    <3>1. \A b \in Actors : ~Pending(act[b])  BY <2>2 DEF Pending
    <3> QED  BY <1>4, <1>8, <2>1, <3>1 DEF Agree, Settled
  <2> QED  BY <2>5, <2>6, <2>7 DEF Agree
<1> QED  BY <1>2, <1>5, <1>9

LEMMA EnterPriced ==
  ASSUME PricedInv, NEW a \in Actors,
         \/ \E price \in Prices, p \in Providers \cup {None} : Sync(a, price, p) \/ Patch(a, price, p)
         \/ \E p \in Providers : Connect(a, p)
         \/ Buy(a)
  PROVE  FormedInv' /\ (~apart' => Agree(kind', item', objects', act'))
<1>1. item.provider \in Providers \cup {None} /\ kind \in {"plan", "pack"}
  BY DEF PricedInv, CatalogInv, CatalogTypeOK, Item
<1>2. ASSUME NEW price \in Prices, NEW p \in Providers \cup {None}, Sync(a, price, p) \/ Patch(a, price, p)
      PROVE  FormedInv' /\ (~apart' => Agree(kind', item', objects', act'))
  BY <1>2, EditBegins DEF Sync, Patch, Editors
<1>3. ASSUME NEW p \in Providers, Connect(a, p)
      PROVE  FormedInv' /\ (~apart' => Agree(kind', item', objects', act'))
  BY <1>3, JoinStep DEF Connect
<1>4. ASSUME Buy(a)  PROVE FormedInv' /\ (~apart' => Agree(kind', item', objects', act'))
  <2>1. CASE UNCHANGED <<kind, item, objects, act, apart>>
    BY <2>1 DEF PricedInv, FormedInv
  <2>2. CASE /\ item.ref = None /\ (kind = "pack" => Target(item.provider) \notin Bare)
             /\ Enter(a, "buy", "fresh", item.price, Target(item.provider))
    <3>1. Target(item.provider) \in Providers  BY <1>1, TargetProvider
    <3> QED  BY <2>2, <3>1, JoinStep
  <2> QED  BY <1>4, <2>1, <2>2 DEF Buy
<1> QED  BY <1>2, <1>3, <1>4

-----------------------------------------------------------------------------
(* What an edit at work may count on.                                      *)
LEMMA Editing ==
  ASSUME PricedInv, ~apart, NEW a \in Actors, Edits(act[a])
  PROVE  /\ Fits(act[a], kind, item, objects)
         /\ \A b \in Actors \ {a} : ~Edits(act[b])
         /\ Solo(act[a], kind) => \A b \in Actors \ {a} : act[b].pc = "idle"
         /\ ~Pending(act[a]) =>
              /\ Matches(item, objects)
              /\ item.ref = None => \A b \in Actors \ {a} :
                   act[b].pc # "idle" => AsRow(act[b], kind, item, objects)
<1>1. Agree(kind, item, objects, act)  BY DEF PricedInv
<1>2. \A b \in Actors \ {a} : ~Edits(act[b])  BY <1>1 DEF Agree, Ordered
<1>3. ~Pending(act[a]) => \A b \in Actors : ~Pending(act[b])  BY <1>2 DEF Pending
<1>4. Fits(act[a], kind, item, objects)  BY <1>1 DEF Agree, AllFit
<1>5. Solo(act[a], kind) => \A b \in Actors \ {a} : act[b].pc = "idle"  BY <1>1 DEF Agree, Ordered
<1>6. ~Pending(act[a]) =>
              /\ Matches(item, objects)
              /\ item.ref = None => \A b \in Actors \ {a} :
                   act[b].pc # "idle" => AsRow(act[b], kind, item, objects)
  BY <1>1, <1>2, <1>3 DEF Agree, Settled
<1> QED  BY <1>2, <1>4, <1>5, <1>6

(* What the lemmas above ask of a step.                                    *)
LEMMA AtEdit ==
  ASSUME PricedInv, NEW a \in Actors, act[a].pc # "idle"
  PROVE  /\ CatalogInv /\ FormedInv /\ (~apart => Agree(kind, item, objects, act))
         /\ Formed(act[a], kind, Len(objects))
         /\ act[a] \in Request /\ act[a].seen \in Item /\ item \in Item
         /\ kind \in {"plan", "pack"}
         /\ item.ref \in 1..Len(objects) \cup {None} /\ Len(objects) \in Nat
BY AtWork DEF PricedInv, CatalogInv, CatalogTypeOK, FormedInv

LEMMA WritePlanSyncPriced ==
  ASSUME PricedInv, NEW a \in Actors, WritePlanSync(a)
  PROVE  FormedInv' /\ (~apart' => Agree(kind', item', objects', act'))
<1> DEFINE r == act[a]
           changed == r.price # r.seen.price
           refused == r.price \in TooSmall /\ r.provider # None
           next == IF changed /\ refused THEN Idle
                   ELSE [r EXCEPT !.pc = "call", !.ref = r.seen.ref, !.force = changed]
<1>1. r.pc = "write" /\ kind = "plan" /\ r.op = "sync"  BY DEF WritePlanSync, At
<1>2. /\ CatalogInv /\ FormedInv /\ (~apart => Agree(kind, item, objects, act))
      /\ Formed(r, kind, Len(objects)) /\ r \in Request /\ r.seen \in Item /\ item \in Item
      /\ item.ref \in 1..Len(objects) \cup {None}
  BY <1>1, AtEdit
<1>3. Become(a, next) /\ UNCHANGED <<kind, objects>>  BY DEF WritePlanSync, Finish
<1>4. item' = IF ~changed THEN item
              ELSE [item EXCEPT !.provider = r.provider, !.price = IF refused THEN @ ELSE r.price]
  BY DEF WritePlanSync
<1>5. apart' = (apart \/ (changed /\ item.ref # None /\ r.provider # item.provider))
  BY DEF WritePlanSync
<1>6. ~apart' => ~apart  BY <1>2, <1>5 DEF CatalogInv, CatalogTypeOK
<1>7. Edits(r)  BY <1>1 DEF Edits, Editors
<1>8. Formed(next, kind, Len(objects))
  <2>1. CASE changed /\ refused  BY <2>1, IdleFormed
  <2>2. CASE ~(changed /\ refused)
    <3>1. next = [r EXCEPT !.pc = "call", !.ref = r.seen.ref, !.force = changed]  BY <2>2
    <3>2. /\ next.pc = "call" /\ next.op = "sync" /\ next.ref = r.seen.ref /\ next.seen = r.seen
      BY <3>1, <1>1, <1>2 DEF Request
    <3> HIDE DEF next
    <3> QED  BY <3>2, <1>1, <1>2 DEF Formed, Edits, Editors
  <2> QED  BY <2>1, <2>2
<1>9. item'.ref = item.ref /\ item' \in [price : Prices \cup {None}, provider : Providers \cup {None}, ref : Refs \cup {None}]
  BY <1>2, <1>4 DEF Item, Request
<1>10. ASSUME ~apart'
       PROVE  /\ \/ next = Idle
                 \/ /\ next.op = r.op /\ Fits(next, kind, item', objects)
                    /\ next.pc = "link" /\ next.ref = None => \A b \in Actors \ {a} : act[b].pc = "idle"
              /\ ~Pending(next) =>
                   /\ Matches(item', objects)
                   /\ item'.ref = None =>
                        \A b \in Actors \ {a} : act[b].pc # "idle" => AsRow(act[b], kind, item', objects)
  <2>1. ~Pending(r) /\ ~apart  BY <1>1, <1>6, <1>10 DEF Pending
  <2>2. /\ Fits(r, kind, item, objects) /\ Matches(item, objects)
        /\ item.ref = None => \A b \in Actors \ {a} : act[b].pc # "idle" => AsRow(act[b], kind, item, objects)
    BY <2>1, <1>7, Editing
  <2>3. r.seen.price = item.price /\ (r.seen.ref # None => item = r.seen)  BY <1>1, <2>2 DEF Fits
  <2>4. CASE changed /\ refused
    <3>1. next = Idle /\ item'.price = item.price  BY <2>4, <1>2, <1>4 DEF Item
    <3>2. item.ref # None => item' = item
      BY <1>2, <1>4, <1>5, <1>10, <2>4 DEF Item
    <3>3. Matches(item', objects)  BY <1>9, <2>2, <3>2 DEF Matches
    <3>4. item'.ref = None =>
            \A b \in Actors \ {a} : act[b].pc # "idle" => AsRow(act[b], kind, item', objects)
      BY <1>1, <1>9, <2>2, <3>1 DEF AsRow
    <3> QED  BY <3>1, <3>3, <3>4
  <2>5. CASE changed /\ ~refused
    <3>1. next = [r EXCEPT !.pc = "call", !.ref = r.seen.ref, !.force = TRUE]  BY <2>5
    <3>2. /\ next.pc = "call" /\ next.op = "sync" /\ next.ref = r.seen.ref /\ next.force
          /\ next.price = r.price /\ next.provider = r.provider
      BY <3>1, <1>1, <1>2 DEF Request
    <3>3. item'.price = r.price /\ item'.provider = r.provider  BY <1>2, <1>4, <2>5 DEF Item
    <3>4. next.ref # None => item'.ref = next.ref /\ r.provider \in Providers
      <4>1. item.ref # None => r.provider = item.provider  BY <1>5, <1>10, <2>5
      <4> QED  BY <1>9, <2>2, <2>3, <3>2, <4>1 DEF Matches
    <3>5. Fits(next, kind, item', objects)
      <4> HIDE DEF next
      <4> QED  BY <1>1, <3>2, <3>3, <3>4 DEF Fits
    <3>6. Pending(next)
      <4> HIDE DEF next
      <4> QED  BY <3>2 DEF Pending, Edits, Editors
    <3> QED  BY <1>1, <3>2, <3>5, <3>6
  <2>6. CASE ~changed
    <3>1. next = [r EXCEPT !.pc = "call", !.ref = r.seen.ref, !.force = FALSE] /\ item' = item  BY <2>6, <1>4
    <3>2. /\ next.pc = "call" /\ next.op = "sync" /\ ~next.force /\ next.price = r.price
      BY <3>1, <1>1, <1>2 DEF Request
    <3>3. Fits(next, kind, item', objects)
      <4>1. item'.price = r.price  BY <2>3, <2>6, <3>1
      <4> HIDE DEF next
      <4> QED  BY <1>1, <3>2, <4>1 DEF Fits
    <3> QED  BY <1>1, <2>2, <3>1, <3>2, <3>3
  <2> QED  BY <2>4, <2>5, <2>6
<1> HIDE DEF next
<1> QED  BY <1>2, <1>3, <1>6, <1>7, <1>8, <1>9, <1>10, EditSteady

LEMMA WritePlanPatchPriced ==
  ASSUME PricedInv, NEW a \in Actors, WritePlanPatch(a)
  PROVE  FormedInv' /\ (~apart' => Agree(kind', item', objects', act'))
<1> DEFINE r == act[a]
           found == item.ref # None /\ item.provider # None
           next == IF found THEN [r EXCEPT !.pc = "call", !.provider = item.provider, !.ref = item.ref,
                                           !.force = TRUE]
                   ELSE Idle
<1>1. r.pc = "write" /\ kind = "plan" /\ r.op = "patch"  BY DEF WritePlanPatch, At
<1>2. /\ CatalogInv /\ FormedInv /\ (~apart => Agree(kind, item, objects, act))
      /\ Formed(r, kind, Len(objects)) /\ r \in Request /\ item \in Item
      /\ item.ref \in 1..Len(objects) \cup {None}
  BY <1>1, AtEdit
<1>3. Become(a, next) /\ UNCHANGED <<kind, objects, apart>>  BY DEF WritePlanPatch, Finish
<1>4. item'.ref = item.ref /\ item'.price = r.price /\ item'.provider = item.provider
  BY <1>2 DEF WritePlanPatch, Item
<1>5. Edits(r) /\ Solo(r, kind) /\ ~Pending(r)  BY <1>1 DEF Edits, Editors, Solo, Pending
<1>6. CASE found
  <2>1. /\ next.pc = "call" /\ next.op = "patch" /\ next.ref = item.ref /\ next.force
        /\ next.price = r.price /\ next.provider = item.provider /\ next.seen = r.seen
    BY <1>1, <1>2, <1>6 DEF Request
  <2> HIDE DEF next
  <2>2. Formed(next, kind, Len(objects))  BY <2>1, <1>1, <1>2 DEF Formed, Edits, Editors
  <2>3. item.provider \in Providers  BY <1>2, <1>6 DEF Item
  <2>4. Fits(next, kind, item', objects)  BY <1>1, <1>4, <2>1, <2>3 DEF Fits
  <2>5. Pending(next)  BY <2>1 DEF Pending, Edits, Editors
  <2> QED  BY <1>1, <1>2, <1>3, <1>4, <1>5, <2>1, <2>2, <2>4, <2>5, EditSteady
<1>7. CASE ~found
  <2>1. next = Idle  BY <1>7
  <2>2. Formed(next, kind, Len(objects))  BY <2>1, IdleFormed
  <2>3. ASSUME ~apart' PROVE item.ref = None /\ \A b \in Actors \ {a} : act[b].pc = "idle"
    <3>1. /\ \A b \in Actors \ {a} : act[b].pc = "idle"
          /\ Matches(item, objects)
      BY <1>3, <1>5, <2>3, Editing
    <3> QED  BY <1>7, <3>1, Constants, CatalogAssumption DEF Matches
  <2>4. ASSUME ~apart'
        PROVE  /\ Matches(item', objects)
               /\ item'.ref = None => \A b \in Actors \ {a} :
                    act[b].pc # "idle" => AsRow(act[b], kind, item', objects)
    BY <1>4, <2>3, <2>4 DEF Matches
  <2> HIDE DEF next
  <2> QED  BY <1>2, <1>3, <1>4, <1>5, <2>1, <2>2, <2>4, EditSteady
<1> QED  BY <1>6, <1>7

LEMMA WritePackPriced ==
  ASSUME PricedInv, NEW a \in Actors, WritePack(a)
  PROVE  FormedInv' /\ (~apart' => Agree(kind', item', objects', act'))
<1> DEFINE r == act[a]
           p == IF Named(r) THEN r.provider ELSE item.provider
<1>1. r.pc = "write" /\ kind = "pack"  BY DEF WritePack, At
<1>2. /\ CatalogInv /\ FormedInv /\ (~apart => Agree(kind, item, objects, act))
      /\ Formed(r, kind, Len(objects)) /\ r \in Request /\ r.seen \in Item /\ item \in Item
      /\ item.ref \in 1..Len(objects) \cup {None}
  BY <1>1, AtEdit
<1>3. r.ref = None /\ ~r.force /\ Edits(r) /\ ~Pending(r)  BY <1>1, <1>2 DEF Formed, Pending
<1>4. UNCHANGED <<kind, objects, apart>>  BY DEF WritePack
<1>5. item' = IF r.op = "sync" /\ ~Changed(r) THEN item
              ELSE [price |-> r.price, ref |-> ProductAfter(r), provider |-> p]
  BY DEF WritePack
<1>6. item'.ref \in 1..Len(objects) \cup {None}
  <2>1. ProductAfter(r) \in {None, item.ref}  BY DEF ProductAfter
  <2> HIDE DEF p
  <2> QED  BY <1>2, <1>5, <2>1
<1>7. ~apart => /\ r.seen.price = item.price
                /\ \/ item = r.seen
                   \/ r.seen.ref = None /\ item.ref # None /\ item.provider = Target(r.seen.provider)
                /\ Matches(item, objects)
                /\ item.ref = None => \A b \in Actors \ {a} :
                     act[b].pc # "idle" => AsRow(act[b], kind, item, objects)
  BY <1>1, <1>3, Editing DEF Fits
<1>8. ASSUME NEW step \in {"call", "fresh"}, NEW f \in BOOLEAN
      PROVE  LET next == [r EXCEPT !.provider = p, !.pc = step, !.force = f]
             IN
             /\ next.pc = step /\ next.op = r.op /\ next.ref = None /\ next.price = r.price
             /\ next.provider = p /\ next.force = f /\ Formed(next, kind, Len(objects))
  <2> DEFINE next == [r EXCEPT !.provider = p, !.pc = step, !.force = f]
  <2>1. /\ next.pc = step /\ next.op = r.op /\ next.ref = None /\ next.price = r.price
        /\ next.provider = p /\ next.seen = r.seen /\ next.force = f
    BY <1>2, <1>3 DEF Request
  <2> HIDE DEF p, next
  <2>2. Formed(next, kind, Len(objects))  BY <2>1, <1>1, <1>2, <1>3 DEF Formed, Edits, Editors
  <2> QED  BY <2>1, <2>2 DEF next
\* The price or the provider is new: the row gives up its product.
<1>9. CASE Changed(r)
  <2> DEFINE next == [r EXCEPT !.provider = p, !.pc = "call", !.force = TRUE]
  <2>1. Become(a, next)  BY <1>9 DEF WritePack
  <2>2. item'.price = r.price /\ item'.ref = None /\ item'.provider = p  BY <1>5, <1>9 DEF ProductAfter
  <2>3. /\ next.pc = "call" /\ next.op = r.op /\ next.ref = None /\ next.price = r.price
        /\ next.provider = p /\ Formed(next, kind, Len(objects))
    BY <1>8
  <2> HIDE DEF next, p
  <2>4. Fits(next, kind, item', objects) /\ Pending(next)
    BY <1>1, <1>3, <2>2, <2>3 DEF Fits, Pending, Edits
  <2> QED  BY <1>2, <1>3, <1>4, <1>6, <2>1, <2>3, <2>4, EditSteady
\* Otherwise it is as it was, unless a checkout linked its product meanwhile.
<1>10. CASE ~Changed(r)
  <2>1. r.price = r.seen.price /\ (Named(r) => r.provider = r.seen.provider)  BY <1>10 DEF Changed
  <2>2. ~apart => item' = item
    <3> SUFFICES ASSUME ~apart, r.op # "sync" PROVE item' = item  BY <1>5, <1>10
    <3>1. item' = [price |-> item.price, ref |-> item.ref, provider |-> p]
      BY <1>5, <1>7, <1>10, <2>1 DEF ProductAfter
    <3>2. p = item.provider
      <4>1. CASE ~Named(r)  BY <4>1
      <4>2. CASE Named(r)
        <5>1. r.provider = r.seen.provider /\ r.provider # None  BY <2>1, <4>2 DEF Named
        <5> QED  BY <1>7, <4>2, <5>1 DEF Target
      <4> QED  BY <4>1, <4>2
    <3> HIDE DEF p
    <3> QED  BY <1>2, <3>1, <3>2 DEF Item
  <2>3. CASE Finish(a)
    <3>1. Become(a, Idle) /\ Formed(Idle, kind, Len(objects))  BY <2>3, IdleFormed DEF Finish
    <3> HIDE DEF p
    <3> QED  BY <1>2, <1>3, <1>4, <1>6, <1>7, <2>2, <3>1, EditSteady
  <2>4. CASE /\ IF r.op = "sync" THEN r.seen.ref = None ELSE item.ref = None
             /\ \E step \in {"call", "fresh"} : Become(a, [r EXCEPT !.provider = p, !.pc = step])
    <3>1. PICK step \in {"call", "fresh"} : Become(a, [r EXCEPT !.provider = p, !.pc = step])  BY <2>4
    <3> DEFINE next == [r EXCEPT !.provider = p, !.pc = step]
    <3>2. next = [r EXCEPT !.provider = p, !.pc = step, !.force = FALSE]  BY <1>2, <1>3 DEF Request
    <3>3. /\ next.pc = step /\ next.op = r.op /\ next.ref = None /\ next.price = r.price
          /\ next.provider = p /\ Formed(next, kind, Len(objects))
      BY <1>8, <3>2
    <3> HIDE DEF next
    <3>4. ASSUME ~apart PROVE Fits(next, kind, item', objects)
      <4>1. item'.price = r.price  BY <1>7, <2>1, <2>2, <3>4
      <4>2. item'.ref = None => item'.provider = p
        <5>1. CASE r.op # "sync"  BY <5>1, <1>5
        <5>2. CASE r.op = "sync"
          <6>1. Named(r)  BY <5>2 DEF Named
          <6>2. item.ref = None => item = r.seen  BY <1>7, <3>4
          <6> QED  BY <2>1, <2>2, <3>4, <6>1, <6>2
        <5> QED  BY <5>1, <5>2
      <4> HIDE DEF p
      <4> QED  BY <1>1, <3>3, <4>1, <4>2 DEF Fits
    <3> HIDE DEF p
    <3> QED  BY <1>2, <1>3, <1>4, <1>6, <1>7, <2>2, <3>1, <3>3, <3>4, EditSteady DEF next
  <2> QED  BY <1>10, <2>3, <2>4 DEF WritePack
<1> QED  BY <1>9, <1>10

-----------------------------------------------------------------------------
(* The id is read again.  An edit that finds one takes it to the row, for  *)
(* it is of an object at the row's price.                                  *)
LEMMA FreshPriced ==
  ASSUME PricedInv, NEW a \in Actors, Fresh(a)
  PROVE  FormedInv' /\ (~apart' => Agree(kind', item', objects', act'))
<1> DEFINE r == act[a]
<1>1. r.pc = "fresh" /\ UNCHANGED <<kind, item, objects, apart>>  BY DEF Fresh, At
<1>2. /\ CatalogInv /\ FormedInv /\ (~apart => Agree(kind, item, objects, act))
      /\ Formed(r, kind, Len(objects)) /\ r \in Request /\ item \in Item
      /\ kind \in {"plan", "pack"} /\ item.ref \in 1..Len(objects) \cup {None}
  BY <1>1, AtEdit
<1>3. r.ref = None \/ Edits(r)
  BY <1>1, <1>2 DEF Formed, Edits, Editors, Request, Ops
<1>4. Edits(r) => kind = "pack" /\ ~Pending(r) /\ r.ref = None
  BY <1>1, <1>2 DEF Formed, Pending
<1>5. CASE Become(a, [r EXCEPT !.pc = "call"])
  <2> DEFINE next == [r EXCEPT !.pc = "call"]
  <2>1. /\ next.pc = "call" /\ next.op = r.op /\ next.ref = r.ref /\ next.price = r.price
        /\ next.provider = r.provider /\ next.seen = r.seen /\ next.force = r.force
    BY <1>2 DEF Request
  <2> HIDE DEF next
  <2>2. Formed(next, kind, Len(objects))  BY <1>1, <1>2, <2>1 DEF Formed, Edits
  <2>3. CASE Edits(r)
    <3>1. Pending(next)  BY <1>4, <2>1, <2>3 DEF Pending, Edits
    <3>2. ~apart => Fits(next, kind, item, objects)
      <4>1. ~apart => Fits(r, kind, item, objects)  BY <2>3, Editing
      <4> QED  BY <1>1, <1>4, <2>1, <2>3, <4>1 DEF Fits
    <3> QED  BY <1>1, <1>2, <1>5, <2>1, <2>2, <2>3, <3>1, <3>2, EditSteady DEF next
  <2>4. CASE ~Edits(r)
    <3>1. ~Edits(next)  BY <2>1, <2>4 DEF Edits
    <3>2. AsRow(r, kind, item, objects) => AsRow(next, kind, item, objects)  BY <2>1 DEF AsRow
    <3>3. Settled(kind, item, objects, act) /\ item.ref = None /\ (\A b \in Actors : ~Pending(act[b]))
            => AsRow(r, kind, item, objects)
      BY <1>1, <2>4 DEF Settled
    <3> QED  BY <1>1, <1>2, <1>5, <2>2, <2>4, <3>1, <3>2, <3>3, Steady DEF next
  <2> QED  BY <2>3, <2>4
<1>6. CASE Finish(a) /\ ~Edits(r)
  BY <1>1, <1>2, <1>6, IdleFormed, Steady DEF Finish
<1>7. CASE /\ Known(r) /\ kind = "pack"
           /\ Become(a, [r EXCEPT !.ref = item.ref, !.pc = IF r.op = "buy" THEN "claim" ELSE "link"])
  <2> DEFINE step == IF r.op = "buy" THEN "claim" ELSE "link"
             next == [r EXCEPT !.ref = item.ref, !.pc = step]
  <2>1. /\ next.pc = step /\ next.op = r.op /\ next.ref = item.ref /\ next.price = r.price
        /\ next.provider = r.provider /\ next.seen = r.seen /\ next.force = r.force
    BY <1>2 DEF Request
  <2>2. step \in {"claim", "link"} /\ (step = "claim" <=> r.op = "buy")  OBVIOUS
  <2>3. r.op # "buy" <=> Edits(r)
    BY <1>1, <1>2, <1>7 DEF Formed, Edits, Editors, Request, Ops
  <2>4. item.ref # None /\ item.provider = Target(r.provider)  BY <1>7 DEF Known
  <2> HIDE DEF next, step
  <2>5. Formed(next, kind, Len(objects))  BY <1>1, <1>2, <1>7, <2>1, <2>2, <2>3 DEF Formed, Edits
  <2>6. CASE Edits(r)
    <3>1. Pending(next)  BY <2>1, <2>2, <2>3, <2>6 DEF Pending, Edits
    <3>2. ASSUME ~apart PROVE Fits(next, kind, item, objects)
      <4>1. Fits(r, kind, item, objects) /\ Matches(item, objects)  BY <1>4, <2>6, <3>2, Editing
      <4>2. item.price = r.price  BY <1>1, <4>1 DEF Fits
      <4>3. objects[item.ref] = [price |-> r.price, provider |-> Target(r.provider)]
        BY <2>4, <4>1, <4>2 DEF Matches
      <4>4. Asked(next) = [price |-> r.price, provider |-> Target(r.provider)]  BY <2>1 DEF Asked
      <4> QED  BY <1>7, <2>1, <2>2, <2>3, <2>4, <2>6, <4>2, <4>3, <4>4 DEF Fits
    <3> QED  BY <1>1, <1>2, <1>7, <2>1, <2>4, <2>5, <2>6, <3>1, <3>2, EditSteady DEF next, step
  <2>7. CASE ~Edits(r)
    <3>1. ~Edits(next)  BY <2>1, <2>7 DEF Edits
    <3> QED  BY <1>1, <1>2, <1>7, <2>4, <2>5, <2>7, <3>1, Steady DEF next, step
  <2> QED  BY <2>6, <2>7
<1>8. r.op \in {"connect", "buy"} => ~Edits(r)  BY DEF Edits, Editors
<1> QED  BY <1>5, <1>6, <1>7, <1>8 DEF Fresh

-----------------------------------------------------------------------------
(* A new object is as its maker asks for it, and nobody else's.            *)
LEMMA MadePriced ==
  ASSUME PricedInv, NEW a \in Actors, act[a].pc = "call",
         objects' = Append(objects, Asked(act[a])), Become(a, Made(a)),
         UNCHANGED <<kind, item, apart>>
  PROVE  FormedInv' /\ (~apart' => Agree(kind', item', objects', act'))
<1> DEFINE r == act[a]
           n == Len(objects)
           step == IF Edits(r) THEN "link" ELSE "claim"
           next == [r EXCEPT !.ref = n + 1, !.pc = step]
<1>1. /\ CatalogInv /\ FormedInv /\ (~apart => Agree(kind, item, objects, act))
      /\ Formed(r, kind, n) /\ r \in Request /\ item.ref \in 1..n \cup {None} /\ n \in Nat
      /\ kind \in {"plan", "pack"}
  BY AtEdit
<1>2. act \in [Actors -> Request] /\ objects \in Seq(Object)  BY <1>1 DEF CatalogInv, CatalogTypeOK
<1>3. r.price \in Prices /\ Target(r.provider) \in Providers  BY <1>1, AtWork
<1>4. Asked(r) \in Object  BY <1>3 DEF Asked, Object
<1>5. Len(objects') = n + 1 /\ objects'[n + 1] = Asked(r) /\ \A m \in 1..n : objects'[m] = objects[m]
  <2> HIDE DEF r
  <2> QED  BY <1>2, <1>4 DEF r
<1>6. Become(a, next)  BY DEF Made, Edits
<1>7. /\ next.pc = step /\ next.op = r.op /\ next.ref = n + 1 /\ next.price = r.price
      /\ next.provider = r.provider /\ next.seen = r.seen /\ next.force = r.force
  BY <1>1 DEF Request
<1>8. step = IF Edits(r) THEN "link" ELSE "claim"  OBVIOUS
<1>9. n + 1 # None  BY <1>1, Constants
<1> HIDE DEF next, step
<1>10. Asked(next) = Asked(r)  BY <1>7 DEF Asked
<1>11. Formed(next, kind, n + 1)
  <2>1. n + 1 \in 1..(n + 1) /\ 1..n \subseteq 1..(n + 1)  BY <1>1
  <2> QED  BY <1>1, <1>7, <1>8, <2>1 DEF Formed, Edits
<1>12. FormedInv'
  <2>1. n <= n + 1 /\ n + 1 \in Nat /\ item'.ref \in 1..(n + 1) \cup {None}  BY <1>1
  <2> QED  BY <1>1, <1>5, <1>6, <1>11, <2>1, StaysFormed
<1>13. CASE Edits(r)
  <2>1. Pending(next) /\ Edits(next)  BY <1>7, <1>8, <1>13 DEF Pending, Edits
  <2>2. ASSUME ~apart' PROVE Agree(kind, item, objects', [act EXCEPT ![a] = next])
    <3>1. Fits(r, kind, item, objects)  BY <1>13, <2>2, Editing
    <3>2. Fits(next, kind, item, objects')
      BY <1>5, <1>7, <1>8, <1>9, <1>10, <1>13, <3>1 DEF Fits
    <3>3. Ordered(kind, act)  BY <1>1, <2>2 DEF Agree
    <3> QED  BY <1>2, <1>7, <1>9, <1>13, <2>1, <3>2, <3>3, EditMoves
  <2> QED  BY <1>6, <1>12, <2>2 DEF Become
<1>14. CASE ~Edits(r)
  <2>1. ~Edits(next)  BY <1>7, <1>14 DEF Edits
  <2>2. ASSUME ~apart' PROVE Agree(kind, item, objects', [act EXCEPT ![a] = next])
    <3>1. \A b \in Actors : act[b].ref \in 1..n \cup {None}  BY <1>1 DEF FormedInv, Formed
    <3>2. \A b \in Actors : act[b].pc = "claim" => act[b].ref # None
      BY <1>1, Constants DEF CatalogInv, Kept, WellKept
    <3>3. Agree(kind, item, objects, act)  BY <1>1, <2>2
    <3> HIDE DEF n
    <3>4. Agree(kind, item, objects', act)  BY <1>1, <1>2, <1>5, <3>1, <3>2, <3>3, ObjectsGrow
    <3>5. ASSUME Settled(kind, item, objects', act), item.ref = None, \A b \in Actors : ~Pending(act[b])
          PROVE  AsRow(next, kind, item, objects')
      <4>1. AsRow(r, kind, item, objects')  BY <3>5, <1>14 DEF Settled
      <4> QED  BY <1>5, <1>7, <1>10, <4>1 DEF AsRow
    <3> QED  BY <1>2, <1>14, <2>1, <3>4, <3>5, OtherMoves
  <2> QED  BY <1>6, <1>12, <2>2 DEF Become
<1> QED  BY <1>13, <1>14

LEMMA CreatePriced ==
  ASSUME PricedInv, NEW a \in Actors, Create(a)
  PROVE  FormedInv' /\ (~apart' => Agree(kind', item', objects', act'))
<1>1. /\ act[a].pc = "call" /\ objects' = Append(objects, Asked(act[a])) /\ Become(a, Made(a))
      /\ UNCHANGED <<kind, item, apart>>
  BY DEF Create, At, Asked
<1> QED  BY <1>1, MadePriced

(* Changed in place, the row's object is as the row says.                  *)
LEMMA UpdatePriced ==
  ASSUME PricedInv, NEW a \in Actors, UpdateObject(a)
  PROVE  FormedInv' /\ (~apart' => Agree(kind', item', objects', act'))
<1> DEFINE r == act[a]
<1>1. /\ r.pc = "call" /\ kind = "plan" /\ r.ref # None /\ r.force
      /\ UNCHANGED <<kind, item, apart>>
  BY DEF UpdateObject, At
<1>2. /\ CatalogInv /\ FormedInv /\ (~apart => Agree(kind, item, objects, act))
      /\ Formed(r, kind, Len(objects)) /\ r \in Request
      /\ item.ref \in 1..Len(objects) \cup {None} /\ Len(objects) \in Nat
  BY <1>1, AtEdit
<1>3. Edits(r)  BY <1>1, <1>2 DEF Formed, Edits, Editors, Request, Ops
<1>4. CASE objects' = Append(objects, Asked(r)) /\ Become(a, Made(a))
  BY <1>1, <1>4, MadePriced
<1>5. CASE objects' = [objects EXCEPT ![r.ref] = Asked(r)] /\ Finish(a)
  <2>1. Become(a, Idle)  BY <1>5 DEF Finish
  <2>2. r.ref \in 1..Len(objects)  BY <1>1, <1>2 DEF Formed
  <2>3. Len(objects') = Len(objects) /\ objects'[r.ref] = Asked(r)
    <3>1. objects \in Seq(Object) /\ Asked(r) \in Object
      BY <1>1, <1>2, AtWork DEF CatalogInv, CatalogTypeOK, Object, Asked
    <3>2. objects \in [1..Len(objects) -> Object]  BY <3>1
    <3>3. objects' \in [1..Len(objects) -> Object]
      <4> HIDE DEF r
      <4> QED  BY <1>5, <3>1, <3>2
    <3>4. PICK m \in Nat : Len(objects) = m  BY <1>2
    <3>5. Len(objects') = Len(objects)  BY <3>3, <3>4
    <3> HIDE DEF r
    <3> QED  BY <1>5, <2>2, <3>2, <3>5
  <2>4. FormedInv'  BY <1>1, <1>2, <2>1, <2>3, IdleFormed, StaysFormed
  <2>5. ASSUME ~apart' PROVE Agree(kind, item, objects', [act EXCEPT ![a] = Idle])
    <3>1. /\ item.ref = r.ref /\ item.price = r.price /\ item.provider = r.provider
          /\ r.provider \in Providers
      BY <1>1, <1>3, <2>5, Editing DEF Fits
    <3>2. Asked(r) = [price |-> item.price, provider |-> item.provider]
      BY <3>1, CatalogAssumption DEF Asked, Target
    <3>3. Matches(item, objects')  BY <2>3, <3>1, <3>2 DEF Matches
    <3>4. Ordered(kind, act) /\ act \in [Actors -> Request]
      BY <1>1, <1>2, <2>5 DEF Agree, CatalogInv, CatalogTypeOK
    <3> HIDE DEF r
    <3> QED  BY <1>1, <1>3, <3>1, <3>3, <3>4, EditMoves DEF r
  <2> QED  BY <1>1, <2>1, <2>4, <2>5 DEF Become
<1> QED  BY <1>4, <1>5 DEF UpdateObject, Asked

-----------------------------------------------------------------------------
(* An edit that ends without reaching the provider: either nothing was to  *)
(* be done there, or nobody else is at work on a row without an object.    *)
LEMMA EditEnds ==
  ASSUME PricedInv, NEW a \in Actors, act[a].pc # "idle", Finish(a), UNCHANGED <<kind, item, objects>>,
         Edits(act[a]), Slip(a) \/ (~Pending(act[a]) /\ UNCHANGED apart)
  PROVE  FormedInv' /\ (~apart' => Agree(kind', item', objects', act'))
<1>1. /\ CatalogInv /\ FormedInv /\ (~apart => Agree(kind, item, objects, act))
      /\ item.ref \in 1..Len(objects) \cup {None}
  BY AtEdit
<1>2. Become(a, Idle) /\ Formed(Idle, kind, Len(objects))  BY IdleFormed DEF Finish
<1>3. ~apart' => ~apart  BY <1>1 DEF Slip, CatalogInv, CatalogTypeOK
<1>4. ASSUME ~apart'
      PROVE  /\ Matches(item, objects)
             /\ item.ref = None =>
                  \A b \in Actors \ {a} : act[b].pc # "idle" => AsRow(act[b], kind, item, objects)
  <2>1. CASE ~Pending(act[a])  BY <1>3, <1>4, <2>1, Editing
  <2>2. CASE Slip(a)
    <3>1. item.ref = None /\ \A b \in Actors \ {a} : act[b].pc = "idle"
      BY <1>4, <2>2 DEF Slip, OthersOccupied, Occupied
    <3> QED  BY <3>1 DEF Matches
  <2> QED  BY <2>1, <2>2
<1> QED  BY <1>1, <1>2, <1>3, <1>4, EditSteady

LEMMA SkipPriced ==
  ASSUME PricedInv, NEW a \in Actors, Skip(a)
  PROVE  FormedInv' /\ (~apart' => Agree(kind', item', objects', act'))
<1> DEFINE r == act[a]
<1>1. r.pc = "call" /\ Edits(r) /\ UNCHANGED <<kind, item, objects>>  BY DEF Skip, At, Edits
<1>2. /\ CatalogInv /\ FormedInv /\ (~apart => Agree(kind, item, objects, act))
      /\ Formed(r, kind, Len(objects)) /\ r \in Request
      /\ item.ref \in 1..Len(objects) \cup {None}
  BY <1>1, AtEdit
<1>3. CASE Finish(a) /\ Slip(a)  BY <1>1, <1>3, EditEnds
<1>4. CASE r.ref # None /\ ~r.force /\ Finish(a) /\ UNCHANGED apart
  BY <1>1, <1>4, EditEnds DEF Pending
<1>5. CASE /\ kind = "pack" /\ Target(r.provider) \in Bare /\ r.provider = None
           /\ Become(a, [r EXCEPT !.pc = "link"]) /\ Slip(a)
  <2> DEFINE next == [r EXCEPT !.pc = "link"]
  <2>1. /\ next.pc = "link" /\ next.op = r.op /\ next.ref = r.ref /\ next.price = r.price
        /\ next.provider = r.provider /\ next.seen = r.seen /\ next.force = r.force
    BY <1>2 DEF Request
  <2> HIDE DEF next
  <2>2. r.ref = None  BY <1>1, <1>2, <1>5 DEF Formed
  <2>3. Formed(next, kind, Len(objects))  BY <1>1, <1>2, <1>5, <2>1 DEF Formed, Edits, Editors
  <2>4. Pending(next)  BY <1>1, <2>1 DEF Pending, Edits
  <2>5. ~apart' => ~apart  BY <1>2, <1>5 DEF Slip, CatalogInv, CatalogTypeOK
  <2>6. ASSUME ~apart'
        PROVE  Fits(next, kind, item, objects) /\ \A b \in Actors \ {a} : act[b].pc = "idle"
    <3>1. item.ref = None /\ \A b \in Actors \ {a} : act[b].pc = "idle"
      BY <1>5, <2>6 DEF Slip, OthersOccupied, Occupied
    <3>2. item.price = r.price /\ item.provider = None
      BY <1>1, <1>5, <2>5, <2>6, <3>1, Editing DEF Fits
    <3>3. Default \in Bare  BY <1>5 DEF Target
    <3> QED  BY <1>5, <2>1, <2>2, <3>1, <3>2, <3>3 DEF Fits
  <2> QED  BY <1>1, <1>2, <1>5, <2>1, <2>3, <2>4, <2>5, <2>6, EditSteady DEF next
<1> QED  BY <1>3, <1>4, <1>5 DEF Skip

LEMMA FaultPriced ==
  ASSUME PricedInv, NEW a \in Actors, Refuse(a) \/ Die(a)
  PROVE  FormedInv' /\ (~apart' => Agree(kind', item', objects', act'))
<1>1. act[a].pc # "idle" /\ Finish(a) /\ UNCHANGED <<kind, item, objects>>
  BY DEF Refuse, Die, At, Occupied
<1>2. CASE Edits(act[a])
  <2>1. Slip(a) \/ (act[a].pc = "write" /\ UNCHANGED apart)  BY <1>2 DEF Refuse, Die, At, Edits
  <2> QED  BY <1>1, <1>2, <2>1, EditEnds DEF Pending
<1>3. CASE ~Edits(act[a])
  <2>1. UNCHANGED apart  BY <1>3 DEF Refuse, Die, Edits
  <2> QED  BY <1>1, <1>3, <2>1, AtEdit, IdleFormed, Steady DEF Finish
<1> QED  BY <1>2, <1>3

-----------------------------------------------------------------------------
(* An edit's object has the price the edit gave the row.                   *)
LEMMA LinkPriced ==
  ASSUME PricedInv, NEW a \in Actors, Link(a)
  PROVE  FormedInv' /\ (~apart' => Agree(kind', item', objects', act'))
<1> DEFINE r == act[a]
<1>1. r.pc = "link" /\ UNCHANGED <<kind, objects, apart>> /\ Become(a, Idle)  BY DEF Link, At, Finish
<1>2. /\ CatalogInv /\ FormedInv /\ (~apart => Agree(kind, item, objects, act))
      /\ Formed(r, kind, Len(objects)) /\ r \in Request /\ item \in Item
  BY <1>1, AtEdit
<1>3. Edits(r) /\ r.ref \in 1..Len(objects) \cup {None}  BY <1>1, <1>2 DEF Formed
<1>4. /\ item'.ref = r.ref /\ item'.price = item.price
      /\ item'.provider = IF kind = "plan" /\ r.op = "patch" THEN item.provider ELSE Target(r.provider)
  BY <1>2 DEF Link, Item
<1>5. Target(r.provider) \in Providers  BY <1>1, <1>2, AtWork
<1>6. ASSUME ~apart'
      PROVE  /\ Matches(item', objects)
             /\ item'.ref = None =>
                  \A b \in Actors \ {a} : act[b].pc # "idle" => AsRow(act[b], kind, item', objects)
  <2>1. /\ Fits(r, kind, item, objects)
        /\ Solo(r, kind) => \A b \in Actors \ {a} : act[b].pc = "idle"
    BY <1>1, <1>3, <1>6, Editing
  <2>2. CASE r.ref = None
    <3>1. Solo(r, kind)  BY <1>1, <1>3, <2>2 DEF Solo
    <3> QED  BY <1>4, <2>1, <2>2, <3>1 DEF Matches
  <2>3. CASE r.ref # None
    <3>1. objects[r.ref] = [price |-> item.price, provider |-> Target(r.provider)]
      BY <1>1, <2>1, <2>3 DEF Fits, Asked
    <3>2. item'.provider = Target(r.provider)
      <4>1. CASE kind = "plan" /\ r.op = "patch"
        <5>1. item.provider = r.provider /\ r.provider # None
          BY <1>1, <2>1, <4>1, CatalogAssumption DEF Fits
        <5> QED  BY <1>4, <5>1 DEF Target
      <4>2. CASE ~(kind = "plan" /\ r.op = "patch")  BY <1>4, <4>2
      <4> QED  BY <4>1, <4>2
    <3> QED  BY <1>4, <1>5, <2>3, <3>1, <3>2 DEF Matches
  <2> QED  BY <2>2, <2>3
<1> HIDE DEF r
<1> QED  BY <1>1, <1>2, <1>3, <1>4, <1>6, IdleFormed, EditSteady DEF r

(* The first object that a checkout or a connection links has the price of *)
(* the row, for no edit has anything left to do.                           *)
LEMMA ClaimPriced ==
  ASSUME PricedInv, NEW a \in Actors, Claim(a)
  PROVE  FormedInv' /\ (~apart' => Agree(kind', item', objects', act'))
<1> DEFINE r == act[a]
<1>1. r.pc = "claim" /\ item.ref = None /\ UNCHANGED <<kind, objects, apart>> /\ Become(a, Idle)
  BY DEF Claim, At, Finish
<1>2. /\ CatalogInv /\ FormedInv /\ (~apart => Agree(kind, item, objects, act))
      /\ Formed(r, kind, Len(objects)) /\ r \in Request /\ item \in Item /\ Len(objects) \in Nat
      /\ act \in [Actors -> Request]
  BY <1>1, AtEdit DEF CatalogInv, CatalogTypeOK
<1>3. ~Edits(r)  BY <1>1, <1>2 DEF Formed
<1>4. r.ref # None  BY <1>1, <1>2, Constants DEF CatalogInv, Kept, WellKept
<1>5. /\ item'.ref = r.ref /\ item'.price = item.price /\ item'.provider = Target(r.provider)
  BY <1>2 DEF Claim, Item
<1>6. Target(r.provider) \in Providers  BY <1>1, <1>2, AtWork
<1>7. FormedInv'
  <2>1. item'.ref \in 1..Len(objects)  BY <1>2, <1>4, <1>5 DEF Formed
  <2> QED  BY <1>1, <1>2, <2>1, IdleFormed, StaysFormed
<1>8. ASSUME ~apart' PROVE Agree(kind, item', objects, [act EXCEPT ![a] = Idle])
  <2>1. Agree(kind, item, objects, act)  BY <1>1, <1>2, <1>8
  <2>2. ASSUME NEW b \in Actors, Edits(act[b])
        PROVE  /\ act[b].pc # "link" \/ act[b].ref # None
               /\ ~(kind = "plan" /\ act[b].op = "patch")
    <3>1. ~Solo(act[b], kind)  BY <1>1, <1>3, <2>1, <2>2 DEF Agree, Ordered
    <3> QED  BY <2>2, <3>1 DEF Solo
  <2>3. ASSUME NEW b \in Actors, Edits(act[b]) PROVE Fits(act[b], kind, item', objects)
    <3>1. Fits(act[b], kind, item, objects)  BY <2>1, <2>3 DEF Agree, AllFit
    <3>2. CASE act[b].pc = "write"
      <4>1. \A c \in Actors : ~Pending(act[c])
        BY <2>1, <2>3, <3>2 DEF Agree, Ordered, Pending
      <4>2. AsRow(r, kind, item, objects)  BY <1>1, <1>3, <2>1, <4>1 DEF Agree, Settled
      <4>3. item = act[b].seen  BY <1>1, <3>1, <3>2 DEF Fits
      <4>4. kind = "pack" => item'.provider = Target(act[b].seen.provider)
        <5> SUFFICES ASSUME kind = "pack" PROVE Target(r.provider) = Target(item.provider)
          BY <1>5, <4>3
        <5>1. r.provider = Target(item.provider)  BY <4>2 DEF AsRow
        <5>2. Target(item.provider) \in Providers  BY <1>2, TargetProvider DEF Item
        <5> QED  BY <5>1, <5>2, CatalogAssumption DEF Target
      <4>5. act[b].seen.price = item'.price /\ act[b].seen.ref = None /\ item'.ref # None
        BY <1>1, <1>4, <1>5, <4>3
      <4> QED  BY <3>2, <4>4, <4>5 DEF Fits
    <3>3. CASE act[b].pc # "write"
      <4>1. item.price = act[b].price  BY <3>1, <3>3 DEF Fits
      <4> HIDE DEF r
      <4> QED  BY <1>1, <1>4, <1>5, <2>2, <2>3, <3>1, <3>3, <4>1 DEF Fits
    <3> QED  BY <3>2, <3>3
  <2> DEFINE u == [act EXCEPT ![a] = Idle]
  <2>4. u[a] = Idle /\ \A b \in Actors \ {a} : u[b] = act[b]  BY <1>2
  <2> HIDE DEF u
  <2>5. AllFit(kind, item', objects, u)  BY <2>3, <2>4, IdleFormed DEF AllFit
  <2>6. Ordered(kind, u)
    <3>1. ~Solo(Idle, kind)  BY DEF Solo, Idle, Edits, Editors
    <3> QED  BY <2>1, <2>4, <3>1, IdleFormed DEF Agree, Ordered
  <2>7. Settled(kind, item', objects, u)
    <3> SUFFICES ASSUME \A b \in Actors : ~Pending(u[b]) PROVE Matches(item', objects)
      BY <1>4, <1>5 DEF Settled
    <3>1. \A b \in Actors : ~Pending(act[b])  BY <1>3, <2>4 DEF Pending
    <3>2. AsRow(r, kind, item, objects)  BY <1>1, <1>3, <2>1, <3>1 DEF Agree, Settled
    <3>3. objects[r.ref] = [price |-> item.price, provider |-> Target(r.provider)]
      BY <1>1, <3>2 DEF AsRow, Asked
    <3> QED  BY <1>5, <1>6, <3>3 DEF Matches
  <2> QED  BY <2>5, <2>6, <2>7 DEF Agree, u
<1> QED  BY <1>1, <1>7, <1>8 DEF Become

LEMMA LosePriced ==
  ASSUME PricedInv, NEW a \in Actors, LoseClaim(a) \/ Winner(a)
  PROVE  FormedInv' /\ (~apart' => Agree(kind', item', objects', act'))
<1> DEFINE r == act[a]
<1>1. r.pc \in {"claim", "winner"} /\ UNCHANGED <<kind, item, objects, apart>>
  BY DEF LoseClaim, Winner, At
<1>2. /\ CatalogInv /\ FormedInv /\ (~apart => Agree(kind, item, objects, act))
      /\ Formed(r, kind, Len(objects)) /\ r \in Request
  BY <1>1, AtEdit
<1>3. ~Edits(r)  BY <1>1, <1>2 DEF Formed
<1>4. CASE Finish(a)  BY <1>1, <1>2, <1>3, <1>4, IdleFormed, Steady DEF Finish
<1>5. CASE r.op = "buy" /\ item.ref # None /\ Become(a, [r EXCEPT !.pc = "winner"])
  <2> DEFINE next == [r EXCEPT !.pc = "winner"]
  <2>1. /\ next.pc = "winner" /\ next.op = r.op /\ next.ref = r.ref /\ next.price = r.price
        /\ next.provider = r.provider /\ next.seen = r.seen /\ next.force = r.force
    BY <1>2 DEF Request
  <2> HIDE DEF next
  <2>2. Formed(next, kind, Len(objects)) /\ ~Edits(next)
    BY <1>1, <1>2, <1>3, <1>5, <2>1 DEF Formed, Edits
  <2> QED  BY <1>1, <1>2, <1>3, <1>5, <2>1, <2>2, Steady DEF next
<1> QED  BY <1>4, <1>5 DEF LoseClaim, Winner

LEMMA PricedStep == PricedInv /\ [CatalogNext]_catalogVars => PricedInv'
<1> SUFFICES ASSUME PricedInv, [CatalogNext]_catalogVars PROVE PricedInv'  OBVIOUS
<1>1. CatalogInv'  BY CatalogStep DEF PricedInv
<1>2. FormedInv' /\ (~apart' => Agree(kind', item', objects', act'))
  <2>1. CASE UNCHANGED catalogVars  BY <2>1 DEF catalogVars, PricedInv, FormedInv
  <2>2. CASE CatalogNext
    <3>1. PICK a \in Actors :
            \/ \E price \in Prices, p \in Providers \cup {None} : Sync(a, price, p) \/ Patch(a, price, p)
            \/ \E p \in Providers : Connect(a, p)
            \/ Buy(a)
            \/ WritePlanSync(a) \/ WritePlanPatch(a) \/ WritePack(a)
            \/ Fresh(a) \/ Create(a) \/ UpdateObject(a) \/ Skip(a) \/ Refuse(a)
            \/ Link(a) \/ Claim(a) \/ LoseClaim(a) \/ Winner(a) \/ Die(a)
      BY <2>2 DEF CatalogNext
    <3>2. CASE WritePlanSync(a) \/ WritePlanPatch(a) \/ WritePack(a)
      BY <3>2, WritePlanSyncPriced, WritePlanPatchPriced, WritePackPriced
    <3>3. CASE Fresh(a) \/ Create(a) \/ UpdateObject(a) \/ Skip(a)
      BY <3>3, FreshPriced, CreatePriced, UpdatePriced, SkipPriced
    <3>4. CASE Link(a) \/ Claim(a) \/ LoseClaim(a) \/ Winner(a)
      BY <3>4, LinkPriced, ClaimPriced, LosePriced
    <3>5. CASE Refuse(a) \/ Die(a)  BY <3>5, FaultPriced
    <3> QED  BY <3>1, <3>2, <3>3, <3>4, <3>5, EnterPriced
  <2> QED  BY <2>1, <2>2
<1> QED  BY <1>1, <1>2 DEF PricedInv

(* Once nobody is at work, the provider charges the price the catalog      *)
(* shows, unless an edit did not get through or crossed another: for any   *)
(* number of edits, connections and checkouts, in any order (sync.ts:334,  *)
(* credit-packs.ts:323, plan-sync.ts:116).                                 *)
THEOREM PricedAsShown == CatalogSpec => []PricedAsListed
<1>1. CatalogSpec => []PricedInv  BY PricedInitInv, PricedStep, PTL DEF CatalogSpec
<1>2. PricedInv => PricedAsListed
  <2> SUFFICES ASSUME PricedInv, \A a \in Actors : ~Occupied(a), item.ref # None, ~apart
               PROVE  objects[item.ref] = [price |-> item.price, provider |-> item.provider]
    BY DEF PricedAsListed
  <2>1. \A a \in Actors : ~Pending(act[a])  BY DEF Occupied, Pending
  <2> QED  BY <2>1 DEF PricedInv, Agree, Settled, Matches
<1> QED  BY <1>1, <1>2, PTL
=============================================================================
