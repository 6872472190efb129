-------------------------- MODULE CustomerIdentity --------------------------
(***************************************************************************)
(* Which customer a request is about (apps/api/src/lib/customers.ts and    *)
(* customer-resolution.ts).  A request names a customer by its id, by the  *)
(* caller's own id or by mail; the customer is looked up in the KV cache   *)
(* and the database and made on first use.  Payment events make customers  *)
(* too, and the dashboard makes and deletes them.  An action is one read   *)
(* or write of the database or the cache.                                  *)
(***************************************************************************)
EXTENDS Integers, FiniteSets

CONSTANTS
  Mails,        \* mail addresses, as they are written
  Lower,        \* the address in lower case
  Externals,    \* the caller's own ids
  None,         \* no mail, no external id
  Requests,     \* what the API handles at a time
  MaxRequests,  \* bound on the requests that may make a customer
  MaxDeletes,   \* bound on the customers deleted
  MaxFaults     \* bound on the plan assignments that raise

ASSUME IdentityAssumption ==
  /\ Lower \in [Mails -> Mails] /\ \A m \in Mails : Lower[Lower[m]] = Lower[m]
  /\ {MaxRequests, MaxDeletes, MaxFaults} \subseteq Nat
  /\ None \notin Mails \cup Externals \cup Nat
  /\ Mails \cap Externals = {} /\ (Mails \cup Externals) \cap Nat = {}

VARIABLES
  rows,     \* customers by id
  made,     \* ids given out so far
  cache,    \* the KV entries by alias; 0 is no entry
  writes,   \* entries still to be put in the background: <<alias, id>>
  req,      \* the requests, handlers and operators at work
  starts, deletes, faults,
  late,     \* deleted customers a background write may still bring back
  failed    \* customers whose maker raised before it gave them their plans

vars == <<rows, made, cache, writes, req, starts, deletes, faults, late, failed>>

Ids == 1..MaxRequests
Own == Externals \cup Ids       \* an unknown id is kept as the caller's own
Aliases == Mails \cup Own

(* /track and /check; POST /customers; /attach and /addon; charge.success; *)
(* the dashboard's form and its delete button.                             *)
API == {"track", "create", "attach"}
Callers == API \cup {"event", "operator", "delete"}
Assigns == {"track", "create", "operator"}

Steps == {"idle", "cache", "lookup", "insert", "plans", "recache", "relookup", "mailcache",
          "mailrow", "update", "find", "delete", "forget", "done"}

Row == [email : Mails \cup {None}, external : Own \cup {None}, live : BOOLEAN,
        plans : Nat, maker : Callers \cup {None}]
Request == [pc : Steps, caller : Callers \cup {None}, ident : Aliases \cup {None},
            email : Mails \cup {None}, hand : Ids \cup {0}, due : Ids \cup {0},
            todo : SUBSET Aliases]

NoRow == [email |-> None, external |-> None, live |-> FALSE, plans |-> 0, maker |-> None]
NoRequest == [pc |-> "idle", caller |-> None, ident |-> None, email |-> None,
              hand |-> 0, due |-> 0, todo |-> {}]

TypeOK ==
  /\ rows \in [Ids -> Row] /\ made \in Ids \cup {0}
  /\ cache \in [Aliases -> Ids \cup {0}]
  /\ writes \subseteq Aliases \X Ids
  /\ req \in [Requests -> Request]
  /\ starts \in 0..MaxRequests /\ deletes \in 0..MaxDeletes /\ faults \in 0..MaxFaults
  /\ late \subseteq Ids /\ failed \subseteq Ids

Init ==
  /\ rows = [r \in Ids |-> NoRow] /\ made = 0
  /\ cache = [a \in Aliases |-> 0] /\ writes = {}
  /\ req = [q \in Requests |-> NoRequest]
  /\ starts = 0 /\ deletes = 0 /\ faults = 0
  /\ late = {} /\ failed = {}

-----------------------------------------------------------------------------
Live == {r \in Ids : rows[r].live}
Key(i) == IF i \in Mails THEN Lower[i] ELSE i

(* setCustomerAliases writes, and invalidateCustomerAliases drops, one     *)
(* entry per name.                                                         *)
AliasesOf(r) == {r, Lower[rows[r].email], rows[r].external} \ {None}

\* Wrong: the entry under the caller's own id stays.
DroppedButOwn(r) == {r, Lower[rows[r].email]}

Dropped(r) == AliasesOf(r)

(* resolveCustomerByIdentifier in the database: by id, by external id, by  *)
(* mail.  An id that is not found is never found later, and only one of    *)
(* the lookups can match the other kinds: three reads are as good as one.  *)
Bears(r, i) == r = i \/ rows[r].external = i \/ (i \in Mails /\ rows[r].email = Lower[i])
ById(i) == Live \cap {i}
Bearing(i) == IF ById(i) # {} THEN ById(i) ELSE {r \in Live : Bears(r, i)}

(* The unique indexes on (organization, email) and (organization, external). *)
Conflicts(email, external) ==
  \E r \in Live : rows[r].email = email \/ (external # None /\ rows[r].external = external)

At(q, step) == req[q].pc = step
Free(q) == req[q].pc \in {"idle", "done"}
Goto(q, step) == req' = [req EXCEPT ![q].pc = step]
Fail(q) == req' = [req EXCEPT ![q] = NoRequest]
Done(q, r) == req' = [req EXCEPT ![q] = [NoRequest EXCEPT !.pc = "done", !.hand = r, !.due = req[q].due]]

(* cacheResolvedCustomer, in the background, by callers that have a cache. *)
Schedule(q, r) ==
  /\ writes' = IF req[q].caller = "track"
               THEN writes \cup (AliasesOf(r) \X {r}) ELSE writes
  /\ late' = IF req[q].caller = "track" /\ r \notin Live THEN late \cup {r} ELSE late

NoWrite == UNCHANGED <<writes, late>>
Same == UNCHANGED <<starts, deletes, faults>>

-----------------------------------------------------------------------------
(* The customer a request must be answered with: whoever bears its name,   *)
(* in lower case, unless a deletion is still being forgotten.              *)
Normal(r) == rows[r].email = Lower[rows[r].email]
Forgetting(a) == \E q \in Requests : At(q, "forget") /\ req[q].caller = "delete" /\ a \in req[q].todo
Due(i) ==
  LET B == {r \in Bearing(i) : Normal(r)}
  IN  IF B = {} \/ Forgetting(Key(i)) THEN 0 ELSE CHOOSE r \in B : TRUE

\* Wrong: the address is stored as it was sent.
EmailAsSent(i, m) == IF m # None THEN m ELSE IF i \in Mails THEN i ELSE None

(* What a new customer's mail would be. *)
EmailFor(i, m) ==
  IF m # None THEN Lower[m] ELSE IF i \in Mails THEN Lower[i] ELSE None

(* Every comparison of a name that is a mail takes it in lower case. *)
Ask(q, caller, i, m) ==
  /\ Free(q) /\ starts < MaxRequests
  /\ caller = "create" => m # None
  /\ req' = [req EXCEPT ![q] = [NoRequest EXCEPT
         !.pc = IF caller = "track" THEN "cache" ELSE "lookup",
         !.caller = caller, !.ident = Key(i), !.email = EmailFor(i, m), !.due = Due(i)]]
  /\ starts' = starts + 1
  /\ NoWrite /\ UNCHANGED <<rows, made, cache, deletes, faults, failed>>

(* A paid checkout, or a subscription, of somebody the provider knows by   *)
(* mail only.                                                              *)
Event(q, m) ==
  /\ Free(q) /\ starts < MaxRequests
  /\ req' = [req EXCEPT ![q] = [NoRequest EXCEPT
         !.pc = "lookup", !.caller = "event", !.ident = Key(m), !.email = EmailFor(m, m)]]
  /\ starts' = starts + 1
  /\ NoWrite /\ UNCHANGED <<rows, made, cache, deletes, faults, failed>>

(* The dashboard's form stores the mail as it is typed. *)
Form(q, m, x) ==
  /\ Free(q) /\ starts < MaxRequests
  /\ req' = [req EXCEPT ![q] = [NoRequest EXCEPT
         !.pc = "insert", !.caller = "operator", !.ident = x, !.email = m]]
  /\ starts' = starts + 1
  /\ NoWrite /\ UNCHANGED <<rows, made, cache, deletes, faults, failed>>

Delete(q, r) ==
  /\ Free(q) /\ deletes < MaxDeletes /\ r \in 1..made
  /\ req' = [req EXCEPT ![q] = [NoRequest EXCEPT !.pc = "find", !.caller = "delete", !.ident = r]]
  /\ deletes' = deletes + 1
  /\ NoWrite /\ UNCHANGED <<rows, made, cache, starts, faults, failed>>

-----------------------------------------------------------------------------
Cached(a) == cache[Key(a)]

(* A customer found in the cache is not put there again, unless a missing  *)
(* name is filled in behind it; inferCustomerMatchField compares it.       *)
ReadCache(q) ==
  LET r == Cached(req[q].ident)
  IN  /\ At(q, "cache")
      /\ IF r # 0 /\ Bears(r, req[q].ident)
         THEN Done(q, r) /\ (NoWrite \/ Schedule(q, r))
         ELSE Goto(q, "lookup") /\ NoWrite
      /\ Same /\ UNCHANGED <<rows, made, cache, failed>>

\* Wrong: who lost the race to make a customer assigns its plans as well.
FoundAssigns(q, r) ==
  IF req[q].caller \in Assigns /\ req[q].pc \in {"recache", "relookup", "mailcache", "mailrow"}
  THEN req' = [req EXCEPT ![q].pc = "plans", ![q].hand = r] /\ NoWrite
  ELSE Done(q, r) /\ Schedule(q, r)

(* A payment event goes on with the customer it found or made.             *)
Found(q, r) ==
  IF req[q].caller = "event"
  THEN req' = [req EXCEPT ![q].pc = "update", ![q].hand = r] /\ NoWrite
  ELSE Done(q, r) /\ Schedule(q, r)

Lookup(q) ==
  LET B == Bearing(req[q].ident)
  IN  /\ At(q, "lookup")
      /\ \/ \E r \in B : Found(q, r)
         \/ B = {} /\ req[q].email # None /\ Goto(q, "insert") /\ NoWrite
         \/ B = {} /\ req[q].email = None /\ Fail(q) /\ NoWrite
      /\ Same /\ UNCHANGED <<rows, made, cache, failed>>

New(q) == [email |-> req[q].email,
           external |-> IF req[q].ident \in Mails THEN None ELSE req[q].ident,
           live |-> TRUE, plans |-> 0, maker |-> req[q].caller]

(* The plans of a new customer come after its row, and only from callers   *)
(* that ask for them.                                                      *)
Insert(q) ==
  LET row == New(q)  r == made + 1
  IN  /\ At(q, "insert") /\ made < MaxRequests
      /\ ~Conflicts(row.email, row.external)
      /\ rows' = [rows EXCEPT ![r] = row] /\ made' = r
      /\ CASE req[q].caller \in Assigns -> req' = [req EXCEPT ![q].pc = "plans", ![q].hand = r]
           [] req[q].caller = "attach" -> Done(q, r)
           [] req[q].caller = "event" -> req' = [req EXCEPT ![q].pc = "update", ![q].hand = r]
      /\ NoWrite /\ Same /\ UNCHANGED <<cache, failed>>

(* Somebody else made it first.  A request looks again; the form and the   *)
(* event raise, and the event is not delivered again.                      *)
Conflict(q) ==
  LET row == New(q)
  IN  /\ At(q, "insert") /\ Conflicts(row.email, row.external)
      /\ IF req[q].caller \in API
         THEN Goto(q, IF req[q].caller = "track" THEN "recache" ELSE "relookup")
         ELSE Fail(q)
      /\ NoWrite /\ Same /\ UNCHANGED <<rows, made, cache, failed>>

(* resolveExistingCustomerAfterCreateConflict: by the name, then by mail,  *)
(* each from the cache first.                                              *)
ReadCacheAgain(q) ==
  LET byMail == At(q, "mailcache")
      name == IF byMail THEN req[q].email ELSE req[q].ident
      r == Cached(name)
  IN  /\ At(q, "recache") \/ byMail
      /\ IF r # 0 /\ Bears(r, name)
         THEN Found(q, r)
         ELSE Goto(q, IF byMail THEN "mailrow" ELSE "relookup") /\ NoWrite
      /\ Same /\ UNCHANGED <<rows, made, cache, failed>>

LookupAgain(q) ==
  LET byMail == At(q, "mailrow")
      B == IF byMail THEN {r \in Live : rows[r].email = req[q].email} ELSE Bearing(req[q].ident)
  IN  /\ At(q, "relookup") \/ byMail
      /\ \/ \E r \in B : Found(q, r)
         \/ /\ B = {} /\ ~byMail
            /\ Goto(q, IF req[q].caller = "track" THEN "mailcache" ELSE "mailrow") /\ NoWrite
         \/ B = {} /\ byMail /\ Fail(q) /\ NoWrite
      /\ Same /\ UNCHANGED <<rows, made, cache, failed>>

(* autoAssignPlansToNewCustomer; the row may have been deleted meanwhile.  *)
Plans(q) ==
  LET r == req[q].hand
  IN  /\ At(q, "plans") /\ r \in Live
      /\ rows' = [rows EXCEPT ![r].plans = @ + 1]
      /\ Found(q, r)
      /\ Same /\ UNCHANGED <<made, cache, failed>>

PlansFail(q) ==
  LET r == req[q].hand
  IN  /\ At(q, "plans")
      /\ \/ r \notin Live /\ UNCHANGED faults
         \/ r \in Live /\ faults < MaxFaults /\ faults' = faults + 1
      /\ failed' = failed \cup {r}
      /\ Fail(q)
      /\ NoWrite /\ UNCHANGED <<rows, made, cache, starts, deletes>>

-----------------------------------------------------------------------------
(* The event stores the provider's customer in the row, then drops the     *)
(* row's cache entries.                                                    *)
Update(q) ==
  /\ At(q, "update")
  /\ req' = [req EXCEPT ![q].pc = "forget", ![q].todo = Dropped(req[q].hand)]
  /\ NoWrite /\ Same /\ UNCHANGED <<rows, made, cache, failed>>

Find(q) ==
  /\ At(q, "find")
  /\ IF req[q].ident \in Live
     THEN req' = [req EXCEPT ![q].pc = "delete", ![q].hand = req[q].ident]
     ELSE Fail(q)
  /\ NoWrite /\ Same /\ UNCHANGED <<rows, made, cache, failed>>

DeleteRow(q) ==
  LET r == req[q].hand
  IN  /\ At(q, "delete")
      /\ rows' = [rows EXCEPT ![r].live = FALSE]
      /\ req' = [req EXCEPT ![q].pc = "forget", ![q].todo = Dropped(r)]
      /\ late' = IF \E a \in Aliases : <<a, r>> \in writes THEN late \cup {r} ELSE late
      /\ Same /\ UNCHANGED <<made, cache, writes, failed>>

DropEntry(q, a) ==
  /\ At(q, "forget") /\ a \in req[q].todo
  /\ cache' = [cache EXCEPT ![a] = 0]
  /\ IF req[q].todo = {a} THEN Fail(q)
     ELSE req' = [req EXCEPT ![q].todo = @ \ {a}]
  /\ NoWrite /\ Same /\ UNCHANGED <<rows, made, failed>>

-----------------------------------------------------------------------------
Put(w) ==
  /\ w \in writes
  /\ cache' = [cache EXCEPT ![w[1]] = w[2]]
  /\ writes' = writes \ {w}
  /\ Same /\ UNCHANGED <<rows, made, req, late, failed>>

(* An entry lives for sixty seconds. *)
Expire(a) ==
  /\ cache[a] # 0
  /\ cache' = [cache EXCEPT ![a] = 0]
  /\ NoWrite /\ Same /\ UNCHANGED <<rows, made, req, failed>>

Work(q) ==
  \/ ReadCache(q) \/ Lookup(q) \/ Insert(q) \/ Conflict(q) \/ ReadCacheAgain(q)
  \/ LookupAgain(q) \/ Plans(q) \/ PlansFail(q) \/ Update(q) \/ Find(q) \/ DeleteRow(q)
  \/ \E a \in Aliases : DropEntry(q, a)

Start(q) ==
  \/ \E caller \in API, i \in Mails \cup Externals \cup 1..made, m \in Mails \cup {None} :
       Ask(q, caller, i, m)
  \/ \E m \in Mails : Event(q, m)
  \/ \E m \in Mails, x \in Externals \cup {None} : Form(q, m, x)
  \/ \E r \in Ids : Delete(q, r)

Next ==
  \/ \E q \in Requests : Start(q) \/ Work(q)
  \/ \E w \in Aliases \X Ids : Put(w)
  \/ \E a \in Aliases : Expire(a)

Spec == Init /\ [][Next]_vars

-----------------------------------------------------------------------------
(* However first requests, events and the dashboard race, two customers    *)
(* never share the caller's id, nor a mail in whatever case, unless the    *)
(* dashboard stored one of them as it was typed (customers.ts:150,         *)
(* routes/dashboard/customers.ts:79).                                      *)
OneCustomer ==
  \A r, s \in Live : r # s =>
    /\ rows[r].external = rows[s].external => rows[r].external = None
    /\ Lower[rows[r].email] = Lower[rows[s].email] =>
         \E t \in {r, s} : rows[t].maker = "operator" /\ ~Normal(t)

(* A customer gets the automatic plans once, from the request that made    *)
(* it and not from those that lost the race; it lacks them only while that *)
(* request is at work or after it raised (customers.ts:198).               *)
PlansOnce ==
  \A r \in Live :
    /\ rows[r].plans \in 0..1
    /\ rows[r].maker \in Assigns /\ rows[r].plans = 0 /\ r \notin failed
         => \E q \in Requests : At(q, "plans") /\ req[q].hand = r

(* A request that names a customer is answered with that customer as long  *)
(* as it is there: no race and no cached alias of a deleted one makes it   *)
(* another.  Exempt are a deleted customer that a background write brought *)
(* back for as long as an entry lives, and one whose mail the dashboard    *)
(* stored in another case (customer-resolution.ts:320).                    *)
ServesOwner ==
  \A q \in Requests :
    LET r == req[q].hand  d == req[q].due
    IN  At(q, "done") /\ d \in Live => r = d \/ r \in late \/ ~Normal(r)
=============================================================================
