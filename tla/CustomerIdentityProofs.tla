----------------------- MODULE CustomerIdentityProofs -----------------------
(***************************************************************************)
(* Proofs about CustomerIdentity, for any mails, ids and number of         *)
(* requests.  The invariant adds to the properties that every id in a      *)
(* cache entry, a pending write or a request has been given out, that a    *)
(* mail on its way to an insert is in lower case unless the dashboard's    *)
(* form sends it, and that each request that assigns plans works on a      *)
(* customer of its own.                                                    *)
(***************************************************************************)
EXTENDS CustomerIdentity, TLAPS

Looks == {"cache", "lookup", "recache", "relookup", "mailcache", "mailrow"}
Retries == {"recache", "relookup", "mailcache", "mailrow"}

\* What a request may hold at each of its steps.
Sound(R) ==
  /\ R.hand <= made
  /\ R.pc \in Looks => R.caller \in API \cup {"event"} /\ R.ident \in Aliases
  /\ R.pc \in Looks /\ R.email # None => Lower[R.email] = R.email
  /\ R.pc \in Retries \cup {"insert"} => R.email \in Mails
  /\ R.pc = "insert" => R.caller \in Callers \ {"delete"}
  /\ R.pc = "insert" /\ R.caller # "operator" =>
       Lower[R.email] = R.email /\ R.ident \in Aliases
  /\ R.pc \in {"plans", "update", "delete"} => R.hand \in Ids
  /\ R.pc = "plans" => R.caller \in Assigns /\ rows[R.hand].plans = 0
  /\ R.pc = "find" => R.ident \in Ids

RowsInv ==
  \A r \in Ids :
    /\ rows[r].live => r <= made /\ rows[r].plans \in 0..1
    /\ rows[r].live /\ rows[r].maker # "operator" => Normal(r)
    /\ r <= made => rows[r].email \in Mails
Distinct ==
  \A r, s \in Live : r # s =>
    /\ rows[r].email # rows[s].email
    /\ rows[r].external = rows[s].external => rows[r].external = None
Entries == \A a \in Aliases : cache[a] <= made
Pending == \A w \in writes : w[2] <= made
Sounds == \A q \in Requests : Sound(req[q])
OwnPlans == \A p, q \in Requests : At(p, "plans") /\ At(q, "plans") /\ p # q => req[p].hand # req[q].hand
Given ==
  \A r \in Live : rows[r].maker \in Assigns /\ rows[r].plans = 0 /\ r \notin failed
    => \E q \in Requests : At(q, "plans") /\ req[q].hand = r

IInv == TypeOK /\ RowsInv /\ Distinct /\ Entries /\ Pending /\ Sounds /\ OwnPlans /\ Given

-----------------------------------------------------------------------------
LEMMA Aliased ==
  ASSUME TypeOK, RowsInv, NEW r \in Ids, r <= made
  PROVE  AliasesOf(r) \subseteq Aliases
<1>1. rows[r].email \in Mails /\ rows[r].external \in Own \cup {None}
  BY DEF TypeOK, Row, RowsInv
<1> QED  BY <1>1, IdentityAssumption DEF AliasesOf, Aliases, Own

LEMMA LiveMade ==
  ASSUME TypeOK, RowsInv, NEW r \in Live
  PROVE  r \in Ids /\ r <= made
BY DEF Live, RowsInv

LEMMA Lowered ==
  ASSUME NEW i \in Aliases, NEW m \in Mails \cup {None}
  PROVE  /\ Key(i) \in Aliases
         /\ EmailFor(i, m) \in Mails \cup {None}
         /\ EmailFor(i, m) # None => Lower[EmailFor(i, m)] = EmailFor(i, m)
BY IdentityAssumption DEF Key, EmailFor, Aliases

(* A step of one request that leaves the rows alone and is not about the   *)
(* assignment of plans.                                                    *)
LEMMA Move ==
  ASSUME IInv, NEW q \in Requests, NEW R \in Request, Sound(R),
         ~At(q, "plans"), R.pc # "plans",
         req' = [req EXCEPT ![q] = R], UNCHANGED <<rows, made, failed>>,
         cache' \in [Aliases -> Ids \cup {0}], Entries', writes' \subseteq Aliases \X Ids, Pending',
         late' \subseteq Ids,
         starts' \in 0..MaxRequests, deletes' \in 0..MaxDeletes, faults' \in 0..MaxFaults
  PROVE  IInv'
<1>1. TypeOK'  BY DEF IInv, TypeOK
<1>2. RowsInv' /\ Distinct'  BY DEF IInv, RowsInv, Distinct, Live, Normal
<1>3. \A p \in Requests : req'[p] = IF p = q THEN R ELSE req[p]  BY DEF IInv, TypeOK
<1>4. Sounds'
  <2> SUFFICES ASSUME NEW p \in Requests PROVE Sound(req[p])'  BY DEF Sounds
  <2>1. CASE p = q  BY <2>1, <1>3 DEF Sound
  <2>2. CASE p # q
    <3>1. Sound(req[p])  BY DEF IInv, Sounds
    <3> QED  BY <2>2, <3>1, <1>3 DEF Sound
  <2> QED  BY <2>1, <2>2
<1>5. \A p \in Requests : (At(p, "plans"))' <=> At(p, "plans")  BY <1>3 DEF At
<1>6. \A p \in Requests : At(p, "plans") => req'[p] = req[p]  BY <1>3 DEF At
<1>7. OwnPlans'  BY <1>5, <1>6 DEF IInv, OwnPlans, At
<1>8. Given'  BY <1>5, <1>6 DEF IInv, Given, Live, At
<1> QED  BY <1>1, <1>2, <1>4, <1>7, <1>8 DEF IInv

LEMMA SoundReset ==
  ASSUME IInv
  PROVE  NoRequest \in Request /\ Sound(NoRequest)
<1>1. 0 <= made  BY DEF IInv, TypeOK, Ids
<1> QED  BY <1>1 DEF NoRequest, Request, Steps, Sound, Looks, Retries

LEMMA SoundDone ==
  ASSUME IInv, NEW q \in Requests, NEW r \in Ids \cup {0}, r <= made
  PROVE  LET R == [NoRequest EXCEPT !.pc = "done", !.hand = r, !.due = req[q].due]
         IN  R \in Request /\ Sound(R)
<1>1. req[q].due \in Ids \cup {0}  BY DEF IInv, TypeOK, Request
<1> QED  BY <1>1 DEF NoRequest, Request, Steps, Sound, Looks, Retries

LEMMA SoundGoto ==
  ASSUME IInv, NEW q \in Requests, req[q].pc \in Looks \cup {"insert"}, NEW s \in Looks \cup {"insert"},
         s \in Retries \cup {"insert"} => req[q].email \in Mails,
         req[q].pc = "insert" => req[q].caller \in API, req[q].ident \in Aliases
  PROVE  LET R == [req[q] EXCEPT !.pc = s] IN R \in Request /\ Sound(R)
<1>1. req[q] \in Request /\ Sound(req[q])  BY DEF IInv, TypeOK, Sounds
<1>2. req[q].caller \in API \cup {"event"}  BY <1>1 DEF Sound
<1>3. req[q].email # None => Lower[req[q].email] = req[q].email
  BY <1>1, IdentityAssumption DEF Sound, API
<1>4. [req[q] EXCEPT !.pc = s] \in Request  BY <1>1 DEF Request, Steps, Looks
<1>5. Sound([req[q] EXCEPT !.pc = s])
  BY <1>1, <1>2, <1>3, IdentityAssumption DEF Sound, Looks, Retries, API, Callers, Request
<1> QED  BY <1>4, <1>5

(* Found and Schedule keep to what has been given out.                     *)
LEMMA Scheduled ==
  ASSUME IInv, NEW q \in Requests, NEW r \in Ids, r <= made, NoWrite \/ Schedule(q, r),
         UNCHANGED made
  PROVE  writes' \subseteq Aliases \X Ids /\ Pending' /\ late' \subseteq Ids
<1>1. AliasesOf(r) \subseteq Aliases  BY Aliased DEF IInv
<1>2. writes \subseteq Aliases \X Ids /\ Pending /\ late \subseteq Ids  BY DEF IInv, TypeOK
<1>3. CASE NoWrite  BY <1>2, <1>3 DEF NoWrite, Pending
<1>4. CASE Schedule(q, r)
  <2>1. writes' \subseteq writes \cup (AliasesOf(r) \X {r})  BY <1>4 DEF Schedule
  <2>2. \A w \in AliasesOf(r) \X {r} : w[2] <= made  OBVIOUS
  <2> QED  BY <1>1, <1>2, <1>4, <2>1, <2>2 DEF Schedule, Pending
<1> QED  BY <1>3, <1>4

LEMMA FoundKeeps ==
  ASSUME IInv, NEW q \in Requests, NEW r \in Ids, r <= made, ~At(q, "plans"), Found(q, r),
         UNCHANGED <<rows, made, cache, failed, starts, deletes, faults>>
  PROVE  IInv'
<1>1. cache' \in [Aliases -> Ids \cup {0}] /\ Entries'  BY DEF IInv, TypeOK, Entries
<1>2. starts' \in 0..MaxRequests /\ deletes' \in 0..MaxDeletes /\ faults' \in 0..MaxFaults
  BY DEF IInv, TypeOK
<1>3. CASE req[q].caller = "event"
  <2> DEFINE R == [req[q] EXCEPT !.pc = "update", !.hand = r]
  <2>1. req[q] \in Request  BY DEF IInv, TypeOK
  <2>2. R \in Request /\ Sound(R) /\ R.pc # "plans"
    BY <2>1 DEF Request, Steps, Sound, Looks, Retries
  <2>3. req' = [req EXCEPT ![q] = R]  BY <1>3 DEF Found
  <2>4. NoWrite  BY <1>3 DEF Found
  <2>5. writes' \subseteq Aliases \X Ids /\ Pending' /\ late' \subseteq Ids  BY <2>4, Scheduled
  <2> QED  BY <1>1, <1>2, <2>2, <2>3, <2>5, Move
<1>4. CASE req[q].caller # "event"
  <2> DEFINE R == [NoRequest EXCEPT !.pc = "done", !.hand = r, !.due = req[q].due]
  <2>1. R \in Request /\ Sound(R)  BY SoundDone
  <2>2. R.pc # "plans"  BY DEF NoRequest
  <2>3. req' = [req EXCEPT ![q] = R] /\ Schedule(q, r)  BY <1>4 DEF Found, Done
  <2>5. writes' \subseteq Aliases \X Ids /\ Pending' /\ late' \subseteq Ids  BY <2>3, Scheduled
  <2> QED  BY <1>1, <1>2, <2>1, <2>2, <2>3, <2>5, Move
<1> QED  BY <1>3, <1>4

-----------------------------------------------------------------------------
LEMMA InitInv == Init => IInv
<1> SUFFICES ASSUME Init PROVE IInv  OBVIOUS
<1>1. TypeOK
  BY IdentityAssumption DEF Init, TypeOK, Ids, NoRow, Row, NoRequest, Request, Steps
<1>2. Live = {}  BY DEF Live, Init, NoRow
<1>3. RowsInv  BY DEF RowsInv, Init, NoRow, Ids
<1>4. Entries /\ Pending  BY DEF Entries, Pending, Init
<1>5. Sounds  BY DEF Sounds, Sound, Init, NoRequest, Looks, Retries
<1>6. Distinct /\ Given  BY <1>2 DEF Distinct, Given
<1>7. OwnPlans  BY DEF OwnPlans, Init, At, NoRequest
<1> QED  BY <1>1, <1>3, <1>4, <1>5, <1>6, <1>7 DEF IInv

(* What a step that writes neither the cache nor a pending entry keeps.    *)
LEMMA Quiet ==
  ASSUME IInv, NEW q \in Requests, NoWrite, UNCHANGED <<rows, made, cache>>
  PROVE  /\ cache' \in [Aliases -> Ids \cup {0}] /\ Entries'
         /\ writes' \subseteq Aliases \X Ids /\ Pending' /\ late' \subseteq Ids
BY DEF IInv, TypeOK, NoWrite, Entries, Pending

LEMMA StartKeeps ==
  ASSUME IInv, NEW q \in Requests, Start(q)
  PROVE  IInv'
<1>1. ~At(q, "plans")
  BY DEF Start, Ask, Event, Form, Delete, Free, At
<1>2. made \in Ids \cup {0} /\ starts \in 0..MaxRequests /\ deletes \in 0..MaxDeletes
      /\ faults \in 0..MaxFaults /\ MaxRequests \in Nat /\ MaxDeletes \in Nat
  BY IdentityAssumption DEF IInv, TypeOK
<1>3. 0 <= made /\ 1..made \subseteq Ids  BY <1>2 DEF Ids
<1>4. ASSUME NEW caller \in API, NEW i \in Mails \cup Externals \cup 1..made,
             NEW m \in Mails \cup {None}, Ask(q, caller, i, m)
      PROVE  IInv'
  <2> DEFINE R == [NoRequest EXCEPT !.pc = IF caller = "track" THEN "cache" ELSE "lookup",
                     !.caller = caller, !.ident = Key(i), !.email = EmailFor(i, m), !.due = Due(i)]
  <2>1. i \in Aliases  BY <1>3 DEF Aliases, Own
  <2>2. Due(i) \in Ids \cup {0}
    <3>1. Bearing(i) \subseteq Ids  BY DEF Bearing, ById, Live
    <3> QED  BY <3>1 DEF Due
  <2>3. R \in Request
    BY <2>1, <2>2, Lowered DEF Request, NoRequest, Steps, Callers, API
  <2>4. Sound(R) /\ R.pc # "plans"
    BY <2>1, <1>3, Lowered DEF Sound, NoRequest, Looks, Retries
  <2>5. req' = [req EXCEPT ![q] = R] /\ starts' \in 0..MaxRequests
    BY <1>4, <1>2 DEF Ask
  <2>6. UNCHANGED <<rows, made, cache, failed, deletes, faults>> /\ NoWrite  BY <1>4 DEF Ask
  <2> QED  BY <1>1, <1>2, <2>3, <2>4, <2>5, <2>6, Quiet, Move
<1>5. ASSUME NEW m \in Mails, Event(q, m)
      PROVE  IInv'
  <2> DEFINE R == [NoRequest EXCEPT !.pc = "lookup", !.caller = "event", !.ident = Key(m),
                     !.email = EmailFor(m, m)]
  <2>1. m \in Aliases  BY DEF Aliases
  <2>2. R \in Request  BY <2>1, Lowered DEF Request, NoRequest, Steps, Callers
  <2>3. Sound(R) /\ R.pc # "plans"
    BY <2>1, <1>3, Lowered DEF Sound, NoRequest, Looks, Retries
  <2>4. req' = [req EXCEPT ![q] = R] /\ starts' \in 0..MaxRequests
    BY <1>5, <1>2 DEF Event
  <2>5. UNCHANGED <<rows, made, cache, failed, deletes, faults>> /\ NoWrite  BY <1>5 DEF Event
  <2> QED  BY <1>1, <1>2, <2>2, <2>3, <2>4, <2>5, Quiet, Move
<1>6. ASSUME NEW m \in Mails, NEW x \in Externals \cup {None}, Form(q, m, x)
      PROVE  IInv'
  <2> DEFINE R == [NoRequest EXCEPT !.pc = "insert", !.caller = "operator", !.ident = x, !.email = m]
  <2>1. R \in Request  BY DEF Request, NoRequest, Steps, Callers, Aliases, Own
  <2>2. Sound(R) /\ R.pc # "plans"
    BY <1>3 DEF Sound, NoRequest, Looks, Retries, Callers
  <2>3. req' = [req EXCEPT ![q] = R] /\ starts' \in 0..MaxRequests
    BY <1>6, <1>2 DEF Form
  <2>4. UNCHANGED <<rows, made, cache, failed, deletes, faults>> /\ NoWrite  BY <1>6 DEF Form
  <2> QED  BY <1>1, <1>2, <2>1, <2>2, <2>3, <2>4, Quiet, Move
<1>7. ASSUME NEW r \in Ids, Delete(q, r)
      PROVE  IInv'
  <2> DEFINE R == [NoRequest EXCEPT !.pc = "find", !.caller = "delete", !.ident = r]
  <2>1. R \in Request  BY DEF Request, NoRequest, Steps, Callers, Aliases, Own
  <2>2. Sound(R) /\ R.pc # "plans"
    BY <1>3 DEF Sound, NoRequest, Looks, Retries, Callers
  <2>3. req' = [req EXCEPT ![q] = R] /\ deletes' \in 0..MaxDeletes
    BY <1>7, <1>2 DEF Delete
  <2>4. UNCHANGED <<rows, made, cache, failed, starts, faults>> /\ NoWrite  BY <1>7 DEF Delete
  <2> QED  BY <1>1, <1>2, <2>1, <2>2, <2>3, <2>4, Quiet, Move
<1> QED  BY <1>4, <1>5, <1>6, <1>7 DEF Start

LEMMA LookKeeps ==
  ASSUME IInv, NEW q \in Requests,
         ReadCache(q) \/ Lookup(q) \/ ReadCacheAgain(q) \/ LookupAgain(q)
  PROVE  IInv'
<1>1. req[q].pc \in Looks /\ ~At(q, "plans")
  BY DEF ReadCache, Lookup, ReadCacheAgain, LookupAgain, At, Looks
<1>2. req[q] \in Request /\ Sound(req[q])  BY DEF IInv, TypeOK, Sounds
<1>3. /\ req[q].caller \in API \cup {"event"} /\ req[q].ident \in Aliases
      /\ req[q].pc \in Retries => req[q].email \in Mails
  BY <1>1, <1>2 DEF Sound
<1>4. UNCHANGED <<rows, made, cache, failed, starts, deletes, faults>>
  BY DEF ReadCache, Lookup, ReadCacheAgain, LookupAgain, Same
<1>5. /\ starts' \in 0..MaxRequests /\ deletes' \in 0..MaxDeletes /\ faults' \in 0..MaxFaults
      /\ cache' \in [Aliases -> Ids \cup {0}] /\ Entries'
  BY <1>4 DEF IInv, TypeOK, Entries
<1>6. \A r \in Live : r \in Ids /\ r <= made  BY LiveMade DEF IInv
<1>7. \A a \in Aliases : Cached(a) \in Ids \cup {0} /\ Cached(a) <= made
  BY IdentityAssumption DEF IInv, TypeOK, Entries, Cached, Key, Aliases
<1>8. \A r \in Ids : r <= made /\ Found(q, r) => IInv'  BY <1>1, <1>4, FoundKeeps
<1>9. ASSUME NEW s \in Looks \cup {"insert"}, Goto(q, s), NoWrite,
             s \in Retries \cup {"insert"} => req[q].email \in Mails
      PROVE  IInv'
  <2> DEFINE R == [req[q] EXCEPT !.pc = s]
  <2>1. R \in Request /\ Sound(R)  BY <1>1, <1>3, <1>9, SoundGoto DEF Looks
  <2>2. R.pc # "plans"  BY <1>2 DEF Request, Looks
  <2>3. req' = [req EXCEPT ![q] = R]  BY <1>9 DEF Goto
  <2> QED  BY <1>1, <1>4, <1>5, <1>9, <2>1, <2>2, <2>3, Quiet, Move
<1>10. ASSUME Fail(q), NoWrite
       PROVE  IInv'
  <2>1. req' = [req EXCEPT ![q] = NoRequest] /\ NoRequest.pc # "plans"
    BY <1>10 DEF Fail, NoRequest
  <2> QED  BY <1>1, <1>4, <1>5, <1>10, <2>1, SoundReset, Quiet, Move
<1>11. CASE ReadCache(q)
  <2> DEFINE r == Cached(req[q].ident)
  <2>1. CASE r # 0 /\ Bears(r, req[q].ident)
    <3> DEFINE R == [NoRequest EXCEPT !.pc = "done", !.hand = r, !.due = req[q].due]
    <3>1. r \in Ids /\ r <= made  BY <2>1, <1>3, <1>7
    <3>2. R \in Request /\ Sound(R)  BY <3>1, SoundDone
    <3>3. R.pc # "plans"  BY DEF NoRequest
    <3>4. req' = [req EXCEPT ![q] = R] /\ (NoWrite \/ Schedule(q, r))
      BY <1>11, <2>1 DEF ReadCache, Done
    <3>5. writes' \subseteq Aliases \X Ids /\ Pending' /\ late' \subseteq Ids
      BY <3>1, <3>4, <1>4, Scheduled
    <3> QED  BY <1>1, <1>4, <1>5, <3>2, <3>3, <3>4, <3>5, Move
  <2>2. CASE ~(r # 0 /\ Bears(r, req[q].ident))
    <3>1. Goto(q, "lookup") /\ NoWrite  BY <1>11, <2>2 DEF ReadCache
    <3> QED  BY <3>1, <1>9 DEF Looks, Retries
  <2> QED  BY <2>1, <2>2
<1>12. CASE Lookup(q)
  <2>1. Bearing(req[q].ident) \subseteq Live  BY DEF Bearing, ById
  <2>2. req[q].email # None => req[q].email \in Mails  BY <1>2 DEF Request
  <2>3. \/ \E r \in Live : Found(q, r)
        \/ req[q].email # None /\ Goto(q, "insert") /\ NoWrite
        \/ Fail(q) /\ NoWrite
    BY <1>12, <2>1 DEF Lookup
  <2> QED  BY <2>2, <2>3, <1>6, <1>8, <1>9, <1>10
<1>13. CASE ReadCacheAgain(q)
  <2> DEFINE byMail == At(q, "mailcache")
             name == IF byMail THEN req[q].email ELSE req[q].ident
             r == Cached(name)
  <2>1. req[q].pc \in Retries  BY <1>13 DEF ReadCacheAgain, At, Retries
  <2>2. name \in Aliases  BY <2>1, <1>3 DEF Aliases
  <2>3. CASE r # 0 /\ Bears(r, name)
    <3>1. Found(q, r) /\ r \in Ids /\ r <= made  BY <1>13, <2>2, <2>3, <1>7 DEF ReadCacheAgain
    <3> QED  BY <3>1, <1>8
  <2>4. CASE ~(r # 0 /\ Bears(r, name))
    <3>1. NoWrite /\ (Goto(q, "mailrow") \/ Goto(q, "relookup"))
      BY <1>13, <2>4 DEF ReadCacheAgain
    <3> QED  BY <3>1, <2>1, <1>3, <1>9 DEF Looks
  <2> QED  BY <2>3, <2>4
<1>14. CASE LookupAgain(q)
  <2>1. req[q].pc \in Retries  BY <1>14 DEF LookupAgain, At, Retries
  <2>2. Bearing(req[q].ident) \subseteq Live  BY DEF Bearing, ById
  <2>3. \/ \E r \in Live : Found(q, r)
        \/ NoWrite /\ (Goto(q, "mailcache") \/ Goto(q, "mailrow"))
        \/ Fail(q) /\ NoWrite
    BY <1>14, <2>2 DEF LookupAgain
  <2> QED  BY <2>1, <2>3, <1>3, <1>6, <1>8, <1>9, <1>10 DEF Looks
<1> QED  BY <1>11, <1>12, <1>13, <1>14

(* What other requests hold stays sound when the rows they hold keep their *)
(* plans, or are not theirs.                                               *)
LEMMA StillSound ==
  ASSUME IInv, NEW p \in Requests, req'[p] = req[p], made <= made', made' \in Ids \cup {0},
         At(p, "plans") => rows'[req[p].hand].plans = rows[req[p].hand].plans
  PROVE  Sound(req[p])'
<1>1. Sound(req[p]) /\ req[p] \in Request /\ made \in Ids \cup {0}  BY DEF IInv, Sounds, TypeOK
<1> QED  BY <1>1 DEF Sound, At, Request, Ids

LEMMA InsertKeeps ==
  ASSUME IInv, NEW q \in Requests, Insert(q)
  PROVE  IInv'
<1> DEFINE row == New(q)  r == made + 1
<1>1. At(q, "insert") /\ made < MaxRequests /\ ~Conflicts(row.email, row.external)
      /\ rows' = [rows EXCEPT ![r] = row] /\ made' = r
      /\ UNCHANGED <<cache, failed, writes, late, starts, deletes, faults>>
  BY DEF Insert, NoWrite, Same
<1>2. TypeOK /\ RowsInv /\ Distinct /\ Entries /\ Pending /\ Sounds /\ OwnPlans /\ Given
  BY DEF IInv
<1>3. made \in Ids \cup {0} /\ MaxRequests \in Nat  BY <1>2, IdentityAssumption DEF TypeOK
<1>4. r \in Ids /\ r \notin Live /\ made <= made' /\ r > made
  BY <1>1, <1>2, <1>3 DEF Ids, Live, RowsInv
<1>5. req[q] \in Request /\ Sound(req[q])  BY <1>2 DEF TypeOK, Sounds
<1>6. /\ req[q].email \in Mails /\ req[q].caller \in Callers \ {"delete"}
      /\ req[q].caller # "operator" => Lower[req[q].email] = req[q].email
  BY <1>1, <1>5 DEF Sound, At
<1>7. row \in Row /\ row.live /\ row.plans = 0 /\ row.maker = req[q].caller /\ row.email = req[q].email
  BY <1>5, <1>6, IdentityAssumption DEF New, Row, Request, Aliases
<1>8. \A s \in Ids : rows'[s] = IF s = r THEN row ELSE rows[s]
  BY <1>1, <1>2, <1>4 DEF TypeOK
<1>9. Live' = Live \cup {r}  BY <1>4, <1>7, <1>8 DEF Live
<1>10. PICK R \in Request :
         /\ req' = [req EXCEPT ![q] = R]
         /\ R.hand = r \/ R.hand = 0
         /\ \/ R.pc = "plans" /\ R.hand = r /\ R.caller = req[q].caller
            \/ R.pc = "done"
            \/ R.pc = "update" /\ R.hand = r
         /\ R.pc = "plans" <=> req[q].caller \in Assigns
  <2>1. CASE req[q].caller \in Assigns
    <3> DEFINE R == [req[q] EXCEPT !.pc = "plans", !.hand = r]
    <3>1. R \in Request  BY <1>4, <1>5 DEF Request, Steps
    <3>2. req' = [req EXCEPT ![q] = R]  BY <2>1 DEF Insert, Assigns
    <3> QED  BY <2>1, <3>1, <3>2, <1>5 DEF Request
  <2>2. CASE req[q].caller = "attach"
    <3> DEFINE R == [NoRequest EXCEPT !.pc = "done", !.hand = r, !.due = req[q].due]
    <3>1. R \in Request  BY <1>4, <1>5 DEF Request, Steps, NoRequest
    <3>2. req' = [req EXCEPT ![q] = R]  BY <2>2 DEF Insert, Done, Assigns
    <3> QED  BY <2>2, <3>1, <3>2 DEF NoRequest, Assigns
  <2>3. CASE req[q].caller = "event"
    <3> DEFINE R == [req[q] EXCEPT !.pc = "update", !.hand = r]
    <3>1. R \in Request  BY <1>4, <1>5 DEF Request, Steps
    <3>2. req' = [req EXCEPT ![q] = R]  BY <2>3 DEF Insert, Assigns
    <3> QED  BY <2>3, <3>1, <3>2, <1>5 DEF Request, Assigns
  <2> QED  BY <2>1, <2>2, <2>3, <1>6 DEF Callers, API, Assigns
<1>11. \A p \in Requests : req'[p] = IF p = q THEN R ELSE req[p]
  BY <1>2, <1>10 DEF TypeOK
<1>12. TypeOK'
  BY <1>1, <1>2, <1>4, <1>7, <1>10 DEF TypeOK
<1>13. RowsInv'
  <2> SUFFICES ASSUME NEW s \in Ids
               PROVE  (/\ rows[s].live => s <= made /\ rows[s].plans \in 0..1
                       /\ rows[s].live /\ rows[s].maker # "operator" => Normal(s)
                       /\ s <= made => rows[s].email \in Mails)'
    BY DEF RowsInv
  <2>1. CASE s = r  BY <2>1, <1>1, <1>3, <1>6, <1>7, <1>8 DEF Normal, Ids
  <2>2. CASE s # r  BY <2>2, <1>1, <1>2, <1>3, <1>8 DEF RowsInv, Normal, Ids
  <2> QED  BY <2>1, <2>2
<1>14. Distinct'
  <2>1. \A s \in Live : s # r /\ s \in Ids /\ rows'[s] = rows[s]  BY <1>4, <1>8 DEF Live
  <2>2. \A s \in Live : rows[s].email # row.email
                        /\ (row.external # None => rows[s].external # row.external)
    BY <1>1 DEF Conflicts
  <2> QED  BY <1>2, <1>4, <1>8, <1>9, <2>1, <2>2 DEF Distinct
<1>15. Entries' /\ Pending'
  BY <1>1, <1>2, <1>3 DEF Entries, Pending, TypeOK, Ids
<1>16. Sounds'
  <2> SUFFICES ASSUME NEW p \in Requests PROVE Sound(req[p])'  BY DEF Sounds
  <2>1. CASE p = q
    BY <2>1, <1>1, <1>3, <1>4, <1>7, <1>8, <1>10, <1>11 DEF Sound, Looks, Retries, Ids
  <2>2. CASE p # q
    <3>1. At(p, "plans") => req[p].hand \in Ids /\ req[p].hand <= made
      BY <1>2 DEF Sounds, Sound, At
    <3>2. At(p, "plans") => rows'[req[p].hand] = rows[req[p].hand]
      BY <3>1, <1>3, <1>4, <1>8 DEF Ids
    <3>3. req'[p] = req[p] /\ made' \in Ids \cup {0}  BY <2>2, <1>1, <1>4, <1>11
    <3> QED  BY <3>2, <3>3, <1>4, StillSound
  <2> QED  BY <2>1, <2>2
<1>17. \A p \in Requests : At(p, "plans") => req[p].hand <= made /\ p # q
  BY <1>1, <1>2 DEF Sounds, Sound, At
<1>18. OwnPlans'
  BY <1>2, <1>3, <1>4, <1>10, <1>11, <1>17 DEF OwnPlans, At, Ids
<1>19. Given'
  <2> SUFFICES ASSUME NEW s \in Live', rows'[s].maker \in Assigns, rows'[s].plans = 0, s \notin failed
               PROVE  \E p \in Requests : req'[p].pc = "plans" /\ req'[p].hand = s
    BY <1>1 DEF Given, At
  <2>1. CASE s = r  BY <2>1, <1>4, <1>7, <1>8, <1>10, <1>11
  <2>2. CASE s # r
    <3>1. s \in Live /\ rows'[s] = rows[s]  BY <2>2, <1>8, <1>9 DEF Live
    <3>2. PICK p \in Requests : At(p, "plans") /\ req[p].hand = s  BY <3>1, <1>2 DEF Given
    <3> QED  BY <3>2, <1>11, <1>17 DEF At
  <2> QED  BY <2>1, <2>2
<1> QED  BY <1>12, <1>13, <1>14, <1>15, <1>16, <1>18, <1>19 DEF IInv

LEMMA ConflictKeeps ==
  ASSUME IInv, NEW q \in Requests, Conflict(q)
  PROVE  IInv'
<1>1. /\ At(q, "insert") /\ NoWrite
      /\ UNCHANGED <<rows, made, cache, failed, starts, deletes, faults>>
      /\ \/ req[q].caller \in API /\ (Goto(q, "recache") \/ Goto(q, "relookup"))
         \/ Fail(q)
  BY DEF Conflict, Same
<1>2. ~At(q, "plans") /\ req[q].pc = "insert"  BY <1>1 DEF At
<1>3. req[q] \in Request /\ Sound(req[q])  BY DEF IInv, TypeOK, Sounds
<1>4. starts' \in 0..MaxRequests /\ deletes' \in 0..MaxDeletes /\ faults' \in 0..MaxFaults
  BY <1>1 DEF IInv, TypeOK
<1>5. ASSUME NEW s \in {"recache", "relookup"}, Goto(q, s), req[q].caller \in API
      PROVE  IInv'
  <2> DEFINE R == [req[q] EXCEPT !.pc = s]
  <2>1. req[q].ident \in Aliases  BY <1>2, <1>3, <1>5 DEF Sound, API
  <2>2. R \in Request /\ Sound(R)  BY <2>1, <1>2, <1>3, <1>5, SoundGoto DEF Looks, Sound, Retries
  <2>3. req' = [req EXCEPT ![q] = R] /\ R.pc # "plans"  BY <1>3, <1>5 DEF Goto, Request
  <2> QED  BY <1>1, <1>2, <1>4, <2>2, <2>3, Quiet, Move
<1>6. CASE Fail(q)
  <2>1. req' = [req EXCEPT ![q] = NoRequest] /\ NoRequest.pc # "plans"
    BY <1>6 DEF Fail, NoRequest
  <2> QED  BY <1>1, <1>2, <1>4, <2>1, SoundReset, Quiet, Move
<1> QED  BY <1>1, <1>5, <1>6

LEMMA PlansKeeps ==
  ASSUME IInv, NEW q \in Requests, Plans(q)
  PROVE  IInv'
<1> DEFINE r == req[q].hand
<1>1. /\ At(q, "plans") /\ r \in Live /\ Found(q, r)
      /\ rows' = [rows EXCEPT ![r].plans = @ + 1]
      /\ UNCHANGED <<made, cache, failed, starts, deletes, faults>>
  BY DEF Plans, Same
<1>2. TypeOK /\ RowsInv /\ Distinct /\ Entries /\ Pending /\ Sounds /\ OwnPlans /\ Given
  BY DEF IInv
<1>3. r \in Ids /\ r <= made /\ req[q].caller \in Assigns /\ rows[r].plans = 0 /\ rows[r] \in Row
  BY <1>1, <1>2, LiveMade DEF Sounds, Sound, At, TypeOK
<1>4. \A s \in Ids : rows'[s] = IF s = r THEN [rows[r] EXCEPT !.plans = 1] ELSE rows[s]
  BY <1>1, <1>2, <1>3 DEF TypeOK
<1>5. Live' = Live /\ rows'[r] \in Row /\ rows' \in [Ids -> Row]
  BY <1>1, <1>2, <1>3, <1>4 DEF Live, Row, TypeOK
<1> DEFINE R == [NoRequest EXCEPT !.pc = "done", !.hand = r, !.due = req[q].due]
<1>6. req' = [req EXCEPT ![q] = R] /\ Schedule(q, r)
  BY <1>1, <1>3 DEF Found, Done, Assigns
<1>7. R \in Request /\ Sound(R)  BY <1>3, SoundDone
<1>8. writes' \subseteq Aliases \X Ids /\ Pending' /\ late' \subseteq Ids
  BY <1>1, <1>3, <1>6, Scheduled
<1>9. \A p \in Requests : req'[p] = IF p = q THEN R ELSE req[p]
  BY <1>2, <1>6 DEF TypeOK
<1>10. TypeOK'  BY <1>1, <1>2, <1>5, <1>6, <1>7, <1>8 DEF TypeOK
<1>11. RowsInv' /\ Distinct'
  <2>1. \A s \in Ids : /\ rows'[s].email = rows[s].email /\ rows'[s].external = rows[s].external
                       /\ rows'[s].live = rows[s].live /\ rows'[s].maker = rows[s].maker
    BY <1>3, <1>4 DEF Row
  <2>2. RowsInv'  BY <2>1, <1>1, <1>2, <1>3, <1>4, <1>5 DEF RowsInv, Normal, Row
  <2>3. Live \subseteq Ids  BY DEF Live
  <2> QED  BY <2>1, <2>2, <2>3, <1>2, <1>5 DEF Distinct
<1>12. Entries'  BY <1>1, <1>2 DEF Entries
<1>13. \A p \in Requests : At(p, "plans") /\ p # q => req[p].hand \in Ids /\ req[p].hand # r
  BY <1>1, <1>2 DEF OwnPlans, Sounds, Sound, At
<1>14. Sounds'
  <2> SUFFICES ASSUME NEW p \in Requests PROVE Sound(req[p])'  BY DEF Sounds
  <2>1. CASE p = q
    BY <2>1, <1>1, <1>3, <1>9 DEF Sound, Looks, Retries, NoRequest
  <2>2. CASE p # q
    <3>1. At(p, "plans") => rows'[req[p].hand].plans = rows[req[p].hand].plans
      BY <2>2, <1>4, <1>13
    <3>2. req'[p] = req[p] /\ made <= made' /\ made' \in Ids \cup {0}
      BY <2>2, <1>1, <1>2, <1>9 DEF TypeOK, Ids
    <3> QED  BY <3>1, <3>2, StillSound
  <2> QED  BY <2>1, <2>2
<1>15. OwnPlans'  BY <1>2, <1>9 DEF OwnPlans, At, NoRequest
<1>16. Given'
  <2> SUFFICES ASSUME NEW s \in Live, rows'[s].maker \in Assigns, rows'[s].plans = 0, s \notin failed
               PROVE  \E p \in Requests : req'[p].pc = "plans" /\ req'[p].hand = s
    BY <1>1, <1>5 DEF Given, At
  <2>1. s \in Ids /\ s # r /\ rows'[s] = rows[s]  BY <1>3, <1>4 DEF Live, Row
  <2>2. PICK p \in Requests : At(p, "plans") /\ req[p].hand = s  BY <2>1, <1>2 DEF Given
  <2> QED  BY <2>1, <2>2, <1>9 DEF At
<1> QED  BY <1>8, <1>10, <1>11, <1>12, <1>14, <1>15, <1>16 DEF IInv

LEMMA PlansFailKeeps ==
  ASSUME IInv, NEW q \in Requests, PlansFail(q)
  PROVE  IInv'
<1> DEFINE r == req[q].hand
<1>1. /\ At(q, "plans") /\ failed' = failed \cup {r} /\ Fail(q)
      /\ UNCHANGED <<rows, made, cache, starts, deletes, writes, late>>
      /\ faults' = faults \/ (faults < MaxFaults /\ faults' = faults + 1)
  BY DEF PlansFail, NoWrite
<1>2. TypeOK /\ RowsInv /\ Distinct /\ Entries /\ Pending /\ Sounds /\ OwnPlans /\ Given
  BY DEF IInv
<1>3. r \in Ids  BY <1>1, <1>2 DEF Sounds, Sound, At
<1>4. \A p \in Requests : req'[p] = IF p = q THEN NoRequest ELSE req[p]
  BY <1>1, <1>2 DEF TypeOK, Fail
<1>5. faults' \in 0..MaxFaults  BY <1>1, <1>2, IdentityAssumption DEF TypeOK
<1>6. TypeOK'
  <2>1. NoRequest \in Request  BY SoundReset
  <2> QED  BY <2>1, <1>1, <1>2, <1>3, <1>5 DEF TypeOK, Fail
<1>7. RowsInv' /\ Distinct' /\ Entries' /\ Pending'
  BY <1>1, <1>2 DEF RowsInv, Distinct, Entries, Pending, Live, Normal
<1>8. Sounds'
  <2> SUFFICES ASSUME NEW p \in Requests PROVE Sound(req[p])'  BY DEF Sounds
  <2>1. CASE p = q
    <3>1. Sound(NoRequest)  BY SoundReset
    <3> QED  BY <2>1, <3>1, <1>1, <1>4 DEF Sound
  <2>2. CASE p # q
    <3>1. req'[p] = req[p] /\ made <= made' /\ made' \in Ids \cup {0}
      BY <2>2, <1>1, <1>2, <1>4 DEF TypeOK, Ids
    <3> QED  BY <1>1, <3>1, StillSound
  <2> QED  BY <2>1, <2>2
<1>9. OwnPlans'  BY <1>2, <1>4 DEF OwnPlans, At, NoRequest
<1>10. Given'
  <2> SUFFICES ASSUME NEW s \in Live, rows[s].maker \in Assigns, rows[s].plans = 0, s \notin failed, s # r
               PROVE  \E p \in Requests : req'[p].pc = "plans" /\ req'[p].hand = s
    BY <1>1 DEF Given, At, Live
  <2>1. PICK p \in Requests : At(p, "plans") /\ req[p].hand = s  BY <1>2 DEF Given
  <2> QED  BY <2>1, <1>4 DEF At
<1> QED  BY <1>6, <1>7, <1>8, <1>9, <1>10 DEF IInv

LEMMA UpdateKeeps ==
  ASSUME IInv, NEW q \in Requests, Update(q) \/ Find(q)
  PROVE  IInv'
<1>1. req[q].pc \in {"update", "find"} /\ ~At(q, "plans")  BY DEF Update, Find, At
<1>2. NoWrite /\ UNCHANGED <<rows, made, cache, failed, starts, deletes, faults>>
  BY DEF Update, Find, Same
<1>3. req[q] \in Request /\ Sound(req[q]) /\ TypeOK /\ RowsInv  BY DEF IInv, TypeOK, Sounds
<1>4. starts' \in 0..MaxRequests /\ deletes' \in 0..MaxDeletes /\ faults' \in 0..MaxFaults
  BY <1>2, <1>3 DEF TypeOK
<1>5. CASE Update(q)
  <2> DEFINE R == [req[q] EXCEPT !.pc = "forget", !.todo = Dropped(req[q].hand)]
  <2>1. req[q].hand \in Ids /\ req[q].hand <= made  BY <1>3, <1>5 DEF Update, At, Sound
  <2>2. Dropped(req[q].hand) \subseteq Aliases  BY <2>1, <1>3, Aliased DEF Dropped
  <2>3. R \in Request /\ Sound(R) /\ R.pc # "plans"
    BY <2>2, <1>3 DEF Request, Steps, Sound, Looks, Retries
  <2>4. req' = [req EXCEPT ![q] = R]  BY <1>5 DEF Update
  <2> QED  BY <1>1, <1>2, <1>4, <2>3, <2>4, Quiet, Move
<1>6. CASE Find(q) /\ req[q].ident \in Live
  <2> DEFINE R == [req[q] EXCEPT !.pc = "delete", !.hand = req[q].ident]
  <2>1. req[q].ident \in Ids /\ req[q].ident <= made  BY <1>3, <1>6, LiveMade
  <2>2. R \in Request /\ Sound(R) /\ R.pc # "plans"
    BY <2>1, <1>3 DEF Request, Steps, Sound, Looks, Retries
  <2>3. req' = [req EXCEPT ![q] = R]  BY <1>6 DEF Find
  <2> QED  BY <1>1, <1>2, <1>4, <2>2, <2>3, Quiet, Move
<1>7. CASE Find(q) /\ req[q].ident \notin Live
  <2>1. req' = [req EXCEPT ![q] = NoRequest] /\ NoRequest.pc # "plans"
    BY <1>7 DEF Find, Fail, NoRequest
  <2> QED  BY <1>1, <1>2, <1>4, <2>1, SoundReset, Quiet, Move
<1> QED  BY <1>5, <1>6, <1>7

LEMMA DeleteRowKeeps ==
  ASSUME IInv, NEW q \in Requests, DeleteRow(q)
  PROVE  IInv'
<1> DEFINE r == req[q].hand
<1> DEFINE R == [req[q] EXCEPT !.pc = "forget", !.todo = Dropped(r)]
<1>1. /\ At(q, "delete") /\ rows' = [rows EXCEPT ![r].live = FALSE]
      /\ req' = [req EXCEPT ![q] = R]
      /\ late' \in {late, late \cup {r}}
      /\ UNCHANGED <<made, cache, writes, failed, starts, deletes, faults>>
  BY DEF DeleteRow, Same
<1>2. TypeOK /\ RowsInv /\ Distinct /\ Entries /\ Pending /\ Sounds /\ OwnPlans /\ Given
  BY DEF IInv
<1>3. req[q] \in Request /\ r \in Ids /\ r <= made /\ rows[r] \in Row
  BY <1>1, <1>2 DEF Sounds, Sound, At, TypeOK
<1>4. \A s \in Ids : rows'[s] = IF s = r THEN [rows[r] EXCEPT !.live = FALSE] ELSE rows[s]
  BY <1>1, <1>2, <1>3 DEF TypeOK
<1>5. Live' \subseteq Live /\ rows' \in [Ids -> Row] /\ Live \subseteq Ids
  BY <1>1, <1>2, <1>3, <1>4 DEF Live, Row, TypeOK
<1>6. \A s \in Ids : /\ rows'[s].email = rows[s].email /\ rows'[s].external = rows[s].external
                     /\ rows'[s].plans = rows[s].plans /\ rows'[s].maker = rows[s].maker
                     /\ rows'[s].live => rows[s].live
  BY <1>3, <1>4 DEF Row
<1>7. Dropped(r) \subseteq Aliases  BY <1>2, <1>3, Aliased DEF Dropped
<1>8. R \in Request  BY <1>3, <1>7 DEF Request, Steps
<1>9. \A p \in Requests : req'[p] = IF p = q THEN R ELSE req[p]
  BY <1>1, <1>2 DEF TypeOK
<1>10. TypeOK'  BY <1>1, <1>2, <1>3, <1>5, <1>8 DEF TypeOK
<1>11. RowsInv'  BY <1>1, <1>2, <1>6 DEF RowsInv, Normal
<1>12. Distinct'  BY <1>2, <1>5, <1>6 DEF Distinct
<1>13. Entries' /\ Pending'  BY <1>1, <1>2 DEF Entries, Pending
<1>14. Sounds'
  <2> SUFFICES ASSUME NEW p \in Requests PROVE Sound(req[p])'  BY DEF Sounds
  <2>1. CASE p = q
    <3>1. req'[p].pc = "forget" /\ req'[p].hand = r  BY <2>1, <1>3, <1>9 DEF Request
    <3> QED  BY <3>1, <1>1, <1>3 DEF Sound, Looks, Retries
  <2>2. CASE p # q
    <3>1. At(p, "plans") => req[p].hand \in Ids  BY <1>2 DEF Sounds, Sound, At
    <3>2. At(p, "plans") => rows'[req[p].hand].plans = rows[req[p].hand].plans  BY <3>1, <1>6
    <3>3. req'[p] = req[p] /\ made <= made' /\ made' \in Ids \cup {0}
      BY <2>2, <1>1, <1>2, <1>9 DEF TypeOK, Ids
    <3> QED  BY <3>2, <3>3, StillSound
  <2> QED  BY <2>1, <2>2
<1>15. \A p \in Requests : (At(p, "plans"))' <=> At(p, "plans") /\ p # q
  BY <1>1, <1>3, <1>9 DEF At, Request
<1>16. OwnPlans'  BY <1>2, <1>9, <1>15 DEF OwnPlans
<1>17. Given'
  <2> SUFFICES ASSUME NEW s \in Live', rows'[s].maker \in Assigns, rows'[s].plans = 0, s \notin failed
               PROVE  \E p \in Requests : (At(p, "plans"))' /\ req'[p].hand = s
    BY <1>1 DEF Given
  <2>1. s \in Live /\ s \in Ids  BY <1>5
  <2>2. PICK p \in Requests : At(p, "plans") /\ req[p].hand = s  BY <2>1, <1>2, <1>6 DEF Given
  <2>3. p # q  BY <2>2, <1>1 DEF At
  <2> QED  BY <2>2, <2>3, <1>9, <1>15
<1> QED  BY <1>10, <1>11, <1>12, <1>13, <1>14, <1>16, <1>17 DEF IInv

LEMMA DropKeeps ==
  ASSUME IInv, NEW q \in Requests, NEW a \in Aliases, DropEntry(q, a)
  PROVE  IInv'
<1>1. /\ At(q, "forget") /\ NoWrite /\ cache' = [cache EXCEPT ![a] = 0]
      /\ UNCHANGED <<rows, made, failed, starts, deletes, faults>>
  BY DEF DropEntry, Same
<1>2. req[q] \in Request /\ Sound(req[q]) /\ TypeOK /\ Entries /\ Pending
  BY DEF IInv, TypeOK, Sounds
<1>3. /\ cache' \in [Aliases -> Ids \cup {0}] /\ Entries'
      /\ writes' \subseteq Aliases \X Ids /\ Pending' /\ late' \subseteq Ids
      /\ starts' \in 0..MaxRequests /\ deletes' \in 0..MaxDeletes /\ faults' \in 0..MaxFaults
  BY <1>1, <1>2 DEF TypeOK, Entries, Pending, NoWrite, Ids
<1>4. ~At(q, "plans")  BY <1>1 DEF At
<1>5. CASE req[q].todo = {a}
  <2>1. req' = [req EXCEPT ![q] = NoRequest] /\ NoRequest.pc # "plans"
    BY <1>5 DEF DropEntry, Fail, NoRequest
  <2> QED  BY <1>1, <1>3, <1>4, <2>1, SoundReset, Move
<1>6. CASE req[q].todo # {a}
  <2> DEFINE R == [req[q] EXCEPT !.todo = @ \ {a}]
  <2>1. R \in Request  BY <1>2 DEF Request
  <2>2. Sound(R) /\ R.pc # "plans"
    BY <1>1, <1>2 DEF Sound, At, Looks, Retries, Request
  <2>3. req' = [req EXCEPT ![q] = R]  BY <1>6 DEF DropEntry
  <2> QED  BY <1>1, <1>3, <1>4, <2>1, <2>2, <2>3, Move
<1> QED  BY <1>5, <1>6

LEMMA CacheKeeps ==
  ASSUME IInv, \/ \E w \in Aliases \X Ids : Put(w)
               \/ \E a \in Aliases : Expire(a)
  PROVE  IInv'
<1>1. /\ UNCHANGED <<rows, made, req, late, failed, starts, deletes, faults>>
      /\ writes' \subseteq writes
      /\ \E a \in Aliases : \/ cache' = [cache EXCEPT ![a] = 0]
                            \/ \E w \in writes : cache' = [cache EXCEPT ![a] = w[2]]
  BY DEF Put, Expire, NoWrite, Same
<1>2. TypeOK /\ Entries /\ Pending  BY DEF IInv
<1>3. cache' \in [Aliases -> Ids \cup {0}] /\ Entries'
  BY <1>1, <1>2 DEF TypeOK, Entries, Pending, Ids
<1>4. TypeOK' /\ Pending'  BY <1>1, <1>2, <1>3 DEF TypeOK, Pending
<1>5. RowsInv' /\ Distinct' /\ Sounds' /\ OwnPlans' /\ Given'
  BY <1>1 DEF IInv, RowsInv, Distinct, Sounds, Sound, OwnPlans, Given, Live, Normal, At
<1> QED  BY <1>3, <1>4, <1>5 DEF IInv

LEMMA StepKeeps == IInv /\ [Next]_vars => IInv'
<1> SUFFICES ASSUME IInv, [Next]_vars PROVE IInv'  OBVIOUS
<1>1. CASE UNCHANGED vars
  BY <1>1 DEF vars, IInv, TypeOK, RowsInv, Distinct, Entries, Pending, Sounds, Sound, OwnPlans,
              Given, Live, Normal, At
<1>2. ASSUME NEW q \in Requests, Work(q) PROVE IInv'
  BY <1>2, LookKeeps, InsertKeeps, ConflictKeeps, PlansKeeps, PlansFailKeeps, UpdateKeeps,
     DeleteRowKeeps, DropKeeps DEF Work
<1> QED  BY <1>1, <1>2, StartKeeps, CacheKeeps DEF Next

-----------------------------------------------------------------------------
(* The variables keep their types; customers.ts and customer-resolution.ts *)
(* never hand on an id that no row was made with.                          *)
THEOREM TypeCorrect == Spec => []TypeOK
<1>1. IInv => TypeOK  BY DEF IInv
<1> QED  BY InitInv, StepKeeps, <1>1, PTL DEF Spec

(* The unique indexes and the lower case of whatever an insert stores keep *)
(* one customer for a name (customers.ts:150-178).                         *)
THEOREM OneCustomerEver == Spec => []OneCustomer
<1>1. IInv => OneCustomer
  <2> SUFFICES ASSUME IInv, NEW r \in Live, NEW s \in Live, r # s
               PROVE  /\ rows[r].external = rows[s].external => rows[r].external = None
                      /\ Lower[rows[r].email] = Lower[rows[s].email] =>
                           \E t \in {r, s} : rows[t].maker = "operator" /\ ~Normal(t)
    BY DEF OneCustomer
  <2>1. /\ rows[r].email # rows[s].email
        /\ rows[r].external = rows[s].external => rows[r].external = None
    BY DEF IInv, Distinct
  <2>2. \A t \in {r, s} : Normal(t) \/ rows[t].maker = "operator"  BY DEF IInv, RowsInv, Live
  <2> QED  BY <2>1, <2>2 DEF Normal
<1> QED  BY InitInv, StepKeeps, <1>1, PTL DEF Spec

(* The automatic plans come once, from the request that made the customer, *)
(* however many requests race to make it (customers.ts:176-204).           *)
THEOREM PlansOnceEver == Spec => []PlansOnce
<1>1. IInv => PlansOnce
  <2> SUFFICES ASSUME IInv PROVE PlansOnce  OBVIOUS
  <2>1. \A r \in Live : rows[r].plans \in 0..1  BY DEF IInv, RowsInv, Live
  <2> QED  BY <2>1 DEF IInv, Given, PlansOnce
<1> QED  BY InitInv, StepKeeps, <1>1, PTL DEF Spec

-----------------------------------------------------------------------------
(* For ServesOwner: two live customers never answer to one name, an entry  *)
(* or a pending write stands under a name of its customer, and an entry of *)
(* a deleted customer is being forgotten or was brought back.              *)
Names ==
  \A r \in Live : rows[r].external \in Ids => rows[r].external <= made /\ rows[r].external \notin Live
Named ==
  /\ \A a \in Aliases : cache[a] # 0 => a \in AliasesOf(cache[a])
  /\ \A w \in writes : w[1] \in AliasesOf(w[2])
DeadWrites == \A w \in writes : w[2] \in Live \cup late
DeadEntries ==
  \A a \in Aliases : cache[a] # 0 => cache[a] \in Live \cup late \/ Forgetting(a)

Serving(R) ==
  /\ R.due <= made
  /\ R.pc \in Looks \cup {"insert"} => Key(R.ident) = R.ident
  /\ R.pc \in Looks \cup {"insert"} /\ R.ident \in Ids => R.ident <= made
  /\ R.pc \in Retries \cup {"insert"} /\ R.ident \in Ids => R.ident \notin Live
  /\ R.pc \in Retries \cup {"insert", "plans"} => R.due \notin Live
  /\ R.pc \in {"cache", "lookup"} /\ R.due \in Live => R.due \in Bearing(R.ident)
  /\ R.pc = "cache" /\ R.due \in Live /\ cache[R.ident] # 0 =>
       cache[R.ident] \in Live \cup late \/ ~Bears(cache[R.ident], R.ident)
  /\ R.pc = "done" /\ R.due \in Live => R.hand = R.due \/ R.hand \in late \/ ~Normal(R.hand)
  /\ R.pc = "done" => R.hand \in Ids
  /\ R.pc \in {"find", "delete"} => R.caller = "delete"
Servings == \A q \in Requests : Serving(req[q])

SInv == Names /\ Named /\ DeadWrites /\ DeadEntries /\ Servings

LEMMA OneBearer ==
  ASSUME IInv, Names, NEW i \in Aliases, Key(i) = i, NEW d \in Bearing(i), NEW r \in Live, Bears(r, i)
  PROVE  r = d
<1>1. TypeOK /\ RowsInv /\ Distinct  BY DEF IInv
<1>2. d \in Live /\ d \in Ids /\ r \in Ids  BY DEF Bearing, ById, Live
<1>3. rows[d] \in Row /\ rows[r] \in Row  BY <1>1, <1>2 DEF TypeOK
<1>4. i \in Mails => Lower[i] = i  BY DEF Key
<1>5. CASE i \in Live
  <2>1. d = i  BY <1>5 DEF Bearing, ById
  <2>2. i \in Ids /\ i \notin Mails  BY <1>5, IdentityAssumption DEF Live, Ids
  <2>3. rows[r].external # i  BY <1>5, <2>2 DEF Names
  <2> QED  BY <2>1, <2>2, <2>3 DEF Bears
<1>6. CASE i \notin Live
  <2>1. Bears(d, i) /\ r # i /\ d # i  BY <1>2, <1>6 DEF Bearing, ById
  <2>2. CASE i \in Mails
    <3>1. rows[r].external # i /\ rows[d].external # i
      BY <1>3, <2>2, IdentityAssumption DEF Row, Own, Ids
    <3> QED  BY <1>1, <1>2, <2>1, <2>2, <3>1 DEF Bears, Distinct
  <2>3. CASE i \notin Mails
    <3>1. rows[r].external = i /\ rows[d].external = i  BY <2>1, <2>3 DEF Bears
    <3>2. i # None  BY IdentityAssumption DEF Aliases, Own, Ids
    <3> QED  BY <1>1, <1>2, <3>1, <3>2 DEF Distinct
  <2> QED  BY <2>2, <2>3
<1> QED  BY <1>5, <1>6

(* A request that does not move is still served right when others write.   *)
LEMMA StillServing ==
  ASSUME IInv, SInv, NEW p \in Requests, req'[p] = req[p],
         made \in Ids \cup {0}, made' \in Ids \cup {0}, made <= made', late \subseteq late',
         \A s \in Ids : s <= made => /\ rows'[s].email = rows[s].email
                                     /\ rows'[s].external = rows[s].external,
         \A s \in Live' : s \in Ids /\ (s <= made => s \in Live),
         \A a \in Aliases : cache'[a] \in {cache[a], 0} \/ cache'[a] \in Live' \cup late'
  PROVE  Serving(req[p])'
<1> DEFINE R == req[p]
<1>1. R \in Request /\ Sound(R) /\ Serving(R) /\ Names /\ TypeOK /\ Entries
  BY DEF IInv, SInv, TypeOK, Sounds, Servings
<1>2. R.due \in Ids \cup {0} /\ R.hand \in Ids \cup {0}  BY <1>1 DEF Request
<1>3. R.due \in Live' => R.due \in Live  BY <1>1 DEF Serving
<1>4. R.pc \in {"cache", "lookup"} /\ R.due \in Live' => R.due \in Bearing(R.ident)'
  <2> HAVE R.pc \in {"cache", "lookup"} /\ R.due \in Live'
  <2>1. R.due \in Bearing(R.ident) /\ R.due \in Ids /\ R.due <= made
        /\ (R.ident \in Ids => R.ident <= made)
    BY <1>1, <1>3 DEF Serving, Looks, Live
  <2>2. CASE R.ident \in Live
    <3>1. R.due = R.ident  BY <2>1, <2>2 DEF Bearing, ById
    <3> QED  BY <3>1 DEF Bearing, ById
  <2>3. CASE R.ident \notin Live
    <3>1. Bears(R.due, R.ident)  BY <2>1, <2>3 DEF Bearing, ById
    <3>2. R.ident \notin Live'  BY <2>1, <2>3
    <3>3. Bears(R.due, R.ident)'  BY <3>1, <2>1 DEF Bears
    <3> QED  BY <3>2, <3>3 DEF Bearing, ById
  <2> QED  BY <2>2, <2>3
<1>5. ASSUME R.pc = "cache", R.due \in Live', cache'[R.ident] # 0
      PROVE  cache'[R.ident] \in Live' \cup late' \/ ~Bears(cache[R.ident], R.ident)'
  <2>1. R.ident \in Aliases /\ Key(R.ident) = R.ident /\ R.due \in Bearing(R.ident)
    BY <1>1, <1>3, <1>5 DEF Sound, Serving, Looks
  <2> SUFFICES ASSUME cache'[R.ident] = cache[R.ident], Bears(cache[R.ident], R.ident)'
               PROVE  cache[R.ident] \in Live' \cup late'
    BY <1>5, <2>1
  <2> DEFINE r == cache[R.ident]
  <2>2. r \in Ids /\ r <= made  BY <1>1, <1>5, <2>1 DEF TypeOK, Entries
  <2>3. Bears(r, R.ident)  BY <2>2 DEF Bears
  <2>4. r \in Live \cup late  BY <1>1, <1>3, <1>5, <2>3 DEF Serving
  <2>5. r \in Live => r = R.due  BY <1>1, <2>1, <2>3, OneBearer
  <2> QED  BY <1>5, <2>4, <2>5
<1>6. ASSUME R.pc = "done"
      PROVE  R.hand \in Ids /\ (Normal(R.hand)' <=> Normal(R.hand))
  BY <1>1, <1>6 DEF Serving, Sound, Normal
<1>7. R.pc = "done" /\ R.due \in Live' =>
        R.hand = R.due \/ R.hand \in late' \/ ~Normal(R.hand)'
  BY <1>1, <1>3, <1>6 DEF Serving
<1>8. /\ R.due <= made'
      /\ R.pc \in Looks \cup {"insert"} /\ R.ident \in Ids => R.ident <= made'
  BY <1>1, <1>2 DEF Serving, Ids
<1>9. R.pc \in Retries \cup {"insert"} /\ R.ident \in Ids => R.ident \notin Live'
  BY <1>1 DEF Serving, Looks, Retries
<1>10. R.pc \in Retries \cup {"insert", "plans"} => R.due \notin Live'
  BY <1>1, <1>3 DEF Serving
<1>11. /\ R.pc \in Looks \cup {"insert"} => Key(R.ident) = R.ident
       /\ R.pc \in {"find", "delete"} => R.caller = "delete"
  BY <1>1 DEF Serving
<1>12. \A i : Key(i)' = Key(i)  BY DEF Key
<1> HIDE DEF R
<1> QED  BY <1>4, <1>5, <1>6, <1>7, <1>8, <1>9, <1>10, <1>11, <1>12 DEF Serving, R

LEMMA MoveServes ==
  ASSUME IInv, SInv, NEW q \in Requests, NEW R \in Request, Serving(req[q])',
         req' = [req EXCEPT ![q] = R], UNCHANGED <<made, cache>>,
         \A s \in Ids : /\ rows'[s].email = rows[s].email /\ rows'[s].external = rows[s].external
                        /\ rows'[s].live = rows[s].live,
         NoWrite \/ \E r \in Ids : Schedule(q, r),
         ~(At(q, "forget") /\ req[q].caller = "delete")
  PROVE  SInv'
<1>1. Live' = Live /\ TypeOK /\ made \in Ids \cup {0}  BY DEF Live, IInv, TypeOK
<1>2. Live \subseteq Ids /\ made <= made' /\ late \subseteq late'
  BY <1>1 DEF Live, NoWrite, Schedule, Ids
<1>3. \A p \in Requests : req'[p] = IF p = q THEN R ELSE req[p]  BY <1>1 DEF TypeOK
<1>4. Names'  BY <1>1 DEF SInv, Names, Live
<1>5. \A r \in Ids : AliasesOf(r)' = AliasesOf(r)  BY DEF AliasesOf
<1>6. Named'
  <2>1. \A a \in Aliases : cache[a] # 0 => a \in AliasesOf(cache[a])' 
    BY <1>1, <1>5 DEF SInv, Named, TypeOK
  <2>2. \A w \in writes' : w[1] \in AliasesOf(w[2])'
    BY <1>1, <1>5 DEF SInv, Named, TypeOK, NoWrite, Schedule
  <2> QED  BY <2>1, <2>2 DEF Named
<1>7. DeadWrites'  BY <1>1 DEF SInv, DeadWrites, NoWrite, Schedule
<1>8. DeadEntries'
  <2>1. \A a \in Aliases : Forgetting(a) => Forgetting(a)'  BY <1>3 DEF Forgetting, At
  <2> QED  BY <1>1, <1>2, <2>1 DEF SInv, DeadEntries
<1>9. Servings'
  <2> SUFFICES ASSUME NEW p \in Requests PROVE Serving(req[p])'  BY DEF Servings
  <2>1. CASE p = q  BY <2>1
  <2>2. CASE p # q
    BY <2>2, <1>1, <1>2, <1>3, StillServing
  <2> QED  BY <2>1, <2>2
<1> QED  BY <1>4, <1>6, <1>7, <1>8, <1>9 DEF SInv

LEMMA InitServes == Init => SInv
<1> SUFFICES ASSUME Init PROVE SInv  OBVIOUS
<1>1. Live = {}  BY DEF Live, Init, NoRow
<1>2. Names /\ Named /\ DeadWrites /\ DeadEntries
  BY <1>1 DEF Names, Named, DeadWrites, DeadEntries, Init
<1>3. Servings  BY DEF Servings, Serving, Init, NoRequest, Looks, Retries
<1> QED  BY <1>2, <1>3 DEF SInv

LEMMA Reset ==
  ASSUME IInv'
  PROVE  NoRequest \in Request /\ Serving(NoRequest)'
<1>1. 0 <= made'  BY DEF IInv, TypeOK, Ids
<1>2. NoRequest \in Request
  BY DEF NoRequest, Request, Steps
<1> QED  BY <1>1, <1>2 DEF NoRequest, Serving, Looks, Retries

LEMMA KeyAgain ==
  ASSUME TypeOK, NEW i \in Aliases
  PROVE  Key(Key(i)) = Key(i) /\ Bearing(Key(i)) = Bearing(i) /\ (Key(i) \in Ids => Key(i) = i)
<1>1. i \in Mails => Lower[i] \in Mails /\ Lower[Lower[i]] = Lower[i]  BY IdentityAssumption
<1>2. \A j \in Mails : j \notin Ids /\ j \notin Externals  BY IdentityAssumption DEF Ids
<1>3. CASE i \in Mails
  <2>1. Key(i) = Lower[i] /\ ById(i) = {} /\ ById(Lower[i]) = {}
    BY <1>1, <1>2, <1>3 DEF Key, ById, Live
  <2>2. Bearing(i) = {r \in Live : Bears(r, i)}
        /\ Bearing(Lower[i]) = {r \in Live : Bears(r, Lower[i])}
    BY <2>1 DEF Bearing
  <2>3. \A r \in Live : Bears(r, i) <=> Bears(r, Lower[i])
    <3>1. \A r \in Live : r \in Ids /\ rows[r].external \notin Mails
      BY <1>2, IdentityAssumption DEF TypeOK, Live, Row, Own
    <3> QED  BY <1>1, <1>2, <1>3, <3>1 DEF Bears
  <2> QED  BY <1>1, <1>2, <1>3, <2>1, <2>2, <2>3 DEF Key
<1> QED  BY <1>3 DEF Key

LEMMA StartServes ==
  ASSUME IInv, SInv, IInv', NEW q \in Requests, Start(q)
  PROVE  SInv'
<1>1. TypeOK /\ RowsInv /\ Live \subseteq Ids /\ 0 <= made /\ 1..made \subseteq Ids
  BY IdentityAssumption DEF IInv, TypeOK, Live, Ids
<1>2. ~(At(q, "forget") /\ req[q].caller = "delete") /\ UNCHANGED <<rows, made, cache>> /\ NoWrite
  BY DEF Start, Ask, Event, Form, Delete, Free, At
<1>3. Live' = Live /\ \A r, i : Bears(r, i)' = Bears(r, i)  BY <1>2 DEF Live, Bears
<1>4. \A i : Bearing(i)' = Bearing(i)  BY <1>3 DEF Bearing, ById
<1>5. \A i : Key(i)' = Key(i)  BY DEF Key
<1>6. \A r \in Live : r <= made  BY <1>1, LiveMade
<1>7. ASSUME NEW R \in Request, req' = [req EXCEPT ![q] = R], Serving(R)
      PROVE  SInv'
  <2>1. req'[q] = R  BY <1>1, <1>7 DEF TypeOK
  <2>2. Serving(req[q])'
    BY <1>2, <1>3, <1>4, <1>5, <1>7, <2>1 DEF Serving, Normal, NoWrite
  <2> QED  BY <1>2, <1>7, <2>2, MoveServes
<1>8. ASSUME NEW caller \in API, NEW i \in Mails \cup Externals \cup 1..made,
             NEW m \in Mails \cup {None}, Ask(q, caller, i, m)
      PROVE  SInv'
  <2> DEFINE R == [NoRequest EXCEPT !.pc = IF caller = "track" THEN "cache" ELSE "lookup",
                     !.caller = caller, !.ident = Key(i), !.email = EmailFor(i, m), !.due = Due(i)]
  <2>1. i \in Aliases /\ (i \in Ids => i <= made)
    BY <1>1, IdentityAssumption DEF Aliases, Own, Ids
  <2>2. Bearing(i) \subseteq Live  BY DEF Bearing, ById
  <2>3. Due(i) \in Live => Due(i) \in Bearing(i) /\ ~Forgetting(Key(i))
    BY <2>2, <1>1 DEF Due, Live, Ids
  <2>4. Due(i) \in Ids \cup {0} /\ Due(i) <= made  BY <2>2, <1>1, <1>6 DEF Due
  <2>5. Key(i) \in Aliases /\ Key(Key(i)) = Key(i) /\ Bearing(Key(i)) = Bearing(i)
        /\ (Key(i) \in Ids => Key(i) <= made)
    BY <1>1, <2>1, KeyAgain, Lowered
  <2>6. R \in Request
    BY <2>1, <2>4, Lowered DEF Request, NoRequest, Steps, Callers, API
  <2>7. Due(i) \in Live /\ cache[Key(i)] # 0 => cache[Key(i)] \in Live \cup late
    BY <2>3, <2>5 DEF SInv, DeadEntries
  <2>8. R.pc \in {"cache", "lookup"} /\ R.ident = Key(i) /\ R.due = Due(i)  BY DEF NoRequest
  <2>9. Serving(R)
    BY <2>3, <2>4, <2>5, <2>7, <2>8 DEF Serving, Looks, Retries
  <2> QED  BY <1>7, <1>8, <2>6, <2>9 DEF Ask
<1>9. ASSUME NEW m \in Mails, Event(q, m)
      PROVE  SInv'
  <2> DEFINE R == [NoRequest EXCEPT !.pc = "lookup", !.caller = "event", !.ident = Key(m),
                     !.email = EmailFor(m, m)]
  <2>1. m \in Aliases /\ m \notin Ids  BY IdentityAssumption DEF Aliases, Ids
  <2>2. R \in Request  BY <2>1, Lowered DEF Request, NoRequest, Steps, Callers
  <2>3. Key(Key(m)) = Key(m) /\ Key(m) \notin Ids
    BY <1>1, <2>1, KeyAgain
  <2>4. R.pc = "lookup" /\ R.ident = Key(m) /\ R.due = 0 /\ 0 \notin Live
    BY <1>1 DEF NoRequest, Ids
  <2>5. Serving(R)  BY <1>1, <2>3, <2>4 DEF Serving, Looks, Retries
  <2> QED  BY <1>7, <1>9, <2>2, <2>5 DEF Event
<1>10. ASSUME NEW m \in Mails, NEW x \in Externals \cup {None}, Form(q, m, x)
      PROVE  SInv'
  <2> DEFINE R == [NoRequest EXCEPT !.pc = "insert", !.caller = "operator", !.ident = x, !.email = m]
  <2>1. R \in Request  BY DEF Request, NoRequest, Steps, Callers, Aliases, Own
  <2>2. Key(x) = x /\ x \notin Ids  BY IdentityAssumption DEF Key, Ids
  <2>3. R.pc = "insert" /\ R.ident = x /\ R.due = 0 /\ 0 \notin Live
    BY <1>1 DEF NoRequest, Ids
  <2>4. Serving(R)  BY <1>1, <2>2, <2>3 DEF Serving, Looks, Retries
  <2> QED  BY <1>7, <1>10, <2>1, <2>4 DEF Form
<1>11. ASSUME NEW r \in Ids, Delete(q, r)
      PROVE  SInv'
  <2> DEFINE R == [NoRequest EXCEPT !.pc = "find", !.caller = "delete", !.ident = r]
  <2>1. R \in Request  BY DEF Request, NoRequest, Steps, Callers, Aliases, Own
  <2>2. R.pc = "find" /\ R.due = 0 /\ R.caller = "delete"  BY DEF NoRequest
  <2>3. Serving(R)  BY <1>1, <2>2 DEF Serving, Looks, Retries
  <2> QED  BY <1>7, <1>11, <2>1, <2>3 DEF Delete
<1> QED  BY <1>8, <1>9, <1>10, <1>11 DEF Start

LEMMA FoundServes ==
  ASSUME IInv, SInv, IInv', NEW q \in Requests, NEW r \in Ids, r <= made, Found(q, r),
         UNCHANGED <<made, cache>>,
         \A s \in Ids : /\ rows'[s].email = rows[s].email /\ rows'[s].external = rows[s].external
                        /\ rows'[s].live = rows[s].live,
         ~At(q, "forget"), req[q].due \in Live => r = req[q].due \/ r \in late \/ ~Normal(r)
  PROVE  SInv'
<1>1. TypeOK /\ req[q] \in Request /\ Serving(req[q]) /\ made \in Ids \cup {0}
  BY DEF IInv, TypeOK, SInv, Servings
<1>2. Live' = Live  BY DEF Live
<1>3. CASE req[q].caller = "event"
  <2> DEFINE R == [req[q] EXCEPT !.pc = "update", !.hand = r]
  <2>1. R \in Request /\ R.pc = "update" /\ R.due = req[q].due
    BY <1>1 DEF Request, Steps
  <2>2. req' = [req EXCEPT ![q] = R] /\ NoWrite  BY <1>3 DEF Found
  <2>3. req'[q].pc = "update" /\ req'[q].due = req[q].due  BY <1>1, <2>1, <2>2 DEF TypeOK
  <2>4. Serving(req[q])'  BY <1>1, <2>3 DEF Serving, Looks, Retries
  <2> QED  BY <2>1, <2>2, <2>4, MoveServes
<1>4. CASE req[q].caller # "event"
  <2> DEFINE R == [NoRequest EXCEPT !.pc = "done", !.hand = r, !.due = req[q].due]
  <2>1. R \in Request  BY <1>1 DEF Request, Steps, NoRequest
  <2>2. req' = [req EXCEPT ![q] = R] /\ Schedule(q, r)  BY <1>4 DEF Found, Done
  <2>3. R.pc = "done" /\ R.hand = r /\ R.due = req[q].due  BY DEF NoRequest
  <2>4. late \subseteq late' /\ (Normal(r)' <=> Normal(r))  BY <2>2 DEF Schedule, Normal
  <2>5. req'[q].pc = "done" /\ req'[q].hand = r /\ req'[q].due = req[q].due
    BY <1>1, <2>2, <2>3 DEF TypeOK
  <2>6. Serving(req[q])'  BY <1>1, <1>2, <2>4, <2>5 DEF Serving, Looks, Retries
  <2> QED  BY <2>1, <2>2, <2>6, MoveServes
<1> QED  BY <1>3, <1>4

LEMMA FailServes ==
  ASSUME IInv, SInv, IInv', NEW q \in Requests, Fail(q), NoWrite, UNCHANGED <<rows, made, cache>>,
         ~At(q, "forget")
  PROVE  SInv'
<1>1. NoRequest \in Request /\ Serving(NoRequest)'  BY Reset
<1>2. req'[q] = NoRequest  BY DEF Fail, IInv, TypeOK
<1>3. Serving(req[q])'  BY <1>1, <1>2 DEF Serving
<1> QED  BY <1>1, <1>3, MoveServes DEF Fail

LEMMA GotoServes ==
  ASSUME IInv, SInv, IInv', NEW q \in Requests, NEW s \in Looks \cup {"insert"}, Goto(q, s),
         NoWrite, UNCHANGED <<rows, made, cache>>, req[q].pc \in Looks \cup {"insert"},
         \/ s = "lookup" /\ req[q].pc = "cache"
         \/ /\ s # "cache" /\ s # "lookup" /\ req[q].due \notin Live
            /\ (req[q].ident \in Ids => req[q].ident \notin Live)
  PROVE  SInv'
<1> DEFINE R == [req[q] EXCEPT !.pc = s]
<1>1. TypeOK /\ req[q] \in Request /\ Serving(req[q]) /\ made \in Ids \cup {0}
  BY DEF IInv, TypeOK, SInv, Servings
<1>2. R \in Request /\ R.pc = s /\ R.due = req[q].due /\ R.ident = req[q].ident
  BY <1>1 DEF Request, Steps, Looks
<1>3. Live' = Live /\ \A i : Key(i)' = Key(i) /\ Bearing(i)' = Bearing(i)
  BY DEF Live, Key, Bearing, ById, Bears
<1>4. req' = [req EXCEPT ![q] = R]  BY DEF Goto
<1>5. req'[q].pc = s /\ req'[q].due = req[q].due /\ req'[q].ident = req[q].ident
  BY <1>1, <1>2, <1>4 DEF TypeOK
<1>6. Serving(req[q])'  BY <1>1, <1>3, <1>5 DEF Serving, Looks, Retries
<1>7. ~At(q, "forget")  BY DEF At, Looks
<1> QED  BY <1>2, <1>4, <1>6, <1>7, MoveServes

LEMMA LookServes ==
  ASSUME IInv, SInv, IInv', NEW q \in Requests,
         ReadCache(q) \/ Lookup(q) \/ ReadCacheAgain(q) \/ LookupAgain(q)
  PROVE  SInv'
<1>1. req[q].pc \in Looks /\ ~At(q, "forget")
  BY DEF ReadCache, Lookup, ReadCacheAgain, LookupAgain, At, Looks
<1>2. /\ req[q] \in Request /\ Sound(req[q]) /\ Serving(req[q])
      /\ TypeOK /\ RowsInv /\ Names /\ Entries /\ made \in Ids \cup {0}
  BY DEF IInv, TypeOK, Sounds, SInv, Servings
<1>3. req[q].ident \in Aliases /\ Key(req[q].ident) = req[q].ident
  BY <1>1, <1>2 DEF Sound, Serving
<1>4. UNCHANGED <<rows, made, cache>>
  BY DEF ReadCache, Lookup, ReadCacheAgain, LookupAgain
<1>5. Bearing(req[q].ident) \subseteq Live /\ \A r \in Live : r \in Ids /\ r <= made
  BY <1>2, LiveMade DEF Bearing, ById
<1>6. \A r \in Live : Bears(r, req[q].ident) => \A d \in Bearing(req[q].ident) : r = d
  BY <1>2, <1>3, OneBearer
<1>7. ASSUME req[q].pc \in Retries
      PROVE  req[q].due \notin Live /\ (req[q].ident \in Ids => req[q].ident \notin Live)
  BY <1>2, <1>7 DEF Serving, Retries
<1>8. ASSUME NEW r \in Ids, r <= made, Found(q, r),
             req[q].due \in Live => r = req[q].due \/ r \in late \/ ~Normal(r)
      PROVE  SInv'
  BY <1>1, <1>4, <1>8, FoundServes
<1>9. ASSUME Fail(q), NoWrite PROVE SInv'  BY <1>1, <1>4, <1>9, FailServes
<1>10. CASE ReadCache(q)
  <2> DEFINE r == cache[req[q].ident]
  <2>1. Cached(req[q].ident) = r /\ r \in Ids \cup {0} /\ r <= made
    BY <1>2, <1>3 DEF Cached, TypeOK, Entries
  <2>2. CASE r # 0 /\ Bears(r, req[q].ident)
    <3> DEFINE R == [NoRequest EXCEPT !.pc = "done", !.hand = r, !.due = req[q].due]
    <3>1. req' = [req EXCEPT ![q] = R] /\ (NoWrite \/ Schedule(q, r))
      BY <1>10, <2>1, <2>2 DEF ReadCache, Done
    <3>2. R \in Request /\ R.pc = "done" /\ R.hand = r /\ R.due = req[q].due /\ r \in Ids
      BY <1>2, <2>1, <2>2 DEF Request, Steps, NoRequest
    <3>3. req[q].due \in Live => r = req[q].due \/ r \in late
      <4> HAVE req[q].due \in Live
      <4>1. req[q].due \in Bearing(req[q].ident) /\ r \in Live \cup late
        BY <1>2, <1>10, <2>2 DEF Serving, ReadCache, At
      <4> QED  BY <4>1, <2>2, <1>6
    <3>4. late \subseteq late' /\ Live' = Live  BY <1>4, <3>1 DEF Schedule, NoWrite, Live
    <3>5. req'[q].pc = "done" /\ req'[q].hand = r /\ req'[q].due = req[q].due
      BY <1>2, <3>1, <3>2 DEF TypeOK
    <3>6. Serving(req[q])'
      BY <1>2, <1>4, <3>2, <3>3, <3>4, <3>5 DEF Serving, Looks, Retries
    <3> QED  BY <1>1, <1>4, <3>1, <3>2, <3>6, MoveServes
  <2>3. CASE ~(r # 0 /\ Bears(r, req[q].ident))
    <3>1. Goto(q, "lookup") /\ NoWrite /\ req[q].pc = "cache"
      BY <1>10, <2>1, <2>3 DEF ReadCache, At
    <3> QED  BY <1>1, <1>4, <3>1, GotoServes DEF Looks
  <2> QED  BY <2>2, <2>3
<1>11. CASE Lookup(q)
  <2>1. req[q].pc = "lookup"  BY <1>11 DEF Lookup, At
  <2>2. req[q].due \in Live => req[q].due \in Bearing(req[q].ident)  BY <1>2, <2>1 DEF Serving
  <2>3. ASSUME NEW r \in Bearing(req[q].ident), Found(q, r) PROVE SInv'
    <3>1. Bears(r, req[q].ident)  BY DEF Bearing, ById, Bears
    <3> QED  BY <1>5, <1>6, <1>8, <2>2, <2>3, <3>1
  <2>4. ASSUME Bearing(req[q].ident) = {}, Goto(q, "insert"), NoWrite PROVE SInv'
    <3>1. req[q].due \notin Live /\ req[q].ident \notin Live  BY <2>2, <2>4 DEF Bearing, ById
    <3> QED  BY <1>1, <1>4, <2>1, <2>4, <3>1, GotoServes
  <2> QED  BY <1>9, <1>11, <2>3, <2>4 DEF Lookup
<1>12. CASE ReadCacheAgain(q)
  <2> DEFINE byMail == At(q, "mailcache")
             name == IF byMail THEN req[q].email ELSE req[q].ident
             r == Cached(name)
  <2>1. req[q].pc \in Retries  BY <1>12 DEF ReadCacheAgain, At, Retries
  <2>2. name \in Aliases  BY <2>1, <1>2, <1>3 DEF Aliases, Sound
  <2>3. r \in Ids \cup {0} /\ r <= made
    BY <2>2, <1>2, Lowered DEF Cached, TypeOK, Entries
  <2>4. CASE r # 0 /\ Bears(r, name)
    BY <1>7, <1>8, <1>12, <2>1, <2>3, <2>4 DEF ReadCacheAgain
  <2>5. CASE ~(r # 0 /\ Bears(r, name))
    <3>1. NoWrite /\ (Goto(q, "mailrow") \/ Goto(q, "relookup"))
      BY <1>12, <2>5 DEF ReadCacheAgain
    <3> QED  BY <1>1, <1>4, <1>7, <2>1, <3>1, GotoServes DEF Looks
  <2> QED  BY <2>4, <2>5
<1>13. CASE LookupAgain(q)
  <2>1. req[q].pc \in Retries  BY <1>13 DEF LookupAgain, At, Retries
  <2>2. \/ \E r \in Live : Found(q, r)
        \/ NoWrite /\ (Goto(q, "mailcache") \/ Goto(q, "mailrow"))
        \/ Fail(q) /\ NoWrite
    BY <1>5, <1>13 DEF LookupAgain
  <2>3. ASSUME NEW s \in {"mailcache", "mailrow"}, NoWrite, Goto(q, s) PROVE SInv'
    BY <1>1, <1>4, <1>7, <2>1, <2>3, GotoServes DEF Looks
  <2> QED  BY <1>5, <1>7, <1>8, <1>9, <2>1, <2>2, <2>3
<1> QED  BY <1>10, <1>11, <1>12, <1>13

LEMMA InsertServes ==
  ASSUME IInv, SInv, IInv', NEW q \in Requests, Insert(q)
  PROVE  SInv'
<1> DEFINE row == New(q)  r == made + 1
<1>1. At(q, "insert") /\ made < MaxRequests /\ rows' = [rows EXCEPT ![r] = row] /\ made' = r
      /\ UNCHANGED <<cache, writes, late>>
  BY DEF Insert, NoWrite
<1>2. TypeOK /\ RowsInv /\ Entries /\ Pending /\ Sounds /\ Names /\ Named /\ DeadWrites /\ DeadEntries
      /\ Servings
  BY DEF IInv, SInv
<1>3. made \in Ids \cup {0} /\ made' \in Ids \cup {0} /\ made <= made' /\ r \in Ids /\ ~(r <= made)
  BY <1>1, <1>2, IdentityAssumption DEF TypeOK, Ids
<1>4. \A s \in Ids : rows'[s] = IF s = r THEN row ELSE rows[s]  BY <1>1, <1>2 DEF TypeOK
<1>5. row.live /\ row.external \in {None, req[q].ident} /\ (row.external \in Ids => row.external = req[q].ident)
  BY IdentityAssumption DEF New, Ids
<1>6. Live' = Live \cup {r}  BY <1>3, <1>4, <1>5 DEF Live
<1>7. \A s \in Live : s \in Ids /\ s <= made  BY <1>2, LiveMade
<1>8. req[q] \in Request /\ Sound(req[q]) /\ Serving(req[q]) /\ req[q].pc = "insert"
  BY <1>1, <1>2 DEF TypeOK, Sounds, Servings, At
<1>9. \A s \in Ids : s <= made => rows'[s] = rows[s] /\ AliasesOf(s)' = AliasesOf(s)
  BY <1>3, <1>4 DEF AliasesOf
<1>10. Names'
  <2>1. row.external \in Ids => row.external <= made /\ row.external \notin Live
    BY <1>5, <1>8 DEF Serving
  <2> QED  BY <2>1, <1>1, <1>2, <1>3, <1>4, <1>6, <1>7 DEF Names, Ids
<1>11. Named'
  BY <1>1, <1>2, <1>9 DEF Named, Entries, Pending, TypeOK
<1>12. DeadWrites'  BY <1>1, <1>2, <1>6 DEF DeadWrites
<1>13. \A p \in Requests : p # q => req'[p] = req[p]
  <2>1. req[q].caller \in Assigns \cup {"attach", "event"}
    BY <1>8 DEF Sound, Callers, API, Assigns
  <2>2. CASE req[q].caller \in Assigns
    <3>1. req' = [req EXCEPT ![q].pc = "plans", ![q].hand = r]  BY <2>2 DEF Insert, Assigns
    <3> QED  BY <3>1, <1>2 DEF TypeOK
  <2>3. CASE req[q].caller = "attach"
    <3>1. Done(q, r)  BY <2>3 DEF Insert, Assigns
    <3> QED  BY <3>1, <1>2 DEF Done, TypeOK
  <2>4. CASE req[q].caller = "event"
    <3>1. req' = [req EXCEPT ![q].pc = "update", ![q].hand = r]  BY <2>4 DEF Insert, Assigns
    <3> QED  BY <3>1, <1>2 DEF TypeOK
  <2> QED  BY <2>1, <2>2, <2>3, <2>4
<1>14. DeadEntries'
  <2>1. \A a \in Aliases : Forgetting(a) => Forgetting(a)'
    BY <1>1, <1>13 DEF Forgetting, At
  <2> QED  BY <2>1, <1>1, <1>2, <1>6 DEF DeadEntries
<1>15. /\ req'[q].due = req[q].due
       /\ \/ req'[q].pc \in {"plans", "update"}
          \/ req'[q].pc = "done" /\ req'[q].hand = r
  <2>1. CASE req[q].caller \in Assigns
    <3>1. req' = [req EXCEPT ![q].pc = "plans", ![q].hand = r]  BY <2>1 DEF Insert, Assigns
    <3> QED  BY <3>1, <1>2, <1>8 DEF TypeOK, Request
  <2>2. CASE req[q].caller = "attach"
    <3>1. Done(q, r)  BY <2>2 DEF Insert, Assigns
    <3> QED  BY <3>1, <1>2 DEF Done, TypeOK, NoRequest
  <2>3. CASE req[q].caller = "event"
    <3>1. req' = [req EXCEPT ![q].pc = "update", ![q].hand = r]  BY <2>3 DEF Insert, Assigns
    <3> QED  BY <3>1, <1>2, <1>8 DEF TypeOK, Request
  <2> QED  BY <2>1, <2>2, <2>3, <1>8 DEF Sound, Callers, API, Assigns
<1>16. Serving(req[q])'
  <2>1. req[q].due <= made /\ req[q].due \notin Live /\ req[q].due \in Ids \cup {0}
    BY <1>8 DEF Serving, Request
  <2>2. req[q].due <= made' /\ req[q].due \notin Live'
    BY <2>1, <1>1, <1>3, <1>6 DEF Ids
  <2> QED  BY <2>2, <1>3, <1>15 DEF Serving, Looks, Retries
<1>17. Servings'
  <2> SUFFICES ASSUME NEW p \in Requests, p # q PROVE Serving(req[p])'  BY <1>16 DEF Servings
  <2>1. \A s \in Live' : s \in Ids /\ (s <= made => s \in Live)  BY <1>3, <1>6, <1>7
  <2> QED  BY <2>1, <1>1, <1>3, <1>9, <1>13, StillServing
<1> QED  BY <1>10, <1>11, <1>12, <1>14, <1>17 DEF SInv

LEMMA ConflictServes ==
  ASSUME IInv, SInv, IInv', NEW q \in Requests, Conflict(q)
  PROVE  SInv'
<1>1. /\ req[q].pc = "insert" /\ ~At(q, "forget") /\ NoWrite /\ UNCHANGED <<rows, made, cache>>
      /\ Goto(q, "recache") \/ Goto(q, "relookup") \/ Fail(q)
  BY DEF Conflict, At
<1>2. req[q].due \notin Live /\ (req[q].ident \in Ids => req[q].ident \notin Live)
  BY <1>1 DEF SInv, Servings, Serving
<1> QED  BY <1>1, <1>2, FailServes, GotoServes DEF Looks

LEMMA PlansServes ==
  ASSUME IInv, SInv, IInv', NEW q \in Requests, Plans(q) \/ PlansFail(q)
  PROVE  SInv'
<1>1. At(q, "plans") /\ ~At(q, "forget") /\ UNCHANGED <<made, cache>>
  BY DEF Plans, PlansFail, At
<1>2. TypeOK /\ Serving(req[q]) /\ Sound(req[q])  BY DEF IInv, SInv, Sounds, Servings
<1>3. CASE Plans(q)
  <2> DEFINE r == req[q].hand
  <2>1. r \in Ids /\ r <= made /\ Found(q, r) /\ rows' = [rows EXCEPT ![r].plans = @ + 1]
        /\ req[q].due \notin Live
    BY <1>1, <1>2, <1>3 DEF Plans, Sound, Serving, At
  <2>2. \A s \in Ids : /\ rows'[s].email = rows[s].email /\ rows'[s].external = rows[s].external
                       /\ rows'[s].live = rows[s].live
    BY <2>1, <1>2 DEF TypeOK, Row
  <2> QED  BY <2>1, <2>2, <1>1, FoundServes
<1>4. CASE PlansFail(q)
  BY <1>1, <1>4, FailServes DEF PlansFail
<1> QED  BY <1>3, <1>4

LEMMA UpdateServes ==
  ASSUME IInv, SInv, IInv', NEW q \in Requests, Update(q) \/ Find(q)
  PROVE  SInv'
<1>1. req[q].pc \in {"update", "find"} /\ ~At(q, "forget") /\ NoWrite /\ UNCHANGED <<rows, made, cache>>
  BY DEF Update, Find, At
<1>2. TypeOK /\ RowsInv /\ req[q] \in Request /\ Serving(req[q]) /\ Sound(req[q])
  BY DEF IInv, TypeOK, SInv, Sounds, Servings
<1>3. CASE Update(q)
  <2> DEFINE R == [req[q] EXCEPT !.pc = "forget", !.todo = Dropped(req[q].hand)]
  <2>1. req[q].hand \in Ids /\ req[q].hand <= made  BY <1>2, <1>3 DEF Update, At, Sound
  <2>2. R \in Request  BY <2>1, <1>2, Aliased DEF Request, Steps, Dropped
  <2>3. req' = [req EXCEPT ![q] = R]  BY <1>3 DEF Update
  <2>4. req'[q].pc = "forget" /\ req'[q].due = req[q].due  BY <2>3, <1>2 DEF TypeOK, Request
  <2>5. Serving(req[q])'  BY <2>4, <1>1, <1>2 DEF Serving, Looks, Retries
  <2> QED  BY <1>1, <2>2, <2>3, <2>5, MoveServes
<1>4. CASE Find(q) /\ req[q].ident \in Live
  <2> DEFINE R == [req[q] EXCEPT !.pc = "delete", !.hand = req[q].ident]
  <2>1. R \in Request  BY <1>2, <1>4, LiveMade DEF Request, Steps
  <2>2. req' = [req EXCEPT ![q] = R]  BY <1>4 DEF Find
  <2>3. req'[q].pc = "delete" /\ req'[q].due = req[q].due /\ req'[q].caller = req[q].caller
    BY <2>2, <1>2 DEF TypeOK, Request
  <2>4. req[q].caller = "delete"  BY <1>2, <1>4 DEF Serving, Find, At
  <2>5. Serving(req[q])'  BY <2>3, <2>4, <1>1, <1>2 DEF Serving, Looks, Retries
  <2> QED  BY <1>1, <2>1, <2>2, <2>5, MoveServes
<1>5. CASE Find(q) /\ req[q].ident \notin Live
  BY <1>1, <1>5, FailServes DEF Find
<1> QED  BY <1>3, <1>4, <1>5

LEMMA DeleteRowServes ==
  ASSUME IInv, SInv, IInv', NEW q \in Requests, DeleteRow(q)
  PROVE  SInv'
<1> DEFINE r == req[q].hand
<1>1. /\ At(q, "delete") /\ rows' = [rows EXCEPT ![r].live = FALSE] /\ UNCHANGED <<made, cache, writes>>
      /\ req' = [req EXCEPT ![q].pc = "forget", ![q].todo = Dropped(r)]
      /\ late' = IF \E a \in Aliases : <<a, r>> \in writes THEN late \cup {r} ELSE late
  BY DEF DeleteRow
<1>2. TypeOK /\ RowsInv /\ Entries /\ Names /\ Named /\ DeadWrites /\ DeadEntries
  BY DEF IInv, SInv
<1>3. req[q] \in Request /\ Serving(req[q]) /\ Sound(req[q])
  BY DEF IInv, TypeOK, SInv, Sounds, Servings
<1>4. r \in Ids /\ req[q].caller = "delete" /\ made \in Ids \cup {0}
  BY <1>1, <1>2, <1>3 DEF Sound, Serving, At, TypeOK
<1>5. \A s \in Ids : /\ rows'[s].email = rows[s].email /\ rows'[s].external = rows[s].external
                     /\ rows'[s].live = (rows[s].live /\ s # r)
  BY <1>1, <1>2, <1>4 DEF TypeOK, Row
<1>6. Live' = Live \ {r} /\ Live \subseteq Ids  BY <1>5 DEF Live
<1>7. \A s \in Ids : AliasesOf(s)' = AliasesOf(s)  BY <1>5 DEF AliasesOf
<1>8. Names'  BY <1>1, <1>2, <1>5, <1>6 DEF Names
<1>9. Named'  BY <1>1, <1>2, <1>7 DEF Named, TypeOK
<1>10. DeadWrites'
  <2> SUFFICES ASSUME NEW w \in writes PROVE w[2] \in Live' \cup late'
    BY <1>1 DEF DeadWrites
  <2>1. w[2] \in Live \cup late /\ w \in Aliases \X Ids  BY <1>2 DEF DeadWrites, TypeOK
  <2>2. w[2] = r => r \in late'  BY <2>1, <1>1
  <2> QED  BY <2>1, <2>2, <1>1, <1>6
<1>11. \A p \in Requests : p # q => req'[p] = req[p]  BY <1>1, <1>2 DEF TypeOK
<1>12. /\ req'[q].pc = "forget" /\ req'[q].todo = Dropped(r)
       /\ req'[q].caller = "delete" /\ req'[q].due = req[q].due
  BY <1>1, <1>2, <1>3, <1>4 DEF TypeOK, Request
<1>13. DeadEntries'
  <2> SUFFICES ASSUME NEW a \in Aliases, cache[a] # 0
               PROVE  cache[a] \in Live' \cup late' \/ Forgetting(a)'
    BY <1>1 DEF DeadEntries
  <2>1. cache[a] = r => a \in req'[q].todo  BY <1>2, <1>12 DEF Named, Dropped
  <2>2. Forgetting(a) => Forgetting(a)'  BY <1>1, <1>11 DEF Forgetting, At
  <2>3. a \in req'[q].todo => Forgetting(a)'  BY <1>12 DEF Forgetting, At
  <2> QED  BY <2>1, <2>2, <2>3, <1>1, <1>2, <1>6 DEF DeadEntries
<1>14. Serving(req[q])'  BY <1>1, <1>3, <1>12 DEF Serving, Looks, Retries
<1>15. Servings'
  <2> SUFFICES ASSUME NEW p \in Requests, p # q PROVE Serving(req[p])'  BY <1>14 DEF Servings
  <2>1. made <= made' /\ made' \in Ids \cup {0} /\ late \subseteq late'  BY <1>1, <1>4 DEF Ids
  <2> QED  BY <2>1, <1>1, <1>4, <1>5, <1>6, <1>11, StillServing
<1> QED  BY <1>8, <1>9, <1>10, <1>13, <1>15 DEF SInv

LEMMA DropServes ==
  ASSUME IInv, SInv, IInv', NEW q \in Requests, NEW a \in Aliases, DropEntry(q, a)
  PROVE  SInv'
<1>1. /\ At(q, "forget") /\ cache' = [cache EXCEPT ![a] = 0] /\ UNCHANGED <<rows, made, writes, late>>
      /\ \/ req' = [req EXCEPT ![q] = NoRequest] /\ req[q].todo = {a}
         \/ req' = [req EXCEPT ![q].todo = @ \ {a}]
  BY DEF DropEntry, Fail, NoWrite
<1>2. /\ TypeOK /\ Names /\ Named /\ DeadWrites /\ DeadEntries /\ req[q] \in Request /\ Serving(req[q])
      /\ made \in Ids \cup {0}
  BY DEF IInv, TypeOK, SInv, Servings
<1>3. Live' = Live /\ Live \subseteq Ids /\ \A s : AliasesOf(s)' = AliasesOf(s)
  BY <1>1 DEF Live, AliasesOf
<1>4. \A b \in Aliases : cache'[b] = IF b = a THEN 0 ELSE cache[b]  BY <1>1, <1>2 DEF TypeOK
<1>5. Names' /\ Named' /\ DeadWrites'
  BY <1>1, <1>2, <1>3, <1>4 DEF Names, Named, DeadWrites
<1>6. \A p \in Requests : p # q => req'[p] = req[p]  BY <1>1, <1>2 DEF TypeOK
<1>7. DeadEntries'
  <2> SUFFICES ASSUME NEW b \in Aliases, b # a, Forgetting(b) PROVE Forgetting(b)'
    BY <1>1, <1>2, <1>3, <1>4 DEF DeadEntries
  <2>1. PICK p \in Requests : At(p, "forget") /\ req[p].caller = "delete" /\ b \in req[p].todo
    BY DEF Forgetting
  <2>2. CASE p = q
    <3>1. req' = [req EXCEPT ![q].todo = @ \ {a}]  BY <1>1, <2>1, <2>2
    <3>2. req'[q].pc = req[q].pc /\ req'[q].caller = req[q].caller /\ req'[q].todo = req[q].todo \ {a}
      BY <3>1, <1>2 DEF TypeOK, Request
    <3> QED  BY <3>2, <2>1, <2>2 DEF Forgetting, At
  <2>3. CASE p # q  BY <2>1, <2>3, <1>6 DEF Forgetting, At
  <2> QED  BY <2>2, <2>3
<1>8. Serving(req[q])'
  <2>1. \/ req'[q] = NoRequest
        \/ req'[q].pc = "forget" /\ req'[q].due = req[q].due
    BY <1>1, <1>2 DEF TypeOK, Request, At
  <2>2. CASE req'[q] = NoRequest
    <3>1. Serving(NoRequest)'  BY Reset
    <3> QED  BY <2>2, <3>1 DEF Serving
  <2>3. CASE req'[q].pc = "forget" /\ req'[q].due = req[q].due
    BY <2>3, <1>1, <1>2 DEF Serving, Looks, Retries
  <2> QED  BY <2>1, <2>2, <2>3
<1>9. Servings'
  <2> SUFFICES ASSUME NEW p \in Requests, p # q PROVE Serving(req[p])'  BY <1>8 DEF Servings
  <2>1. made <= made' /\ made' \in Ids \cup {0} /\ late \subseteq late'  BY <1>1, <1>2 DEF Ids
  <2> QED  BY <2>1, <1>1, <1>2, <1>3, <1>4, <1>6, StillServing
<1> QED  BY <1>5, <1>7, <1>9 DEF SInv

LEMMA CacheServes ==
  ASSUME IInv, SInv, IInv', \/ \E w \in Aliases \X Ids : Put(w)
                           \/ \E a \in Aliases : Expire(a)
  PROVE  SInv'
<1>1. /\ UNCHANGED <<rows, made, req, late>> /\ writes' \subseteq writes
      /\ \E a \in Aliases : \/ cache' = [cache EXCEPT ![a] = 0]
                            \/ \E w \in writes : w[1] = a /\ cache' = [cache EXCEPT ![a] = w[2]]
  BY DEF Put, Expire, NoWrite, Same
<1>2. TypeOK /\ Names /\ Named /\ DeadWrites /\ DeadEntries /\ Servings /\ made \in Ids \cup {0}
  BY DEF IInv, TypeOK, SInv
<1>3. Live' = Live /\ Live \subseteq Ids /\ (\A s : AliasesOf(s)' = AliasesOf(s))
      /\ (\A a : Forgetting(a)' <=> Forgetting(a))
  BY <1>1 DEF Live, AliasesOf, Forgetting, At
<1>4. \A a \in Aliases : cache'[a] \in {cache[a], 0} \/ \E w \in writes : w[1] = a /\ cache'[a] = w[2]
  BY <1>1, <1>2 DEF TypeOK
<1>5. Names' /\ Named' /\ DeadWrites' /\ DeadEntries'
  BY <1>1, <1>2, <1>3, <1>4 DEF Names, Named, DeadWrites, DeadEntries
<1>6. Servings'
  <2> SUFFICES ASSUME NEW p \in Requests PROVE Serving(req[p])'  BY DEF Servings
  <2>1. \A a \in Aliases : cache'[a] \in {cache[a], 0} \/ cache'[a] \in Live' \cup late'
    BY <1>1, <1>2, <1>3, <1>4 DEF DeadWrites
  <2>2. made <= made' /\ made' \in Ids \cup {0} /\ late \subseteq late' /\ req'[p] = req[p]
    BY <1>1, <1>2 DEF Ids
  <2> QED  BY <2>1, <2>2, <1>1, <1>3, StillServing
<1> QED  BY <1>5, <1>6 DEF SInv

LEMMA StepServes == IInv /\ SInv /\ IInv' /\ [Next]_vars => SInv'
<1> SUFFICES ASSUME IInv, SInv, IInv', [Next]_vars PROVE SInv'  OBVIOUS
<1>1. CASE UNCHANGED vars
  <2>1. Servings'
    BY <1>1 DEF vars, SInv, Servings, Serving, Live, Key, Bearing, ById, Bears, Normal
  <2> QED
    BY <1>1, <2>1 DEF vars, SInv, Names, Named, DeadWrites, DeadEntries, Live, AliasesOf, Forgetting, At
<1>2. ASSUME NEW q \in Requests, Work(q) PROVE SInv'
  BY <1>2, LookServes, InsertServes, ConflictServes, PlansServes, UpdateServes, DeleteRowServes,
     DropServes DEF Work
<1> QED  BY <1>1, <1>2, StartServes, CacheServes DEF Next

(* A request is answered with the customer that bears its name, through    *)
(* races, cached entries and deletions (customer-resolution.ts:305-359).   *)
THEOREM ServesOwnerEver == Spec => []ServesOwner
<1>1. IInv /\ SInv => ServesOwner
  BY DEF SInv, Servings, Serving, ServesOwner, At
<1> QED  BY InitInv, StepKeeps, InitServes, StepServes, <1>1, PTL DEF Spec
=============================================================================
