------------------------------- MODULE Quota -------------------------------
(***************************************************************************)
(* What a usage meter promises a customer for each feature: an allowance,  *)
(* served at most once over; a new one only at the end of a period, unless *)
(* a configuration says to begin anew; and into the new period no more is  *)
(* carried than was left.  Module UsageMeter implements this with calls,   *)
(* an alarm and an object that may die.                                    *)
(***************************************************************************)
EXTENDS Integers

CONSTANTS
  Features,
  Limits,     \* of each feature: what a configuration allows in a period
  Carries,    \* how much it lets a period carry into the next
  Periods,    \* how long its period is, 0 for one that never ends
  Anew,       \* the features that a configuration may grant anew
  Longest,    \* no period is longer
  Unlimited

\* Of each feature that was granted: the best limit since the grant, what was
\* carried into it, what was spent since, and how long ago the period began.
VARIABLE allowance

vars == <<allowance>>

Granted == DOMAIN allowance

Covers(limit, carried, n) ==
  Unlimited \in {limit, carried} \/ (n # Unlimited /\ n <= limit + carried)
NoMore(a, b) == b = Unlimited \/ (a # Unlimited /\ a <= b)

Within(q) == Covers(q.limit, q.carried, q.spent)

\* The limit a configuration may have raised it to.
Raised(f, limit) == {limit} \cup {l \in Limits[f] : NoMore(limit, l)}

(* Only the allowances of F may change, and theirs alone may begin. *)
Only(F) ==
  /\ Granted' = Granted \cup F
  /\ \A f \in Granted \ F : allowance'[f] = allowance[f]

(* The first grant, or one that a configuration begins. *)
Grant(f) ==
  LET new == allowance'[f]
  IN  /\ f \notin Granted \/ f \in Anew
      /\ new.limit \in Limits[f] /\ new.carried = 0 /\ new.elapsed = 0
      /\ Within(new)

(* Units are served, the limit is raised, or the period is begun again by  *)
(* a configuration with another one: none of these gives units back.       *)
Serve(f) ==
  LET old == allowance[f]
      new == allowance'[f]
  IN  /\ f \in Granted
      /\ new.limit \in Raised(f, old.limit) /\ new.carried = old.carried
      /\ old.spent <= new.spent /\ Within(new)
      /\ \/ new.elapsed = old.elapsed
         \/ new.elapsed = 0 /\ \E p, o \in Periods[f] : p # o

(* A period has ended and the next begins. *)
Refill(f) ==
  LET old == allowance[f]
      new == allowance'[f]
  IN  /\ f \in Granted
      /\ \E p \in Periods[f] : 0 < p /\ p <= old.elapsed
      /\ new.limit \in Limits[f] /\ new.elapsed = 0
      /\ \E most \in Carries[f] : NoMore(new.carried, most)
      /\ \E limit \in Raised(f, old.limit) :
           IF new.carried = Unlimited THEN Unlimited \in {limit, old.carried}
           ELSE Covers(limit, old.carried, old.spent + new.carried)
      /\ Within(new)

Older(q) == [q EXCEPT !.elapsed = IF @ < Longest THEN @ + 1 ELSE @]
Tick == allowance' = [f \in Granted |-> Older(allowance[f])]

Init == Granted = {}

Next ==
  \/ \E f \in Features : Only({f}) /\ (Grant(f) \/ Serve(f))
  \/ \E F \in SUBSET Granted : Only(F) /\ (\A f \in F : Refill(f))
  \/ Tick

Spec == Init /\ [][Next]_vars
=============================================================================
