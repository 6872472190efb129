----------------------------- MODULE UsageRating -----------------------------
(***************************************************************************)
(* What metered usage costs (apps/api/src/lib/usage-rating.ts).  A price   *)
(* is counted over a whole period: an invoice in the middle of a period    *)
(* asks for the difference of two ratings, of all usage and of what was    *)
(* invoiced before.                                                        *)
(***************************************************************************)
EXTENDS Integers, Sequences, SequencesExt, FiniteSetsExt

NoBound == 0   \* upTo: null

Tier == [upTo : Nat, unitPrice : Nat, flatFee : Nat]

\* validatePricingTiers: bounds ascend, only the last tier may have none.
Ascending(tiers) ==
  \A i \in DOMAIN tiers : \/ i = Len(tiers) /\ tiers[i].upTo = NoBound
                          \/ tiers[i].upTo > (IF i = 1 THEN 0 ELSE tiers[i - 1].upTo)

\* The columns of a plan's feature that price it; price is overagePrice or pricePerUnit,
\* whichever getPackagePrice prefers.
Pricing == [model : {"included", "usage_based", "prepaid"}, included : Nat,
            rating : {"package", "graduated", "volume"},
            price : Nat, billingUnits : Nat, tiers : Seq(Tier)]

BillableQuantity(p, usage) ==
  CASE p.model = "usage_based" -> usage
    [] p.model = "included" -> Max({0, usage - p.included})
    [] OTHER -> 0

\* Math.ceil
Packages(quantity, billingUnits) ==
  LET units == Max({1, billingUnits}) IN (quantity + units - 1) \div units

\* findTierIndex: a quantity beyond every bound belongs to the last tier.
TierIndex(quantity, tiers) ==
  Min({i \in DOMAIN tiers : \/ tiers[i].upTo = NoBound \/ quantity <= tiers[i].upTo
                            \/ i = Len(tiers)})

\* Units and amount of each tier reached, as the invoice line breaks them down.
VolumeBreakdown(quantity, tiers) ==
  LET reached == TierIndex(quantity, tiers)
  IN [i \in {reached} |-> [units |-> quantity,
                           amount |-> quantity * tiers[i].unitPrice + tiers[i].flatFee]]

\* The loop over the tiers: units not placed yet, the bound of the tier before.  A tier
\* that gets no units has no line: it costs nothing, its flat fee included.
NoLine == [units |-> 0, amount |-> 0]
GraduatedBreakdown(quantity, tiers) ==
  LET Place(acc, i) ==
        LET open == tiers[i].upTo = NoBound \/ i = Len(tiers)
            units == IF open THEN acc.left ELSE Min({acc.left, tiers[i].upTo - acc.bound})
            line == [units |-> units, amount |-> units * tiers[i].unitPrice + tiers[i].flatFee]
        IN [left |-> acc.left - Max({0, units}),
            bound |-> IF open THEN acc.bound ELSE tiers[i].upTo,
            lines |-> IF units > 0 THEN [acc.lines EXCEPT ![i] = line] ELSE acc.lines]
      none == [i \in DOMAIN tiers |-> NoLine]
  IN FoldLeftDomain(Place, [left |-> quantity, bound |-> 0, lines |-> none], tiers).lines

Sum(breakdown) == MapThenSumSet(LAMBDA i : breakdown[i].amount, DOMAIN breakdown)

\* rateUsage, its amount
Amount(p, usage) ==
  LET quantity == BillableQuantity(p, usage)
  IN IF quantity = 0 \/ (p.rating # "package" /\ p.tiers = <<>>) THEN 0
     ELSE CASE p.rating = "package" -> Packages(quantity, p.billingUnits) * p.price
            [] p.rating = "volume" -> Sum(VolumeBreakdown(quantity, p.tiers))
            [] p.rating = "graduated" -> Sum(GraduatedBreakdown(quantity, p.tiers))

\* Wrong: the units rated before are rated again
RateAll(p, previous, usage) ==
  [quantity |-> BillableQuantity(p, usage), amount |-> Amount(p, usage)]

RateUsageDelta(p, previous, usage) ==
  [quantity |-> BillableQuantity(p, usage) - BillableQuantity(p, previous),
   amount |-> Amount(p, usage) - Amount(p, previous)]
=============================================================================
