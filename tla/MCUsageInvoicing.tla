-------------------------- MODULE MCUsageInvoicing --------------------------
(***************************************************************************)
(* TLC instances of UsageInvoicing.  Up to three records of one feature    *)
(* (two invoices and a unit left over) and one of another are tracked.     *)
(***************************************************************************)
EXTENDS UsageInvoicing, TLC

CONSTANTS r1, r2, r3, r4, emails, tokens

\* Tokens are used by the fourth record, where there is such a feature.
RecordFeature == [r \in Records |-> IF r = r4 /\ tokens \in Features THEN tokens ELSE emails]

\* One email is included and the next is in a dearer band than the last; tokens come in twos.
Bands == <<[upTo |-> 1, unitPrice |-> 3, flatFee |-> 1],
           [upTo |-> NoBound, unitPrice |-> 2, flatFee |-> 0]>>
Prices == [f \in Features |->
  IF f = emails
  THEN [model |-> "included", included |-> 1, rating |-> "graduated", price |-> 0,
        billingUnits |-> 1, tiers |-> Bands]
  ELSE [model |-> "usage_based", included |-> 0, rating |-> "package", price |-> 3,
        billingUnits |-> 2, tiers |-> <<>>]]

\* Emails are priced by the band reached.
VolumePrices == [f \in Features |-> [Prices[f] EXCEPT !.rating = "volume", !.included = 0,
                                                     !.tiers = Bands]]

\* Graduated and volume prices against their definition unit by unit (pricing docs): each
\* unit costs what its own band says, or what the last unit's band says.
Table == <<[upTo |-> 2, unitPrice |-> 5, flatFee |-> 0], [upTo |-> 3, unitPrice |-> 0, flatFee |-> 7],
           [upTo |-> 6, unitPrice |-> 1, flatFee |-> 2]>>
Rating(model) == [model |-> "usage_based", included |-> 0, rating |-> model, price |-> 0,
                  billingUnits |-> 1, tiers |-> Table]
Reached(n) == {TierIndex(m, Table) : m \in 1 .. n}
ASSUME GraduatedUnitByUnit ==
  \A n \in 0 .. 9 :
    Amount(Rating("graduated"), n) =
      MapThenSumSet(LAMBDA m : Table[TierIndex(m, Table)].unitPrice, 1 .. n)
      + MapThenSumSet(LAMBDA i : Table[i].flatFee, Reached(n))
ASSUME VolumeByLastUnit ==
  \A n \in 1 .. 9 :
    LET tier == Table[TierIndex(n, Table)]
    IN Amount(Rating("volume"), n) = n * tier.unitPrice + tier.flatFee

\* Records of a feature and generators of a trigger are interchangeable.
Interchangeable ==
  UNION {Permutations({r \in Records : RecordFeature[r] = f}) : f \in Features}
  \cup Permutations(Manual) \cup Permutations(Threshold)
=============================================================================
