----------------------------- MODULE MCTrackFlow -----------------------------
(* Plans of three kinds: credits of a credit system whose overage is charged *)
(* up to a cap, a feature that blocks and is paid by prepaid credits, and a  *)
(* usage_based feature without limit.                                        *)
EXTENDS TrackFlow

Included ==
  [limit |-> 3, interval |-> 0, resetOnEnable |-> TRUE, rolloverEnabled |-> FALSE,
   rolloverMaxBalance |-> Unlimited, creditCost |-> 0,
   scope |-> [legacy |-> FALSE, ids |-> {"sub", "basic"}]]
Kept == [Included EXCEPT !.resetOnEnable = FALSE, !.scope = [legacy |-> FALSE, ids |-> {}]]
Metered == [Kept EXCEPT !.limit = Unlimited]

SystemPlan == [config |-> Included, creditSystem |-> TRUE, usageBased |-> FALSE,
               overage |-> "charge", maxOverageUnits |-> 2]
PrepaidPlan == [config |-> [Kept EXCEPT !.creditCost = 1], creditSystem |-> FALSE,
                usageBased |-> FALSE, overage |-> "block", maxOverageUnits |-> Unlimited]
MeteredPlan == [config |-> Metered, creditSystem |-> FALSE, usageBased |-> TRUE,
                overage |-> "charge", maxOverageUnits |-> 3]

MCPlans == {SystemPlan, PrepaidPlan, MeteredPlan}
MCFeatures == {"feature"}
MCOffers == [f \in MCFeatures |-> {p.config : p \in MCPlans}]
==============================================================================
