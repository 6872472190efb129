---------------------------- MODULE MCUsageMeter ----------------------------
(* One customer with two features: credits, whose plan changes under the    *)
(* same scope (the key from its legacy to its versioned form, the limit,    *)
(* the period, the cost), and calls, whose plan change alters the scope.    *)
EXTENDS UsageMeter

Basic == [limit |-> 1, interval |-> 2, resetOnEnable |-> FALSE,
          rolloverEnabled |-> TRUE, rolloverMaxBalance |-> 1, creditCost |-> 0,
          scope |-> [legacy |-> TRUE, ids |-> {"basic"}]]
Renewed == [Basic EXCEPT !.limit = 2, !.interval = 1, !.creditCost = 2,
                         !.scope = [legacy |-> FALSE, ids |-> {"sub", "basic"}]]
Calls == [Basic EXCEPT !.resetOnEnable = TRUE, !.rolloverEnabled = FALSE,
                       !.scope = [legacy |-> FALSE, ids |-> {"sub", "calls"}]]
Metered == [Calls EXCEPT !.limit = Unlimited, !.resetOnEnable = FALSE,
                         !.scope = [legacy |-> FALSE, ids |-> {}]]

MCFeatures == {"credits", "calls"}
MCOffers == [f \in MCFeatures |->
  IF f = "credits" THEN {Basic, Renewed} ELSE {Calls, Metered}]
=============================================================================
