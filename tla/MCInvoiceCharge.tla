-------------------------- MODULE MCInvoiceCharge --------------------------
(* Instances of InvoiceCharge for TLC. *)
EXTENDS InvoiceCharge, TLC

ProcessSymmetry ==
  Permutations(ThresholdWorkflows) \cup Permutations(Workflows \ ThresholdWorkflows)
    \cup Permutations(Requests)
=============================================================================
