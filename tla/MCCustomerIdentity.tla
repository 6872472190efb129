------------------------- MODULE MCCustomerIdentity -------------------------
(* One address, also written in capitals; the requests are alike. *)
EXTENDS CustomerIdentity, TLC

CONSTANTS ann, Ann

MCLower == [m \in Mails |-> ann]
Alike == Permutations(Requests)
=============================================================================
