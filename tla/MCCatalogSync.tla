--------------------------- MODULE MCCatalogSync ---------------------------
(* One provider that rotates prices and one without products for packs.    *)
EXTENDS CatalogSync, TLC

Alike == Permutations(Actors)
=============================================================================
