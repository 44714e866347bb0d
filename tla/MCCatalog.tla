----------------------------- MODULE MCCatalog -----------------------------
(* Bounds for Catalog: three videos, one of them perhaps without a         *)
(* thumbnail, and two slots, of which one goes by tags.                    *)
EXTENDS Catalog, TLC
CONSTANTS v1, v2, v3
Tags == v1 :> 0 @@ v2 :> 1 @@ v3 :> 1
Alike == Permutations(Conn) \cup Permutations(Password)
=============================================================================
