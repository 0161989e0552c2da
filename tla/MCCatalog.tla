------------------------------ MODULE MCCatalog ------------------------------
(* Catalog for TLC: IDs, servers, tabs and requests are interchangeable.    *)
EXTENDS Catalog, TLC

Symmetry ==
    Permutations(Ids) \cup Permutations(Tabs)
        \cup Permutations(Requests)
=============================================================================
