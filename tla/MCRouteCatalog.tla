--------------------------- MODULE MCRouteCatalog ---------------------------
(* Instances of RouteCatalogClaims for TLC.                                *)
EXTENDS RouteCatalogClaims, TLC

CONSTANTS c1, c2, i1, i2, n1, n2, b1

Clients == {c1, c2}
Ids == {i1, i2}
Numbers == {n1, n2}
Buses == {b1}

\* Clients, ids and numbers are interchangeable.
Symmetry == Permutations(Clients) \union Permutations(Ids) \union Permutations(Numbers)
=============================================================================
