---------------------------- MODULE MCAdminPage -----------------------------
(* AdminPage for TLC: one table of two rows, and the dialog.                *)
EXTENDS AdminPage, TLC
CONSTANTS routes, i1, i2
Kinds == {routes}
Ids == {i1, i2}
Tables == i1 :> routes @@ i2 :> routes
Symmetric == Permutations(Ids)
=============================================================================
