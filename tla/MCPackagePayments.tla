------------------------- MODULE MCPackagePayments -------------------------
(* PackagePayments for TLC: checkout requests are alike, and so are workers. *)
EXTENDS PackagePayments, TLC

Symmetry == Permutations(Checkouts) \cup Permutations(Workers)
=============================================================================
