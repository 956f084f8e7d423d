--------------------------- MODULE MCFilterLoading ---------------------------
(***************************************************************************)
(* FilterLoading for TLC: the additional engine, whose static provider is  *)
(* AdBlockCustomFiltersProvider, with a few subscriptions.                 *)
(***************************************************************************)
EXTENDS FilterLoading, TLC

Symmetry == Permutations(Subs)
=============================================================================
