------------------------------ MODULE MCQuota ------------------------------
EXTENDS QuotaRefinement, TLC

\* Two packs of different sizes: the first one runs dry while both are valid.
MCPackSize == <<1, 2>>

Symmetry == Permutations(Keys)

=============================================================================
