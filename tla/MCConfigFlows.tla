--------------------------- MODULE MCConfigFlows ---------------------------
EXTENDS ConfigFlows, TLC

\* Which dialog is which does not matter, nor which address: no property is of
\* liveness, and entries are told apart by their numbers.
MCSymmetry == Permutations(Flows) \union Permutations(Hosts)
=============================================================================
