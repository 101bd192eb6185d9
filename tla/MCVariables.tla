---------------------------- MODULE MCVariables ----------------------------
EXTENDS VariableFrames

\* Values are only compared.
Swaps == Permutations(Values)
=============================================================================
