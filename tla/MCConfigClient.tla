--------------------------- MODULE MCConfigClient ---------------------------
EXTENDS ConfigClient, TLC

CallerSymmetry == Permutations(Callers)
=============================================================================
