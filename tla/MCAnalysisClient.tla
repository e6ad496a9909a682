-------------------------- MODULE MCAnalysisClient --------------------------
EXTENDS AnalysisClient, TLC

MCSymmetry == Permutations(Jobs) \cup Permutations(Writers)
=============================================================================
