--------------------------- MODULE MCEvmCoverage ---------------------------
EXTENDS EvmCoverage, TLC

GenerationSymmetry == Permutations(Generations)
=============================================================================
