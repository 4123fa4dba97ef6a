---------------------------- MODULE MCPrinterFSM ----------------------------
\* Small data sets for PrinterFSM and PrinterLedger.
EXTENDS PrinterLedger, TLC

MCWeights == {1, 3}   \* grams, none of them negative

Symmetry == Permutations(Jobs) \cup Permutations(Filaments)
============================================================================
