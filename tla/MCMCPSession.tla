---------------------------- MODULE MCMCPSession ----------------------------
EXTENDS MCPSession, TLC

\* Searchers and tokens are interchangeable model values.
Symmetry == Permutations(Searchers) \cup Permutations(Tokens)
=============================================================================
