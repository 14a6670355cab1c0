-------------------------- MODULE MCBrowserSession --------------------------
EXTENDS BrowserSession, TLC

Symmetry == Permutations(Tabs) \cup Permutations(SessionIds)
            \cup Permutations(Calls) \cup Permutations(Exchanges)
=============================================================================
