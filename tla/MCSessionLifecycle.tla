-------------------------- MODULE MCSessionLifecycle --------------------------
EXTENDS SessionLifecycle, TLC

Interchangeable == Permutations(Reqs) \cup Permutations(Sids) \cup Permutations(Topics)
=============================================================================
