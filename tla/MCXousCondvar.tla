--------------------------- MODULE MCXousCondvar ---------------------------
\* XousCondvar on a few interchangeable waiters and notifiers.
EXTENDS XousCondvar, TLC

ThreadSymmetry == Permutations(Waiters) \cup Permutations(Notifiers)
=============================================================================
