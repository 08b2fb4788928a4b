----------------------------- MODULE MCKvStore -----------------------------
\* KvStore on one contended key.
EXTENDS KvStore
=============================================================================
