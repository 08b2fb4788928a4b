-------------------------- MODULE MCDProxyFactory --------------------------
\* DProxyFactory on three callers of two shards; one caller may be dropped.
EXTENDS DProxyFactory
=============================================================================
