------------------------- MODULE MCHandshakeContext -------------------------
\* HandshakeContext on a few callers of one connection.
EXTENDS HandshakeContext
=============================================================================
