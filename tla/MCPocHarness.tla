---------------------------- MODULE MCPocHarness ----------------------------
\* PocHarness on a few cases, each of any kind, and a few connections.
EXTENDS PocHarness

AllHandlers == {Plain, UntilEof, HeaderFirst}
=============================================================================
