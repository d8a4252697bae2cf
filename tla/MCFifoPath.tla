----------------------------- MODULE MCFifoPath -----------------------------
EXTENDS FifoPath
=============================================================================
