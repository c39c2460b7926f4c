----------------------------- MODULE MCCanMain -----------------------------
EXTENDS CanMain
=============================================================================
