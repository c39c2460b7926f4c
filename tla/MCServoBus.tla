----------------------------- MODULE MCServoBus -----------------------------
EXTENDS ServoBus
CONSTANTS engaged, pulled, factory, spare
=============================================================================
