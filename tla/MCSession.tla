----------------------------- MODULE MCSession -----------------------------
EXTENDS DerivationSession
CONSTANTS now, earlier
=============================================================================
