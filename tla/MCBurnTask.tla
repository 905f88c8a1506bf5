----------------------------- MODULE MCBurnTask -----------------------------
EXTENDS BurnTask
=============================================================================
