----------------------------- MODULE MC_Daemon -----------------------------
EXTENDS Daemon
=============================================================================
