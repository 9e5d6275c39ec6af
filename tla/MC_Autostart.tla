---------------------------- MODULE MC_Autostart ----------------------------
EXTENDS Autostart
=============================================================================
