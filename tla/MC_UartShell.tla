---------------------------- MODULE MC_UartShell ----------------------------
EXTENDS UartShell
=============================================================================
