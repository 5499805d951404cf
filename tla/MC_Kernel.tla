----------------------------- MODULE MC_Kernel -----------------------------
EXTENDS Kernel
=============================================================================
