-------------------------- MODULE MC_InversionDemo --------------------------
EXTENDS InversionDemo
=============================================================================
