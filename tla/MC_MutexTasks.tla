--------------------------- MODULE MC_MutexTasks ---------------------------
EXTENDS MutexTasks
=============================================================================
