-------------------------- MODULE MCMemoryWriters --------------------------
\* A project, a sensitive project, a preference; one job of each kind.
EXTENDS MemoryWriters, TLC
=============================================================================
