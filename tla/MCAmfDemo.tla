------------------------------ MODULE MCAmfDemo ------------------------------
\* Two workloads.
EXTENDS AmfDemo
=============================================================================
