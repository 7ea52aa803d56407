------------------------------ MODULE MCEvtDemo ------------------------------
\* Two runs of the demo, at the same time or one after the other.
EXTENDS EvtDemo
=============================================================================
