------------------------------ MODULE MCAmfProxy ------------------------------
\* The proxy and the two components of proxied.xml.
EXTENDS AmfProxy
=============================================================================
