-------------------------- MODULE MCNodeOperations --------------------------
\* Operations of two types on one node.
EXTENDS NodeOperations

MCTypes == {"restart_core", "probe_core"}
=============================================================================
