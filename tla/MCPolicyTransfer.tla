-------------------------- MODULE MCPolicyTransfer --------------------------
\* Checking PolicyTransfer for every shape and placement within the bounds.
EXTENDS PolicyTransfer
=============================================================================
