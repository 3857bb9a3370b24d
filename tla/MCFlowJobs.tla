----------------------------- MODULE MCFlowJobs -----------------------------
\* Checking FlowJobs under fairness.
EXTENDS FlowJobs
=============================================================================
