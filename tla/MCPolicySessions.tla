-------------------------- MODULE MCPolicySessions --------------------------
\* Constants for TLC's instances of PolicySessions.
EXTENDS PolicySessions, TLC

\* Drivers are interchangeable.
DriverSymmetry == Permutations(Drivers)
=============================================================================
