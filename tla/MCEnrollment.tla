---------------------------- MODULE MCEnrollment ----------------------------
\* One node and its agent.
EXTENDS Enrollment
=============================================================================
