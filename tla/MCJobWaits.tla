----------------------------- MODULE MCJobWaits -----------------------------
EXTENDS Jobs
=============================================================================
