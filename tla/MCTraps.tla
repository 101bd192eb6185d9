------------------------------ MODULE MCTraps ------------------------------
EXTENDS TrapsHistory
=============================================================================
