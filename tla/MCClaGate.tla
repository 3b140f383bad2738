------------------------------ MODULE MCClaGate ------------------------------
EXTENDS ClaGate
=============================================================================
