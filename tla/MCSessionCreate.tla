---------------------------- MODULE MCSessionCreate ----------------------------
EXTENDS SessionCreate
=============================================================================
