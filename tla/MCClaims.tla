------------------------------ MODULE MCClaims ------------------------------
EXTENDS MCEndSession, SessionClaims
=============================================================================
