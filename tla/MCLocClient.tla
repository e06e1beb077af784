---------------------------- MODULE MCLocClient ----------------------------
EXTENDS LocClient
=============================================================================
