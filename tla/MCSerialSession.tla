-------------------------- MODULE MCSerialSession ---------------------------
EXTENDS SerialSession
=============================================================================
