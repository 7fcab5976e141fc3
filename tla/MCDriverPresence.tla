-------------------------- MODULE MCDriverPresence --------------------------
EXTENDS DriverPresence
=============================================================================
