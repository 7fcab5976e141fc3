---------------------------- MODULE MCDriverTrip ----------------------------
EXTENDS DriverTrip
=============================================================================
