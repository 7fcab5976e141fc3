--------------------------- MODULE MCCustomerRide ---------------------------
EXTENDS CustomerRide
=============================================================================
