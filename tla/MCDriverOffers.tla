--------------------------- MODULE MCDriverOffers ---------------------------
EXTENDS DriverOffers
=============================================================================
