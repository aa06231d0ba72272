---------------------------- MODULE MCDriverStore ---------------------------
EXTENDS DriverStore
=============================================================================
