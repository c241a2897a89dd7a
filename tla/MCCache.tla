------------------------------ MODULE MCCache -------------------------------
EXTENDS Cache
=============================================================================
