----------------------------- MODULE MCRequests -----------------------------
EXTENDS Requests

CONSTANTS r1, r2
=============================================================================
