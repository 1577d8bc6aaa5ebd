----------------------------- MODULE MCRequests -----------------------------
EXTENDS Requests

CONSTANTS c1, c2
=============================================================================
