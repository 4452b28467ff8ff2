------------------------- MODULE MCResourceVersions -------------------------
EXTENDS ResourceVersions
CONSTANTS p, q, r
=============================================================================
