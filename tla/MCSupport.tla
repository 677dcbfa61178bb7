----------------------------- MODULE MCSupport -----------------------------
EXTENDS Support

CONSTANTS u1, k1, k2
=============================================================================
