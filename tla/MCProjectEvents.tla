-------------------------- MODULE MCProjectEvents --------------------------
EXTENDS ProjectEvents
CONSTANTS r1, r2, b1
=============================================================================
