------------------------------ MODULE MCStream ------------------------------
EXTENDS Stream, TLC

CONSTANTS x, y, r1, r2

MCPackets == {<<>>, <<x, y>>}
MCSizes == (r1 :> {1}) @@ (r2 :> {0, 3})
=============================================================================
