--------------------------- MODULE MCMarginfiSync ---------------------------
EXTENDS MarginfiSync

CONSTANTS s1, s2, f1

MCStarts == {s1, s2}
MCForces == {f1}
=============================================================================
