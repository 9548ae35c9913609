------------------------------ MODULE MCBoxArt ------------------------------
EXTENDS BoxArt

CONSTANTS g1, c1
=============================================================================
