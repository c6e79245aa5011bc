------------------------- MODULE MCGrubBootControl -------------------------
EXTENDS GrubBootControl, TLC

=============================================================================
