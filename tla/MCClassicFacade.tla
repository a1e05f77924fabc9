-------------------------- MODULE MCClassicFacade --------------------------
(* Model values and bounds for ClassicFacade.                              *)
EXTENDS ClassicFacade

CONSTANTS s1, s2, none

MCRpcs == {s1, s2}
=============================================================================
