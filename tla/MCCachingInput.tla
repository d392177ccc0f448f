--------------------------- MODULE MCCachingInput ---------------------------
(* Instances of CachingInput.                                              *)
EXTENDS CachingInput

MCNoFrame == <<0, 0>>
=============================================================================
