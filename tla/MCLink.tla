--------------------------------- MODULE MCLink ---------------------------------
(* Instance of PipeLink for TLC.                                           *)
EXTENDS PipeLink
=============================================================================
