------------------------- MODULE MCGenerationStream -------------------------
(***************************************************************************)
(* Small instances of GenerationStream: the constants are numbers and are  *)
(* given in the configurations.                                            *)
(***************************************************************************)
EXTENDS GenerationStream
=============================================================================
