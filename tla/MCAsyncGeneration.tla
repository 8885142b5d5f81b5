------------------------- MODULE MCAsyncGeneration --------------------------
(***************************************************************************)
(* Small instances of AsyncGeneration, with the jobs of MCDomainWorker.    *)
(***************************************************************************)
EXTENDS MCDomainWorker, AsyncGeneration
=============================================================================
