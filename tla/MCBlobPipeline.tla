---------------------------- MODULE MCBlobPipeline ----------------------------
(* The release and one other build of the DLL: enough for a DLL and a        *)
(* sidecar that do not belong together.                                      *)
EXTENDS BlobPipeline
==============================================================================
