-------------------------- MODULE MCReleaseReader --------------------------
(* The instance of ReleaseReader for TLC.                                  *)
EXTENDS ReleaseReader
=============================================================================
