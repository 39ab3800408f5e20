--------------------------- MODULE MCBuildMetadata ---------------------------
(***************************************************************************)
(* An instance of BuildMetadata: one file, a second branch and a tag.      *)
(***************************************************************************)
EXTENDS BuildMetadata

CONSTANTS main, dev, v1
==============================================================================
