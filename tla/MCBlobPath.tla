----------------------------- MODULE MCBlobPath -----------------------------
(***************************************************************************)
(* Small pools, sources and consumers for BlobPath.                        *)
(***************************************************************************)
EXTENDS BlobPath, TLC

CONSTANTS b1, b2, b3, x, y

None == {}
=============================================================================
