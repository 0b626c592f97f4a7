--------------------------- MODULE MCDigestWindow ---------------------------
(* Instances of a digest window for TLC.                                   *)
EXTENDS DigestWindow

CONSTANTS n1, n2, n3, w1, w2
=============================================================================
