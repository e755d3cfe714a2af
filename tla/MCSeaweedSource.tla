-------------------------- MODULE MCSeaweedSource --------------------------
(* SeaweedSource on small instances. *)
EXTENDS SeaweedSource

CONSTANTS k1, k2
=============================================================================
