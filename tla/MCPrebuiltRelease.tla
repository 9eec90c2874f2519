--------------------------- MODULE MCPrebuiltRelease ---------------------------
(***************************************************************************)
(* Small instance: two documents, two contracts, two corpora with          *)
(* different amenity lists; the checkpoint volume, one more, and one that  *)
(* something else made.                                                    *)
(***************************************************************************)
EXTENDS PrebuiltRelease

ListOf == [k \in Corpora |-> k]
================================================================================
