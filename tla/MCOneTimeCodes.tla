--------------------------- MODULE MCOneTimeCodes ---------------------------
(* Instances of OneTimeCodes for TLC; the requests are interchangeable. *)
EXTENDS OneTimeCodes, TLC

Interchangeable == Permutations(Clients)
=============================================================================
