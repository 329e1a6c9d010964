----------------------------- MODULE MCSessions -----------------------------
(* Instances of Sessions for TLC; the requests are interchangeable. *)
EXTENDS Sessions, TLC

Interchangeable == Permutations(Clients)
=============================================================================
