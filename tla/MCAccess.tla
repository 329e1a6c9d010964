------------------------------- MODULE MCAccess -------------------------------
(* Instances of Access for TLC. *)
EXTENDS Access, TLC

Interchangeable == Permutations(Clients) \cup Permutations(Permissions)
=============================================================================
