---------------------------- MODULE MCScanQuota -----------------------------
(***************************************************************************)
(* Instances of ScanQuota for TLC.  Three calls over two client ids: two   *)
(* of them always race for one id.  Calls and ids are interchangeable, and *)
(* every property checked with the symmetry is a safety property.          *)
(***************************************************************************)
EXTENDS ScanQuota, TLC

Symmetry == Permutations(Requests) \cup Permutations(ClientIds)
=============================================================================
