------------------------- MODULE MCWebhookDelivery --------------------------
(***************************************************************************)
(* Instances of WebhookDelivery for TLC.  Two rows and two flushes for the *)
(* safety properties: rows meet in a batch, flushes meet on a row.  The    *)
(* fairness of Spec plays no part in them, so they are checked over        *)
(* SafetySpec, with interchangeable flushes.  MCEventually checks the      *)
(* liveness, with two flushes on one row and no symmetry.                  *)
(***************************************************************************)
EXTENDS WebhookDelivery, TLC

SafetySpec == Init /\ [][Next]_vars

Symmetry == Permutations(Flushers)
=============================================================================
