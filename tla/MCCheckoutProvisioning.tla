----------------------- MODULE MCCheckoutProvisioning -----------------------
(***************************************************************************)
(* An instance of CheckoutProvisioning for TLC: two orders of one          *)
(* customer, two notifications handled at once, one fault.                 *)
(***************************************************************************)
EXTENDS CheckoutProvisioning, TLC
=============================================================================
