-------------------------------- MODULE Totals --------------------------------
(***************************************************************************)
(* What the reports add up: the values of a function.  A value is a number *)
(* of things, and the total is how many there are of all of them.          *)
(***************************************************************************)
EXTENDS Integers, FiniteSets

Items(f, S) == UNION {{x} \X (1..f[x]) : x \in S}

Total(f) == Cardinality(Items(f, DOMAIN f))
=============================================================================
