---------------------------- MODULE MCEventually ----------------------------
(* TLC instance of Eventually: a ticket whose assignee has left, so that the other one of
   the staff is told. *)
EXTENDS Eventually

AssigneeLeft == {[assigned |-> "s1", active |-> {"s2", "c"}]}
=============================================================================
