----------------------------- MODULE TicketBook -----------------------------
(***************************************************************************)
(* What the support desk promises of a ticket, whatever requests run:      *)
(* conversations move along the workflow, a customer's message puts the    *)
(* ticket in the staff's court and is never left behind by the auto-close, *)
(* and a closed ticket stays closed.  Only a disturbed ticket, one that    *)
(* two writers overlapped on or a writer left half done, may stray.        *)
(***************************************************************************)
EXTENDS Naturals

CONSTANT Tickets

VARIABLES status,     \* "none" until the ticket is created
          said,       \* the newest message of either side
          turn,       \* the staff owe an answer
          unheard,    \* the customer wrote after the ticket was resolved
          expired,    \* tickets the auto-close closed
          disturbed   \* the tickets for which nothing is promised

vars == <<status, said, turn, unheard, expired, disturbed>>

Statuses == {"open", "in_progress", "waiting_for_customer", "resolved", "closed"}

Moves == [open                 |-> {"in_progress", "waiting_for_customer", "resolved", "closed"},
          in_progress          |-> {"waiting_for_customer", "resolved", "closed"},
          waiting_for_customer |-> {"in_progress", "resolved", "closed"},
          resolved             |-> {"in_progress", "closed"},
          closed               |-> {}]

Init ==
    /\ status = [t \in Tickets |-> "none"]
    /\ said = [t \in Tickets |-> [customer |-> 0, staff |-> 0]]
    /\ turn = [t \in Tickets |-> FALSE]
    /\ unheard = [t \in Tickets |-> FALSE]
    /\ expired = {} /\ disturbed = {}

Become(t, s, owed) ==
    /\ status' = [status EXCEPT ![t] = s]
    /\ turn' = [turn EXCEPT ![t] = owed]
    /\ unheard' = [unheard EXCEPT ![t] = FALSE]
    /\ UNCHANGED disturbed

Say(t, side) ==
    /\ said'[t][side] > said[t][side]
    /\ said' = [said EXCEPT ![t][side] = said'[t][side]]

Alive(t) == status[t] \in Statuses \ {"closed"}

Open(t) ==
    /\ status[t] = "none" /\ Become(t, "open", TRUE) /\ Say(t, "customer")
    /\ UNCHANGED expired

\* Creation failed and cleaned up behind itself.
Withdraw(t) ==
    /\ status[t] = "open" /\ Become(t, "none", FALSE)
    /\ said' = [said EXCEPT ![t].customer = 0]
    /\ UNCHANGED expired

CustomerWrites(t) ==
    /\ Alive(t) /\ Say(t, "customer")
    /\ \E s \in {"open", "in_progress"} : Become(t, s, TRUE)
    /\ UNCHANGED expired

StaffWrites(t) ==
    /\ Alive(t) /\ Say(t, "staff")
    /\ \E s \in {"in_progress", "waiting_for_customer"} : Become(t, s, FALSE)
    /\ UNCHANGED expired

\* A status change without a message may hand the ticket over or take it back.
StaffMoves(t) ==
    /\ status[t] \in Statuses
    /\ \E s \in Moves[status[t]], owed \in BOOLEAN :
          Become(t, s, owed /\ s = "in_progress")
    /\ UNCHANGED <<said, expired>>

Close(t) == Alive(t) /\ Become(t, "closed", FALSE) /\ UNCHANGED <<said, expired>>

Expire(t) ==
    /\ status[t] = "resolved" /\ ~unheard[t]
    /\ Become(t, "closed", FALSE)
    /\ expired' = expired \union {t}
    /\ UNCHANGED said

Disturb(t) ==
    /\ disturbed' = disturbed \union {t}
    /\ \E s \in Statuses : status' = [status EXCEPT ![t] = s]
    /\ \E b \in BOOLEAN : turn' = [turn EXCEPT ![t] = b]
    /\ \E b \in BOOLEAN : unheard' = [unheard EXCEPT ![t] = b]
    /\ said' = [said EXCEPT ![t] = said'[t]]
    /\ expired' \in {expired, expired \union {t}}

Next == \E t \in Tickets :
          \/ Open(t) \/ Withdraw(t) \/ CustomerWrites(t) \/ StaffWrites(t)
          \/ StaffMoves(t) \/ Close(t) \/ Expire(t) \/ Disturb(t)

Spec == Init /\ [][Next]_vars
=============================================================================
