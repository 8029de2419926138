--------------------------- MODULE MCSupportTicket ---------------------------
EXTENDS SupportTicket, TLC

Symmetry == Permutations(Tickets) \union Permutations(Requests) \union Permutations(Files)
=============================================================================
