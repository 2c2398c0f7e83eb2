------------------------------ MODULE MCPayments ------------------------------
\* Two orders of one user and two requests in flight.
EXTENDS Payments, TLC

Alike == Permutations(Orders) \cup Permutations(Handlers)
=============================================================================
