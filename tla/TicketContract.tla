--------------------------- MODULE TicketContract ---------------------------
(***************************************************************************)
(* What Job Refresh promises about the charge of a ticket, with no Job     *)
(* Runner, queue, attempts or abandonment in sight: it is taken once,      *)
(* settled once, and settled before the ticket ends.  The promise is kept  *)
(* until two processes come to settle the ticket: then it is loose, and    *)
(* all that is left is that nothing is made of a charge never taken.       *)
(***************************************************************************)
CONSTANT Tickets

VARIABLES
    deal,   \* what has become of the charge
    ended,  \* tickets that have ended
    loose   \* tickets two processes have come to settle

contract == <<deal, ended, loose>>

Init ==
    /\ deal = [t \in Tickets |-> "none"]
    /\ ended = {}
    /\ loose = {}

Take(t) ==
    /\ t \notin ended
    /\ deal[t] = "none"
    /\ deal' = [deal EXCEPT ![t] = "held"]
    /\ UNCHANGED <<ended, loose>>

\* The search was worth it, or it was not, or its credit raised.
Settle(t) ==
    /\ t \notin ended
    /\ deal[t] = "held"
    /\ \E as \in {"kept", "returned", "lost"} : deal' = [deal EXCEPT ![t] = as]
    /\ UNCHANGED <<ended, loose>>

\* A free ticket has no charge to settle.
End(t) ==
    /\ t \notin ended
    /\ deal[t] # "held"
    /\ ended' = ended \cup {t}
    /\ UNCHANGED <<deal, loose>>

\* Two processes have come to settle the ticket; what they make of it follows.
Loosen(t) ==
    /\ loose' = loose \cup {t}
    /\ UNCHANGED <<deal, ended>>

Drift(t) ==
    /\ t \in loose
    /\ \E as \in {"none", "held", "kept", "returned", "lost"} :
           /\ as = "none" <=> deal[t] = "none"
           /\ deal' = [deal EXCEPT ![t] = as]
    /\ ended' \in {ended \cup {t}, ended \ {t}}
    /\ UNCHANGED loose

Next == \E t \in Tickets : Take(t) \/ Settle(t) \/ End(t) \/ Loosen(t) \/ Drift(t)

Spec == Init /\ [][Next]_contract
=============================================================================
