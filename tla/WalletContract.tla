--------------------------- MODULE WalletContract ---------------------------
(***************************************************************************)
(* What the wallet promises, with no callers, ledger, counts or unique     *)
(* index in sight: every charge and every credit is one step on the        *)
(* balance as it is then, a charge is covered, and a key is paid once.     *)
(* Only a user whose coins the older helpers move too finds a balance that *)
(* no charge and no credit explains.  CoinWallet implements it.            *)
(***************************************************************************)
EXTENDS Integers

CONSTANTS
    Users,
    Helped,   \* users whose coins the helpers move
    Keys,     \* what a credit is paid for
    Amounts,  \* what a charge or a credit may be
    Opening   \* what a new wallet holds

VARIABLES open, funds, paid

contract == <<open, funds, paid>>

Init ==
    /\ open = {}
    /\ funds = [u \in Users |-> 0]
    /\ paid = {}

Open(u) ==
    /\ u \notin open
    /\ open' = open \cup {u}
    /\ funds' = [funds EXCEPT ![u] = Opening]
    /\ UNCHANGED paid

Charge(u, a) ==
    /\ u \in open
    /\ funds[u] >= a
    /\ funds' = [funds EXCEPT ![u] = @ - a]
    /\ UNCHANGED <<open, paid>>

Credit(u, k, a) ==
    /\ u \in open
    /\ k \notin paid
    /\ funds' = [funds EXCEPT ![u] = @ + a]
    /\ paid' = paid \cup {k}
    /\ UNCHANGED open

\* A helper writes a balance of its own.
Overwrite(u) ==
    /\ u \in open \cap Helped
    /\ funds' \in [Users -> Nat]
    /\ \A v \in Users \ {u} : funds'[v] = funds[v]
    /\ UNCHANGED <<open, paid>>

Next ==
    \E u \in Users :
        \/ Open(u) \/ Overwrite(u)
        \/ \E a \in Amounts : Charge(u, a) \/ \E k \in Keys : Credit(u, k, a)

Spec == Init /\ [][Next]_contract
=============================================================================
