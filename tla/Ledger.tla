-------------------------------- MODULE Ledger --------------------------------
(* What the wallet promises its callers: money moves in indivisible,          *)
(* balanced transactions, a debit is covered by the balance it is taken from, *)
(* and an idempotency key settles at most one fare.  WalletLedger implements  *)
(* it with the statements of internal/wallet/repo.go.                         *)
EXTENDS Accounts

CONSTANTS
    Keys,       \* idempotency keys
    Amounts,    \* cents a caller may ask to move
    Opening     \* balances the server starts from

VARIABLES
    bal,        \* the balance of every account
    settled     \* the keys of the fares that were charged

Init ==
    /\ bal = Opening
    /\ settled = {}

Topup(c, amount) ==
    /\ bal' = [a \in Accounts |-> bal[a] + TopupEntry(c, amount, a)]
    /\ UNCHANGED settled

ChargeFare(c, v, fare, key) ==
    /\ VehicleDriver[v] # NoDriver
    /\ key \notin settled
    /\ fare <= bal[Wallet(c)]
    /\ bal' = [a \in Accounts |-> bal[a] + FareEntry(c, v, fare, a)]
    /\ settled' = settled \cup {key}

Allocate(o, amount) ==
    /\ amount <= bal[Revenue(o)]
    /\ bal' = [a \in Accounts |-> bal[a] + WithholdEntry(o, amount, a)]
    /\ UNCHANGED settled

Next ==
    \/ \E c \in Commuters, amount \in Amounts : Topup(c, amount)
    \/ \E c \in Commuters, v \in Vehicles, fare \in Amounts, key \in Keys :
           ChargeFare(c, v, fare, key)
    \/ \E o \in Owners : \E amount \in 1 .. bal[Revenue(o)] : Allocate(o, amount)

Spec == Init /\ [][Next]_<<bal, settled>>
=============================================================================
