---------------------------- MODULE MCWalletLedger ----------------------------
(* Small instances of WalletLedger.  One owner has two vehicles with a driver *)
(* and one without; every wallet opens with MCFloat cents and every owner     *)
(* with MCRevenue cents of revenue, earned before the server started.         *)
EXTENDS WalletLedger, TLC

CONSTANTS c1, c2, d1, d2, o1, v1, v2, v3, k1, k2, MCFloat, MCRevenue

MCVehicleOwner == [v \in Vehicles |-> o1]
MCVehicleDriver ==
    [v \in Vehicles |-> CASE v = v1 -> d1 [] v = v2 -> d2 [] v = v3 -> NoDriver]

(* Balances whose sum is zero, as every ledger state's is.                    *)
MCOpening ==
    [a \in Accounts |->
        CASE a[1] = "commuter_wallet" -> MCFloat
          [] a[1] = "owner_revenue"   -> MCRevenue
          [] a[1] = "funding_source"  ->
                -(MCFloat * Cardinality(Commuters) + MCRevenue * Cardinality(Owners))
          [] OTHER                    -> 0]

(* Rows exist for the accounts that hold money, and for no others: the server *)
(* starts even when EnsureSystemAccounts fails ...                            *)
MCOpenAccounts == {a \in Accounts : MCOpening[a] # 0}

(* ... or for all accounts but two that several requests may create.          *)
LockAccounts == Accounts \ {Revenue(o1), PlatformFee}

(* A fare that rounds in every share, paid from a wallet that covers one.     *)
MoneyCalls ==
    {FareReq(c1, v1, 15, k1), FareReq(c1, v1, 15, k2), FareReq(c1, v3, 15, k1),
     TopupReq(c1, 15), AllocateReq(o1, 0)}

(* Scans, each sent up to three times, of two commuters on two vehicles of    *)
(* one owner, whose revenue is withheld meanwhile.                            *)
LockCalls == {FareReq(c1, v1, 15, k1), FareReq(c2, v2, 15, k2), AllocateReq(o1, 0)}

(* One scan, sent again and again.                                            *)
RetryCalls == {FareReq(c1, v1, 15, k1)}

RequestSymmetry == Permutations(Requests)
=============================================================================
