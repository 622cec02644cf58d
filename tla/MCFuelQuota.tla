----------------------------- MODULE MCFuelQuota -----------------------------
(* Small instances of FuelQuota: one owner with two vehicles, the first of    *)
(* which was funded before the server started.                                *)
EXTENDS FuelQuota

CONSTANTS o1, o2, v1, v2

MCVehicleOwner == [v \in Vehicles |-> o1]
MCOpenQuota == [v \in Vehicles |-> IF v = v1 THEN 3 ELSE 0]
MCOpenWithheld == [o \in Owners |-> IF o = o1 THEN 4 ELSE MaxWithheld]

(* Pump sessions that together exceed the quota, duplicated callbacks, and    *)
(* funding by the owner, for the first time too, and by somebody else.        *)
PumpCalls ==
    {AuthorizeReq(v1, 2), AuthorizeReq(v2, 1), FundReq(o1, v1, 1), FundReq(o1, v2, 1),
     FundReq(o2, v1, 1)}
    \cup {ConfirmReq(p) : p \in Requests}

(* Two vehicles funded from the same fuel account.                            *)
FundCalls == {FundReq(o1, v1, 1), FundReq(o1, v2, 1)}
=============================================================================
