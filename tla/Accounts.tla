------------------------------- MODULE Accounts -------------------------------
(* The chart of accounts of the wallet ledger and the entries each kind of    *)
(* ledger transaction makes on it: internal/wallet/models.go, splitFare and   *)
(* the insertPosting calls of internal/wallet/repo.go.  No state.             *)
EXTENDS Integers

CONSTANTS
    Commuters, Drivers, Owners, \* users, by role
    Vehicles,                   \* rows of the vehicles table
    VehicleOwner,               \* vehicles.owner_user_id
    VehicleDriver,              \* the driver of the active assignment, if any
    NoDriver,                   \* a vehicle with no active assignment
    NULL,                       \* owner_user_id of a system account
    PlatformPct, DriverPct      \* config.FareSplit

ASSUME FleetAssumption ==
    /\ VehicleOwner \in [Vehicles -> Owners]
    /\ VehicleDriver \in [Vehicles -> Drivers \cup {NoDriver}]

ASSUME SplitAssumption ==
    /\ PlatformPct \in Nat
    /\ DriverPct \in Nat
    /\ PlatformPct + DriverPct <= 100

-----------------------------------------------------------------------------
(* An account is its type and its owner, which the unique indexes on accounts *)
(* make a key.                                                                *)
Wallet(c)   == <<"commuter_wallet", c>>
Earnings(d) == <<"driver_earnings", d>>
Revenue(o)  == <<"owner_revenue", o>>
Fuel(o)     == <<"fuel_account", o>>
PlatformFee == <<"platform_fee", NULL>>
Funding     == <<"funding_source", NULL>>

Accounts ==
    ({"commuter_wallet"} \X Commuters) \cup ({"driver_earnings"} \X Drivers)
    \cup ({"owner_revenue", "fuel_account"} \X Owners)
    \cup ({"platform_fee", "funding_source"} \X {NULL})

(* Mutant: the owner's share is rounded down too.                             *)
splitFareRoundsOwner(fare) ==
    [platform |-> (fare * PlatformPct) \div 100, driver |-> (fare * DriverPct) \div 100,
     owner |-> (fare * (100 - PlatformPct - DriverPct)) \div 100]

(* splitFare: platform and driver shares rounded down, the rest to the owner. *)
splitFare(fare) ==
    LET platform == (fare * PlatformPct) \div 100
        driver   == (fare * DriverPct) \div 100
    IN  [platform |-> platform, driver |-> driver,
         owner |-> fare - platform - driver]

-----------------------------------------------------------------------------
(* What one transaction of each kind posts on account a (0: no posting).      *)
FareEntry(c, v, fare, a) ==
    IF a = Wallet(c) THEN -fare
    ELSE IF a = Earnings(VehicleDriver[v]) THEN splitFare(fare).driver
    ELSE IF a = Revenue(VehicleOwner[v]) THEN splitFare(fare).owner
    ELSE IF a = PlatformFee THEN splitFare(fare).platform
    ELSE 0

TopupEntry(c, amount, a) ==
    IF a = Funding THEN -amount ELSE IF a = Wallet(c) THEN amount ELSE 0

(* Mutant: the two accounts of the transfer are swapped.                      *)
WithholdEntrySwapped(o, amount, a) ==
    IF a = Fuel(o) THEN -amount ELSE IF a = Revenue(o) THEN amount ELSE 0

WithholdEntry(o, amount, a) ==
    IF a = Revenue(o) THEN -amount ELSE IF a = Fuel(o) THEN amount ELSE 0
=============================================================================
