------------------------------ MODULE FuelQuota ------------------------------
(* Fuel earmarks and the pump protocol, statement by statement:               *)
(* FundVehicleQuota (internal/fuel/repo.go), AuthorizePump and ConfirmPump    *)
(* (internal/fuel/viu_mock.go) over vehicle_fuel_quotas and                   *)
(* fuel_authorizations.  Requests are transactions that interleave, fail and  *)
(* lose answers as in WalletLedger; a duplicated device callback is another   *)
(* request with the same reference.                                           *)
EXTENDS Integers, FiniteSets, Sql

CONSTANTS
    Requests,       \* calls of the API, each made once
    Owners, Vehicles,
    VehicleOwner,   \* vehicles.owner_user_id
    Amounts,        \* cents a caller may name
    Calls,          \* what the callers ask for
    NULL,
    OpenQuota,      \* quota_cents of each vehicle at the start, 0 for no row
    OpenWithheld,   \* fuel_account balance of each owner at the start
    MaxWithheld     \* bound on the fuel_account balance

ASSUME RequestsAssumption == IsFiniteSet(Requests)

ASSUME FleetAssumption == VehicleOwner \in [Vehicles -> Owners]

ASSUME OpeningAssumption ==
    /\ OpenQuota \in [Vehicles -> Nat]
    /\ OpenWithheld \in [Owners -> 0 .. MaxWithheld]
    /\ Amounts \subseteq Nat \ {0}

VARIABLES
    pc,         \* the statement each request is about to run, or its answer
    req,        \* what each request asks for
    seen,       \* the fuel_account balance a FundVehicleQuota has read
    quota,      \* quota_cents of each vehicle's row (0: no row)
    reserved,   \* reserved_cents
    used,       \* used_cents
    auth,       \* status of the authorization each request created
    withheld    \* balance of each owner's fuel_account in the ledger

vars == <<pc, req, seen, quota, reserved, used, auth, withheld>>

FundReq(o, v, amount) ==
    [op |-> "fund", owner |-> o, vehicle |-> v, amount |-> amount, ref |-> NULL]
AuthorizeReq(v, amount) ==
    [op |-> "authorize", owner |-> NULL, vehicle |-> v, amount |-> amount, ref |-> NULL]
ConfirmReq(p) ==
    [op |-> "confirm", owner |-> NULL, vehicle |-> NULL, amount |-> 0, ref |-> p]

Request ==
    [op : {"fund"}, owner : Owners, vehicle : Vehicles, amount : Amounts, ref : {NULL}]
    \cup [op : {"authorize"}, owner : {NULL}, vehicle : Vehicles, amount : Amounts,
          ref : {NULL}]
    \cup [op : {"confirm"}, owner : {NULL}, vehicle : {NULL}, amount : {0},
          ref : Requests]

ASSUME CallsAssumption == Calls \subseteq Request

-----------------------------------------------------------------------------
Answers ==
    {"ok", "denied", "not_owner", "insufficient", "not_found", "already", "failed"}
TxPcs ==
    {"owner", "balance", "sum", "upsert", "select", "insert", "update", "find",
     "debit", "mark", "commit"}

Busy(p) == pc[p] \in TxPcs \cup {"begin"}

(* The vehicle and the amount of p's pump session: an authorization's own, or *)
(* those of the authorization that is being confirmed.                        *)
Session(p) == IF req[p].op = "confirm" THEN req[p].ref ELSE p
VehicleOf(p) == req[Session(p)].vehicle
AmountOf(p) == req[Session(p)].amount

VehiclesOf(o) == {v \in Vehicles : VehicleOwner[v] = o}

(* Mutant: the quota row is read without FOR UPDATE.                          *)
HoldsQuotaFromUpdate(p) ==
    \/ req[p].op \in {"fund", "authorize"} /\ pc[p] = "commit"
    \/ req[p].op = "confirm" /\ pc[p] \in {"mark", "commit"}

(* Mutant: a denied authorization is not rolled back.                         *)
HoldsQuotaDenied(p) ==
    \/ req[p].op = "fund" /\ pc[p] = "commit"
    \/ req[p].op = "authorize" /\ pc[p] \in {"insert", "update", "commit", "denied"}
    \/ req[p].op = "confirm" /\ pc[p] \in {"mark", "commit"}

(* Row locks, from the statement that takes them to the end of transaction:   *)
(* on the row of a vehicle ...                                                *)
HoldsQuota(p) ==
    \/ req[p].op = "fund" /\ pc[p] = "commit"
    \/ req[p].op = "authorize" /\ pc[p] \in {"insert", "update", "commit"}
    \/ req[p].op = "confirm" /\ pc[p] \in {"mark", "commit"}

(* ... and on the row of an authorization.                                    *)
HoldsAuth(p) == req[p].op = "confirm" /\ pc[p] \in {"debit", "mark", "commit"}

QuotaFree(p) ==
    \A q \in Requests \ {p} : ~ (HoldsQuota(q) /\ VehicleOf(q) = VehicleOf(p))
AuthFree(p) ==
    \A q \in Requests \ {p} : ~ (HoldsAuth(q) /\ req[q].ref = req[p].ref)

-----------------------------------------------------------------------------
Init ==
    /\ pc = [p \in Requests |-> "idle"]
    /\ req \in [Requests -> Calls]
    /\ seen = [p \in Requests |-> 0]
    /\ quota = OpenQuota
    /\ reserved = [v \in Vehicles |-> 0]
    /\ used = [v \in Vehicles |-> 0]
    /\ auth = [p \in Requests |-> "none"]
    /\ withheld = OpenWithheld

Goto(p, label) == pc' = [pc EXCEPT ![p] = label]
Tables == <<quota, reserved, used, auth, withheld>>

Start(p) ==
    /\ pc[p] = "idle"
    /\ Goto(p, "begin")
    /\ UNCHANGED <<req, seen, Tables>>

Begin(p) ==
    /\ pc[p] = "begin"
    /\ Goto(p, [fund |-> "owner", authorize |-> "select", confirm |-> "find"][req[p].op])
    /\ UNCHANGED <<req, seen, Tables>>

(* FundVehicleQuota: only the vehicle's own owner may fund it.                *)
CheckOwner(p) ==
    /\ pc[p] = "owner"
    /\ Goto(p, IF VehicleOwner[req[p].vehicle] = req[p].owner THEN "balance" ELSE "not_owner")
    /\ UNCHANGED <<req, seen, Tables>>

(* The balance of the fuel account and the sum of the earmarks are read by    *)
(* two statements, neither of which locks anything.                           *)
ReadBalance(p) ==
    /\ pc[p] = "balance"
    /\ seen' = [seen EXCEPT ![p] = withheld[req[p].owner]]
    /\ Goto(p, "sum")
    /\ UNCHANGED <<req, Tables>>

CheckEarmarks(p) ==
    /\ pc[p] = "sum"
    /\ Goto(p, IF SumOver(VehiclesOf(req[p].owner), quota) + req[p].amount > seen[p]
               THEN "insufficient" ELSE "upsert")
    /\ UNCHANGED <<req, seen, Tables>>

(* INSERT ... ON CONFLICT DO UPDATE SET quota_cents = quota_cents + amount.   *)
Upsert(p) ==
    /\ pc[p] = "upsert"
    /\ QuotaFree(p)
    /\ Goto(p, "commit")
    /\ UNCHANGED <<req, seen, Tables>>

(* AuthorizePump: the row is locked, read and compared with the request.      *)
SelectQuota(p) ==
    LET v == req[p].vehicle
    IN  /\ pc[p] = "select"
        /\ quota[v] = 0 \/ QuotaFree(p)
        /\ Goto(p, IF quota[v] = 0 \/ req[p].amount > quota[v] - reserved[v] - used[v]
                   THEN "denied" ELSE "insert")
        /\ UNCHANGED <<req, seen, Tables>>

InsertAuthorization(p) ==
    /\ pc[p] = "insert"
    /\ Goto(p, "update")
    /\ UNCHANGED <<req, seen, Tables>>

(* The CHECKs of vehicle_fuel_quotas on the row that p's UPDATE would write.  *)
UpdateAllowed(p) ==
    LET v == VehicleOf(p)
    IN  IF req[p].op = "authorize"
        THEN reserved[v] + AmountOf(p) + used[v] <= quota[v]
        ELSE AmountOf(p) <= reserved[v]

UpdateReserved(p) ==
    /\ pc[p] = "update"
    /\ QuotaFree(p)
    /\ Goto(p, IF UpdateAllowed(p) THEN "commit" ELSE "failed")
    /\ UNCHANGED <<req, seen, Tables>>

(* ConfirmPump: the authorization is locked and its status read.              *)
FindAuthorization(p) ==
    /\ pc[p] = "find"
    /\ AuthFree(p)
    /\ Goto(p, [none |-> "not_found", reserved |-> "debit", confirmed |-> "already"]
                   [auth[req[p].ref]])
    /\ UNCHANGED <<req, seen, Tables>>

DebitQuota(p) ==
    /\ pc[p] = "debit"
    /\ QuotaFree(p)
    /\ Goto(p, IF UpdateAllowed(p) THEN "mark" ELSE "failed")
    /\ UNCHANGED <<req, seen, Tables>>

MarkConfirmed(p) ==
    /\ pc[p] = "mark"
    /\ Goto(p, "commit")
    /\ UNCHANGED <<req, seen, Tables>>

(* Mutant: a confirmation releases the reservation twice.                     *)
ApplyReleasesTwice(p) ==
    LET v == VehicleOf(p)
        amount == AmountOf(p)
    IN  /\ quota' = [quota EXCEPT ![v] = IF req[p].op = "fund" THEN @ + amount ELSE @]
        /\ reserved' = [reserved EXCEPT ![v] =
                           IF req[p].op = "authorize" THEN @ + amount
                           ELSE IF req[p].op = "confirm" THEN @ - 2 * amount ELSE @]
        /\ used' = [used EXCEPT ![v] = IF req[p].op = "confirm" THEN @ + amount ELSE @]
        /\ auth' = [auth EXCEPT ![Session(p)] =
                       IF req[p].op = "authorize" THEN "reserved"
                       ELSE IF req[p].op = "confirm" THEN "confirmed" ELSE @]
        /\ UNCHANGED <<req, seen, withheld>>

(* Mutant: a confirmation does not mark the authorization.                    *)
ApplyUnmarked(p) ==
    LET v == VehicleOf(p)
        amount == AmountOf(p)
    IN  /\ quota' = [quota EXCEPT ![v] = IF req[p].op = "fund" THEN @ + amount ELSE @]
        /\ reserved' = [reserved EXCEPT ![v] =
                           IF req[p].op = "authorize" THEN @ + amount
                           ELSE IF req[p].op = "confirm" THEN @ - amount ELSE @]
        /\ used' = [used EXCEPT ![v] = IF req[p].op = "confirm" THEN @ + amount ELSE @]
        /\ auth' = [auth EXCEPT ![Session(p)] = IF req[p].op = "authorize" THEN "reserved" ELSE @]
        /\ UNCHANGED <<req, seen, withheld>>

(* COMMIT: what the transaction wrote becomes visible.                        *)
Apply(p) ==
    LET v == VehicleOf(p)
        amount == AmountOf(p)
    IN  /\ quota' = [quota EXCEPT ![v] = IF req[p].op = "fund" THEN @ + amount ELSE @]
        /\ reserved' = [reserved EXCEPT ![v] =
                           IF req[p].op = "authorize" THEN @ + amount
                           ELSE IF req[p].op = "confirm" THEN @ - amount ELSE @]
        /\ used' = [used EXCEPT ![v] = IF req[p].op = "confirm" THEN @ + amount ELSE @]
        /\ auth' = [auth EXCEPT ![Session(p)] =
                       IF req[p].op = "authorize" THEN "reserved"
                       ELSE IF req[p].op = "confirm" THEN "confirmed" ELSE @]
        /\ UNCHANGED <<req, seen, withheld>>

Commit(p) == pc[p] = "commit" /\ Apply(p) /\ Goto(p, "ok")

(* The COMMIT took effect and its answer was lost: a device never learns the  *)
(* reference of a reservation that was made for it.                           *)
CommitLost(p) == pc[p] = "commit" /\ Apply(p) /\ Goto(p, "failed")

(* The caller goes away, a statement fails or the server dies.                *)
Cancel(p) ==
    /\ Busy(p)
    /\ Goto(p, "failed")
    /\ UNCHANGED <<req, seen, Tables>>

(* Allocate of WalletLedger commits; nothing ever takes the money back out.   *)
Withhold(o, amount) ==
    /\ withheld[o] + amount <= MaxWithheld
    /\ withheld' = [withheld EXCEPT ![o] = @ + amount]
    /\ UNCHANGED <<pc, req, seen, quota, reserved, used, auth>>

ServerStep(p) ==
    \/ Begin(p)
    \/ CheckOwner(p)
    \/ ReadBalance(p)
    \/ CheckEarmarks(p)
    \/ Upsert(p)
    \/ SelectQuota(p)
    \/ InsertAuthorization(p)
    \/ UpdateReserved(p)
    \/ FindAuthorization(p)
    \/ DebitQuota(p)
    \/ MarkConfirmed(p)
    \/ Commit(p)

(* Every call has been answered.                                              *)
Quiesced ==
    /\ \A p \in Requests : pc[p] \in Answers
    /\ UNCHANGED vars

Next ==
    \/ \E p \in Requests :
           Start(p) \/ ServerStep(p) \/ CommitLost(p) \/ Cancel(p)
    \/ \E o \in Owners, amount \in Amounts : Withhold(o, amount)
    \/ Quiesced

Spec == Init /\ [][Next]_vars

FairSpec == Spec /\ \A p \in Requests : WF_vars(ServerStep(p))

-----------------------------------------------------------------------------
(* Types; in particular no reserved or used amount ever becomes negative.     *)
TypeOK ==
    /\ pc \in [Requests -> Answers \cup TxPcs \cup {"idle", "begin"}]
    /\ req \in [Requests -> Request]
    /\ seen \in [Requests -> Nat]
    /\ quota \in [Vehicles -> Nat]
    /\ reserved \in [Vehicles -> Nat]
    /\ used \in [Vehicles -> Nat]
    /\ auth \in [Requests -> {"none", "reserved", "confirmed"}]
    /\ withheld \in [Owners -> Nat]

(* The row locks make the CHECKs of vehicle_fuel_quotas redundant: no UPDATE  *)
(* that gets its turn is ever refused by one, so no reservation fails and no  *)
(* dispensed fuel goes unaccounted because of another pump session.           *)
ChecksNeverFire ==
    \A p \in Requests :
        pc[p] \in {"update", "debit"} /\ QuotaFree(p) => UpdateAllowed(p)

(* A vehicle's reserved_cents and used_cents are what its authorizations add  *)
(* up to, by status: a duplicated or concurrent confirmation counts once.     *)
QuotaMatchesSessions ==
    \A v \in Vehicles :
        LET Sessions(status) ==
                {p \in Requests : req[p].op = "authorize" /\ req[p].vehicle = v
                                                          /\ auth[p] = status}
            amounts == [p \in Requests |-> req[p].amount]
        IN  /\ reserved[v] = SumOver(Sessions("reserved"), amounts)
            /\ used[v] = SumOver(Sessions("confirmed"), amounts)

(* Every call that reaches the server is answered: no cycle of row locks.     *)
EveryCallAnswered ==
    \A p \in Requests : Busy(p) ~> pc[p] \in Answers

=============================================================================
