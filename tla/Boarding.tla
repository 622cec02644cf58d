------------------------------- MODULE Boarding -------------------------------
(* Boarding passes: IssuePass, ScanPass, the table of short codes and the     *)
(* rate limiter of internal/boarding, over the wallet (Ledger, which          *)
(* WalletLedger implements) and the vehicle store of internal/telemetry.      *)
(* Handlers of different requests interleave; clients go away, answers are    *)
(* lost, and the server dies and loses what it keeps in memory.               *)
EXTENDS Accounts, Sequences, FiniteSets

CONSTANTS
    Passes,         \* calls of IssuePass; a pass is its nonce
    Scans,          \* calls of ScanPass
    Codes,          \* short codes that may be generated
    Routes,
    Catalogue,      \* routes imported by the catalogue
    HolderOf,       \* commuter_id of each pass
    RouteOf,        \* route_id of each pass
    FareOf,         \* FareForSegment at issue, NULL for no path
    Amounts, Opening,
    Capacity,       \* seats_total of a vehicle
    ttl, sweepGrace, window, max,   \* durations, and attempts per window
    maxCodeGenerationAttempts,
    MaxTime, MaxRestarts, MaxBalance    \* bounds of the model

ASSUME BoardingAssumption ==
    /\ NULL \notin Passes
    /\ Catalogue \subseteq Routes
    /\ HolderOf \in [Passes -> Commuters]
    /\ RouteOf \in [Passes -> Routes]
    /\ FareOf \in [Passes -> Amounts \cup {NULL}]
    /\ Amounts \subseteq Nat \ {0}
    /\ \A n \in {Capacity, ttl, sweepGrace, window, max, maxCodeGenerationAttempts,
                 MaxTime, MaxRestarts, MaxBalance} : n \in Nat
    (* vehicle_assignments_active_driver_idx *)
    /\ \A v, w \in Vehicles :
           VehicleDriver[v] = VehicleDriver[w] => v = w \/ VehicleDriver[v] = NoDriver

VARIABLES
    now,        \* the clock
    issue,      \* where each IssuePass is: "none", "signed", "issued" or refused
    tries,      \* codes each IssuePass has tried
    expires,    \* expires_at of each signed pass
    code,       \* the short code its commuter was given, NULL if none
    table,      \* boarding_pass_codes: the pass of each code, NULL for no row
    attempts,   \* times of the code attempts the limiter remembers, by driver
    allowed,    \* times of all attempts it has allowed since the server started
    pc,         \* where each ScanPass is, or its answer
    scan,       \* what it was asked, and the pass once that is known
    store,      \* route and seats of every online vehicle, NULL if offline
    taken,      \* scans that adjusted a vehicle's seats, by pass
    bal, settled,   \* the ledger
    restarts    \* times the server has died

passVars == <<issue, tries, expires, code>>
limitVars == <<attempts, allowed>>
scanVars == <<pc, scan>>
money == <<bal, settled>>
vars == <<now, passVars, table, limitVars, scanVars, store, taken, money, restarts>>

Wallets == INSTANCE Ledger WITH Keys <- Passes

-----------------------------------------------------------------------------
Answers ==
    {"created", "replayed", "invalid", "expired", "conflict", "insufficient",
     "too_many", "failed"}
Statements == {"limit", "sweep", "lookup", "verify", "vehicle", "charge", "seat"}

(* What a driver's app sends: a token it read, genuine or not (NULL), or a    *)
(* code.  The pass of a code and the driver's vehicle are looked up later.    *)
ByToken(d, p) == [driver |-> d, code |-> NULL, pass |-> p, vehicle |-> NULL]
ByCode(d, c)  == [driver |-> d, code |-> c, pass |-> NULL, vehicle |-> NULL]

Init ==
    /\ now = 0
    /\ issue = [p \in Passes |-> "none"]
    /\ tries = [p \in Passes |-> 0]
    /\ expires = [p \in Passes |-> 0]
    /\ code = [p \in Passes |-> NULL]
    /\ table = [c \in Codes |-> NULL]
    /\ attempts = [d \in Drivers |-> <<>>]
    /\ allowed = [d \in Drivers |-> <<>>]
    /\ pc = [s \in Scans |-> "idle"]
    /\ scan = [s \in Scans |-> ByToken(NULL, NULL)]
    /\ store = [v \in Vehicles |-> NULL]
    /\ taken = [p \in Passes |-> {}]
    /\ Wallets!Init
    /\ restarts = 0

-----------------------------------------------------------------------------
(* IssuePass: a pass is priced and signed unless its route is a catalogue     *)
(* route or has no path between the stops ...                                 *)
Sign(p) ==
    /\ issue[p] = "none"
    /\ IF RouteOf[p] \in Catalogue \/ FareOf[p] = NULL
       THEN issue' = [issue EXCEPT ![p] = "refused"] /\ UNCHANGED expires
       ELSE /\ issue' = [issue EXCEPT ![p] = "signed"]
            /\ expires' = [expires EXCEPT ![p] = now + ttl]
    /\ UNCHANGED <<now, tries, code, table, limitVars, scanVars, store, taken, money, restarts>>

(* ... and stored under a random code, another one if that is taken, ...      *)
StoreCode(p, c) ==
    /\ issue[p] = "signed"
    /\ tries[p] < maxCodeGenerationAttempts
    /\ tries' = [tries EXCEPT ![p] = @ + 1]
    /\ IF table[c] = NULL
       THEN /\ table' = [table EXCEPT ![c] = p]
            /\ code' = [code EXCEPT ![p] = c]
            /\ issue' = [issue EXCEPT ![p] = "issued"]
       ELSE UNCHANGED <<table, code, issue>>
    /\ UNCHANGED <<now, expires, limitVars, scanVars, store, taken, money, restarts>>

(* ... a bounded number of times.  Any other error ends the call, and the row *)
(* may have been inserted all the same.                                       *)
FailIssue(p, c) ==
    /\ issue[p] = "signed"
    /\ tries[p] < maxCodeGenerationAttempts
    /\ \/ UNCHANGED table
       \/ table[c] = NULL /\ table' = [table EXCEPT ![c] = p]
    /\ issue' = [issue EXCEPT ![p] = "refused"]
    /\ UNCHANGED <<now, tries, expires, code, limitVars, scanVars, store, taken, money, restarts>>

GiveUpCode(p) ==
    /\ issue[p] = "signed"
    /\ tries[p] = maxCodeGenerationAttempts
    /\ issue' = [issue EXCEPT ![p] = "refused"]
    /\ UNCHANGED <<now, tries, expires, code, table, limitVars, scanVars, store, taken, money,
                   restarts>>

-----------------------------------------------------------------------------
(* ScanPass *)

Goto(s, label) == pc' = [pc EXCEPT ![s] = label]

(* A driver's app sends a scan.  A genuine token is one a commuter was given. *)
Start(s, call) ==
    /\ pc[s] = "idle"
    /\ call.pass # NULL => issue[call.pass] = "issued"
    /\ scan' = [scan EXCEPT ![s] = call]
    /\ Goto(s, IF call.code # NULL THEN "limit" ELSE "verify")
    /\ UNCHANGED <<now, passVars, table, limitVars, store, taken, money, restarts>>

(* The loop of codeRateLimiter.Allow over the attempts it remembers.          *)
After(times, cutoff) ==
    LET kept[i \in 0 .. Len(times)] ==
            IF i = 0 THEN <<>>
            ELSE IF times[i] > cutoff THEN Append(kept[i - 1], times[i]) ELSE kept[i - 1]
    IN  kept[Len(times)]

(* Mutant: attempts are forgotten one tick too early.                         *)
RecentShort(times) == After(times, now - window + 1)

Recent(times) == After(times, now - window)

(* codeRateLimiter.Allow.                                                     *)
Allow(s) ==
    LET d == scan[s].driver
        kept == Recent(attempts[d])
    IN  /\ pc[s] = "limit"
        /\ IF Len(kept) >= max
           THEN /\ attempts' = [attempts EXCEPT ![d] = kept]
                /\ Goto(s, "too_many")
                /\ UNCHANGED allowed
           ELSE /\ attempts' = [attempts EXCEPT ![d] = Append(kept, now)]
                /\ allowed' = [allowed EXCEPT ![d] = Append(@, now)]
                /\ Goto(s, "sweep")
        /\ UNCHANGED <<now, passVars, table, scan, store, taken, money, restarts>>

(* Mutant: expired rows are swept at once.                                    *)
SweptEager ==
    [c \in Codes |-> IF table[c] # NULL /\ expires[table[c]] < now THEN NULL ELSE table[c]]

(* DELETE ... WHERE expires_at < SweepCutoff().                               *)
Swept ==
    [c \in Codes |->
        IF table[c] # NULL /\ expires[table[c]] < now - sweepGrace THEN NULL ELSE table[c]]

(* PassStore.Lookup: a sweep, whose failure is ignored, ...                   *)
Sweep(s) ==
    /\ pc[s] = "sweep"
    /\ table' \in {table, Swept}
    /\ Goto(s, "lookup")
    /\ UNCHANGED <<now, passVars, limitVars, scan, store, taken, money, restarts>>

(* ... and the row of the code.  A failure is answered like an unknown code.  *)
Lookup(s) ==
    /\ pc[s] = "lookup"
    /\ \E p \in {table[scan[s].code], NULL} :
           /\ scan' = [scan EXCEPT ![s].pass = p]
           /\ Goto(s, IF p = NULL THEN "invalid" ELSE "verify")
    /\ UNCHANGED <<now, passVars, table, limitVars, store, taken, money, restarts>>

(* Signer.Verify accepts what the signer made; PassPayload.Expired.           *)
Genuine(p) == p # NULL
Expired(p) == now > expires[p]

Verify(s) ==
    /\ pc[s] = "verify"
    /\ Goto(s, IF ~Genuine(scan[s].pass) THEN "invalid"
               ELSE IF Expired(scan[s].pass) THEN "expired"
               ELSE "vehicle")
    /\ UNCHANGED <<now, passVars, table, limitVars, scan, store, taken, money, restarts>>

OnlineOn(v, r) == store[v] # NULL /\ store[v].route = r

(* The driver's vehicle must be online on the pass's route; a failing query   *)
(* refuses the scan too.                                                      *)
CheckVehicle(s) ==
    /\ pc[s] = "vehicle"
    /\ \/ \E v \in Vehicles :
              /\ VehicleDriver[v] = scan[s].driver
              /\ OnlineOn(v, RouteOf[scan[s].pass])
              /\ scan' = [scan EXCEPT ![s].vehicle = v]
              /\ Goto(s, "charge")
       \/ Goto(s, "conflict") /\ UNCHANGED scan
    /\ UNCHANGED <<now, passVars, table, limitVars, store, taken, money, restarts>>

(* ChargeFare, with the nonce of the pass as idempotency key.                 *)
ChargePass(s) ==
    LET p == scan[s].pass
    IN  Wallets!ChargeFare(HolderOf[p], scan[s].vehicle, FareOf[p], p)

(* Mutant: a replay takes a seat too.                                         *)
AfterReplaySeat == "seat"

AfterReplay == "replayed"

Charge(s) ==
    LET p == scan[s].pass
    IN  /\ pc[s] = "charge"
        /\ \/ ChargePass(s) /\ Goto(s, "seat")
           \/ p \in settled /\ Goto(s, AfterReplay) /\ UNCHANGED money
           \/ /\ p \notin settled /\ bal[Wallet(HolderOf[p])] < FareOf[p]
              /\ Goto(s, "insufficient")
              /\ UNCHANGED money
        /\ UNCHANGED <<now, passVars, table, limitVars, scan, store, taken, restarts>>

(* The charge fails, with or without having committed the fare.              *)
ChargeFails(s) ==
    /\ pc[s] = "charge"
    /\ ChargePass(s) \/ UNCHANGED money
    /\ Goto(s, "failed")
    /\ UNCHANGED <<now, passVars, table, limitVars, scan, store, taken, restarts>>

(* Mutant: the seat is taken without the clamp.                               *)
TakeSeatUnclamped(s) ==
    LET v == scan[s].vehicle
    IN  /\ pc[s] = "seat"
        /\ IF store[v] # NULL
           THEN /\ store' = [store EXCEPT ![v].seats = @ - 1]
                /\ taken' = [taken EXCEPT ![scan[s].pass] = @ \cup {s}]
           ELSE UNCHANGED <<store, taken>>
        /\ Goto(s, "created")
        /\ UNCHANGED <<now, passVars, table, limitVars, scan, money, restarts>>

(* AdjustSeats(vehicle, -1), if the vehicle is still online, and its event.   *)
TakeSeat(s) ==
    LET v == scan[s].vehicle
    IN  /\ pc[s] = "seat"
        /\ IF store[v] # NULL
           THEN /\ store' = [store EXCEPT ![v].seats = IF @ > 0 THEN @ - 1 ELSE 0]
                /\ taken' = [taken EXCEPT ![scan[s].pass] = @ \cup {s}]
           ELSE UNCHANGED <<store, taken>>
        /\ Goto(s, "created")
        /\ UNCHANGED <<now, passVars, table, limitVars, scan, money, restarts>>

-----------------------------------------------------------------------------
(* The vehicle store, from the driver's connection: GoOnline keeps the seats  *)
(* of a tracked vehicle and does not look at the source of the route; the     *)
(* driver's seat messages set what is left after the clamp.                   *)
GoOnline(v, r) ==
    /\ VehicleDriver[v] # NoDriver
    /\ store' = [store EXCEPT ![v] =
                    [route |-> r, seats |-> IF @ = NULL THEN Capacity ELSE @.seats]]
    /\ UNCHANGED <<now, passVars, table, limitVars, scanVars, taken, money, restarts>>

GoOffline(v) ==
    /\ store[v] # NULL
    /\ store' = [store EXCEPT ![v] = NULL]
    /\ UNCHANGED <<now, passVars, table, limitVars, scanVars, taken, money, restarts>>

SetSeats(v, n) ==
    /\ store[v] # NULL
    /\ store' = [store EXCEPT ![v].seats = n]
    /\ UNCHANGED <<now, passVars, table, limitVars, scanVars, taken, money, restarts>>

(* The commuter's wallet is topped up.                                        *)
FundWallet(c, amount) ==
    /\ bal[Wallet(c)] + amount <= MaxBalance
    /\ Wallets!Topup(c, amount)
    /\ UNCHANGED <<now, passVars, table, limitVars, scanVars, store, taken, restarts>>

(* CleanupExpired, from cmd/cleanup.                                          *)
CleanupExpired ==
    /\ table' = Swept
    /\ UNCHANGED <<now, passVars, limitVars, scanVars, store, taken, money, restarts>>

Tick ==
    /\ now < MaxTime
    /\ now' = now + 1
    /\ UNCHANGED <<passVars, table, limitVars, scanVars, store, taken, money, restarts>>

(* The server dies: requests in progress end, and live vehicles and the       *)
(* limiter's attempts, which are in memory, are gone.                         *)
Restart ==
    /\ restarts < MaxRestarts
    /\ restarts' = restarts + 1
    /\ issue' = [p \in Passes |-> IF issue[p] = "signed" THEN "refused" ELSE issue[p]]
    /\ pc' = [s \in Scans |-> IF pc[s] \in Statements THEN "failed" ELSE pc[s]]
    /\ store' = [v \in Vehicles |-> NULL]
    /\ attempts' = [d \in Drivers |-> <<>>]
    /\ allowed' = [d \in Drivers |-> <<>>]
    /\ UNCHANGED <<now, tries, expires, code, table, scan, taken, money>>

Next ==
    \/ \E p \in Passes :
           \/ Sign(p)
           \/ GiveUpCode(p)
           \/ \E c \in Codes : StoreCode(p, c) \/ FailIssue(p, c)
    \/ \E s \in Scans :
           \/ \E d \in Drivers :
                  \/ \E p \in Passes \cup {NULL} : Start(s, ByToken(d, p))
                  \/ \E c \in Codes : Start(s, ByCode(d, c))
           \/ Allow(s) \/ Sweep(s) \/ Lookup(s) \/ Verify(s)
           \/ CheckVehicle(s) \/ Charge(s) \/ ChargeFails(s) \/ TakeSeat(s)
    \/ \E v \in Vehicles :
           \/ \E r \in Routes : GoOnline(v, r)
           \/ GoOffline(v)
           \/ \E n \in 0 .. Capacity : SetSeats(v, n)
    \/ \E c \in Commuters, amount \in Amounts : FundWallet(c, amount)
    \/ CleanupExpired \/ Tick \/ Restart

Spec == Init /\ [][Next]_vars

-----------------------------------------------------------------------------
(* Every variable has its type; the seats left of a vehicle stay within its   *)
(* capacity.                                                                  *)
TypeOK ==
    /\ now \in 0 .. MaxTime
    /\ issue \in [Passes -> {"none", "signed", "issued", "refused"}]
    /\ tries \in [Passes -> 0 .. maxCodeGenerationAttempts]
    /\ expires \in [Passes -> 0 .. MaxTime + ttl]
    /\ code \in [Passes -> Codes \cup {NULL}]
    /\ table \in [Codes -> Passes \cup {NULL}]
    /\ pc \in [Scans -> Statements \cup Answers \cup {"idle"}]
    /\ \A v \in Vehicles : store[v] # NULL => store[v] \in [route : Routes, seats : 0 .. Capacity]
    /\ taken \in [Passes -> SUBSET Scans]
    /\ settled \subseteq Passes

(* A code that a commuter was given leads to that commuter's pass until       *)
(* sweepGrace after the pass expired, whatever codes collide and whoever      *)
(* sweeps the table: until then a late scan is told that the pass expired.    *)
LiveCodeResolves ==
    \A p \in Passes :
        issue[p] = "issued" /\ now <= expires[p] + sweepGrace => table[code[p]] = p

(* A pass takes one seat at most, however often and on however many vehicles  *)
(* it is scanned and whatever became of the earlier scans, and none before    *)
(* its fare was charged.                                                      *)
SeatOncePerPass ==
    \A p \in Passes : Cardinality(taken[p]) <= 1 /\ (taken[p] # {} => p \in settled)

(* A driver gets at most max code attempts in any window.                     *)
LimitPerWindow ==
    \A d \in Drivers, t \in 0 .. now :
        Cardinality({i \in DOMAIN allowed[d] :
                        t - window < allowed[d][i] /\ allowed[d][i] <= t}) <= max

(* "Seats decremented by exactly 1": a scan that let a passenger board has    *)
(* taken a seat for the pass, or is about to.                                 *)
BoardedTookSeat ==
    \A s \in Scans :
        pc[s] \in {"created", "replayed"} =>
            \/ taken[scan[s].pass] # {}
            \/ \E q \in Scans : pc[q] = "seat" /\ scan[q].pass = scan[s].pass
=============================================================================
