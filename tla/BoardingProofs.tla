--------------------------- MODULE BoardingProofs ---------------------------
(* Proofs, for any number of passes, scans, codes, vehicles and restarts of   *)
(* the server, that boarding keeps its types, that a pass takes one seat at   *)
(* most and only once it is paid for, that a code a commuter was given        *)
(* resolves until its grace is over, and that the rate limiter lets no driver *)
(* exceed its limit in any window.                                            *)
EXTENDS Boarding, FiniteSetTheorems, SequenceTheorems, Inductions, TLAPS

(* What a scan remembers between its statements.                              *)
Call == [driver : Drivers \cup {NULL}, code : Codes \cup {NULL},
         pass : Passes \cup {NULL}, vehicle : Vehicles \cup {NULL}]

(* TypeOK and the types of the scans, which have a code  while they look it *)
(* up, a pass once it has been verified and a vehicle once it has been found. *)
Typed ==
    /\ TypeOK
    /\ store \in [Vehicles -> [route : Routes, seats : 0 .. Capacity] \cup {NULL}]
    /\ scan \in [Scans -> Call]
    /\ \A s \in Scans :
           /\ pc[s] \in {"limit", "sweep", "lookup"} => scan[s].code \in Codes
           /\ pc[s] \in {"vehicle", "charge", "seat", "created"} => scan[s].pass \in Passes
           /\ pc[s] \in {"charge", "seat"} => scan[s].vehicle \in Vehicles

(* The start satisfies it.                                                    *)
LEMMA TypedInit == Init => Typed
<1> SUFFICES ASSUME Init PROVE Typed
  OBVIOUS
<1> USE BoardingAssumption
<1>1. settled = {}
  BY DEF Init, Wallets!Init
<1>2. scan \in [Scans -> Call]
  BY DEF Init, ByToken, Call
<1> QED
  BY <1>1, <1>2 DEF Init, Typed, TypeOK, Statements, Answers

(* So does every step of IssuePass, ...                                       *)
LEMMA TypedIssue ==
    ASSUME Typed, NEW p \in Passes,
           \/ Sign(p)
           \/ GiveUpCode(p)
           \/ \E c \in Codes : StoreCode(p, c) \/ FailIssue(p, c)
    PROVE  Typed'
<1> USE BoardingAssumption DEF Typed, TypeOK, Call
<1>1. CASE Sign(p)
  <2>1. now + ttl \in 0 .. MaxTime + ttl
    OBVIOUS
  <2> QED
    BY <1>1, <2>1 DEF Sign, limitVars, scanVars, money
<1>2. CASE GiveUpCode(p)
  BY <1>2 DEF GiveUpCode, limitVars, scanVars, money
<1>3. ASSUME NEW c \in Codes, StoreCode(p, c) PROVE Typed'
  <2>1. tries' \in [Passes -> 0 .. maxCodeGenerationAttempts]
    BY <1>3 DEF StoreCode
  <2>2. /\ issue' \in [Passes -> {"none", "signed", "issued", "refused"}]
        /\ code' \in [Passes -> Codes \cup {NULL}]
        /\ table' \in [Codes -> Passes \cup {NULL}]
    <3> USE DEF StoreCode
    <3>1. /\ issue \in [Passes -> {"none", "signed", "issued", "refused"}]
          /\ code \in [Passes -> Codes \cup {NULL}]
          /\ table \in [Codes -> Passes \cup {NULL}]
      OBVIOUS
    <3> HIDE DEF Typed, TypeOK
    <3>2. CASE table[c] = NULL
      <4>1. /\ issue' = [issue EXCEPT ![p] = "issued"]
            /\ code' = [code EXCEPT ![p] = c]
            /\ table' = [table EXCEPT ![c] = p]
        BY <1>3, <3>2
      <4>2. issue' \in [Passes -> {"none", "signed", "issued", "refused"}]
        BY <3>1, <4>1
      <4>3. code' \in [Passes -> Codes \cup {NULL}]
        BY <3>1, <4>1
      <4>4. table' \in [Codes -> Passes \cup {NULL}]
        BY <3>1, <4>1
      <4> QED
        BY <4>2, <4>3, <4>4
    <3>3. CASE table[c] # NULL
      BY <1>3, <3>1, <3>3
    <3> QED
      BY <3>2, <3>3
  <2> QED
    BY <1>3, <2>1, <2>2 DEF StoreCode, limitVars, scanVars, money
<1>4. ASSUME NEW c \in Codes, FailIssue(p, c) PROVE Typed'
  BY <1>4 DEF FailIssue, limitVars, scanVars, money
<1> QED
  BY <1>1, <1>2, <1>3, <1>4

(* ... the start of a scan, ...                                               *)
LEMMA TypedStart ==
    ASSUME Typed, NEW s \in Scans, NEW d \in Drivers,
           \/ \E p \in Passes \cup {NULL} : Start(s, ByToken(d, p))
           \/ \E c \in Codes : Start(s, ByCode(d, c))
    PROVE  Typed'
<1>1. PICK call \in Call : Start(s, call)
  <2>1. CASE \E p \in Passes \cup {NULL} : Start(s, ByToken(d, p))
    <3>1. PICK p \in Passes \cup {NULL} : Start(s, ByToken(d, p))
      BY <2>1
    <3>2. ByToken(d, p) \in Call
      BY DEF ByToken, Call
    <3> QED
      BY <3>1, <3>2
  <2>2. CASE \E c \in Codes : Start(s, ByCode(d, c))
    <3>1. PICK c \in Codes : Start(s, ByCode(d, c))
      BY <2>2
    <3>2. ByCode(d, c) \in Call
      BY DEF ByCode, Call
    <3> QED
      BY <3>1, <3>2
  <2> QED
    BY <2>1, <2>2
<1>2. pc' \in [Scans -> Statements \cup Answers \cup {"idle"}]
  BY <1>1 DEF Start, Goto, Typed, TypeOK, Statements
<1>3. scan' \in [Scans -> Call] /\ scan'[s] = call
  BY <1>1 DEF Start, Typed
<1>4. pc'[s] \in {"limit", "verify"} /\ (pc'[s] = "limit" => call.code \in Codes)
  BY <1>1 DEF Start, Goto, Typed, TypeOK, Call
<1>5. \A q \in Scans : q # s => scan'[q] = scan[q] /\ pc'[q] = pc[q]
  BY <1>1 DEF Start, Goto, Typed, TypeOK
<1> QED
  BY <1>1, <1>2, <1>3, <1>4, <1>5 DEF Start, Typed, TypeOK, passVars, limitVars, money

(* ... each of its statements, ...                                            *)
LEMMA TypedScan ==
    ASSUME Typed, NEW s \in Scans,
           \/ Allow(s) \/ Sweep(s) \/ Lookup(s) \/ Verify(s)
           \/ CheckVehicle(s) \/ Charge(s) \/ ChargeFails(s) \/ TakeSeat(s)
    PROVE  Typed'
<1> USE BoardingAssumption DEF Typed, TypeOK, Goto, Statements, Answers
<1>1. CASE Allow(s)
  <2>1. PICK label \in {"too_many", "sweep"} : pc' = [pc EXCEPT ![s] = label]
    BY <1>1 DEF Allow
  <2>2. UNCHANGED <<now, passVars, table, scan, store, taken, money, restarts>>
    BY <1>1 DEF Allow
  <2>3. pc[s] = "limit"
    BY <1>1 DEF Allow
  <2>4. pc' \in [Scans -> Statements \cup Answers \cup {"idle"}]
    BY <2>1
  <2>5. pc'[s] = label /\ \A q \in Scans : q # s => pc'[q] = pc[q]
    BY <2>1
  <2> QED
    BY <2>1, <2>2, <2>3, <2>4, <2>5 DEF passVars, money
<1>2. CASE Sweep(s)
  <2>1. Swept \in [Codes -> Passes \cup {NULL}]
    BY DEF Swept
  <2> QED
    BY <1>2, <2>1 DEF Sweep, passVars, limitVars, money
<1>3. CASE Lookup(s)
  <2>1. PICK p \in {table[scan[s].code], NULL} :
            /\ scan' = [scan EXCEPT ![s].pass = p]
            /\ pc' = [pc EXCEPT ![s] = IF p = NULL THEN "invalid" ELSE "verify"]
    BY <1>3 DEF Lookup
  <2>2. p \in Passes \cup {NULL}
    BY <1>3 DEF Lookup
  <2>3. scan' \in [Scans -> Call]
    <3>1. [scan[s] EXCEPT !.pass = p] \in Call
      BY <2>2 DEF Call
    <3> QED
      BY <2>1, <3>1
  <2>4. \A q \in Scans : q # s => scan'[q] = scan[q] /\ pc'[q] = pc[q]
    BY <2>1
  <2>5. pc'[s] \in {"invalid", "verify"} /\ pc' \in [Scans -> Statements \cup Answers \cup {"idle"}]
    BY <2>1
  <2> QED
    BY <1>3, <2>3, <2>4, <2>5 DEF Lookup, passVars, limitVars, money
<1>4. CASE Verify(s)
  BY <1>4 DEF Verify, Genuine, Call, passVars, limitVars, money
<1>5. CASE CheckVehicle(s)
  <2>1. scan' \in [Scans -> Call]
    BY <1>5 DEF CheckVehicle, Call
  <2>2. \A q \in Scans : q # s => scan'[q] = scan[q] /\ pc'[q] = pc[q]
    BY <1>5 DEF CheckVehicle
  <2>3. scan'[s].pass = scan[s].pass
    BY <1>5 DEF CheckVehicle, Call
  <2>4. pc'[s] = "charge" => scan'[s].vehicle \in Vehicles
    BY <1>5 DEF CheckVehicle, Call
  <2>5. pc'[s] \in {"charge", "conflict"} /\ pc' \in [Scans -> Statements \cup Answers \cup {"idle"}]
    BY <1>5 DEF CheckVehicle
  <2> QED
    BY <1>5, <2>1, <2>2, <2>3, <2>4, <2>5 DEF CheckVehicle, passVars, limitVars, money
<1>6. CASE Charge(s)
  <2>1. settled' \subseteq Passes
    BY <1>6 DEF Charge, ChargePass, Wallets!ChargeFare, money
  <2> QED
    BY <1>6, <2>1 DEF Charge, AfterReplay, passVars, limitVars
<1>7. CASE ChargeFails(s)
  <2>1. settled' \subseteq Passes
    BY <1>7 DEF ChargeFails, ChargePass, Wallets!ChargeFare, money
  <2> QED
    BY <1>7, <2>1 DEF ChargeFails, passVars, limitVars
<1>8. CASE TakeSeat(s)
  BY <1>8 DEF TakeSeat, passVars, limitVars, money
<1> QED
  BY <1>1, <1>2, <1>3, <1>4, <1>5, <1>6, <1>7, <1>8

(* ... and everything else.                                                   *)
LEMMA TypedOther ==
    ASSUME Typed,
           \/ \E v \in Vehicles :
                  \/ \E r \in Routes : GoOnline(v, r)
                  \/ GoOffline(v)
                  \/ \E n \in 0 .. Capacity : SetSeats(v, n)
           \/ \E c \in Commuters, amount \in Amounts : FundWallet(c, amount)
           \/ CleanupExpired \/ Tick \/ Restart
    PROVE  Typed'
<1> USE BoardingAssumption DEF Typed, TypeOK
<1>1. ASSUME NEW v \in Vehicles, NEW r \in Routes, GoOnline(v, r) PROVE Typed'
  BY <1>1 DEF GoOnline, passVars, limitVars, scanVars, money
<1>2. ASSUME NEW v \in Vehicles, GoOffline(v) PROVE Typed'
  BY <1>2 DEF GoOffline, passVars, limitVars, scanVars, money
<1>3. ASSUME NEW v \in Vehicles, NEW n \in 0 .. Capacity, SetSeats(v, n) PROVE Typed'
  BY <1>3 DEF SetSeats, passVars, limitVars, scanVars, money
<1>4. ASSUME NEW c \in Commuters, NEW amount \in Amounts, FundWallet(c, amount) PROVE Typed'
  BY <1>4 DEF FundWallet, Wallets!Topup, passVars, limitVars, scanVars
<1>5. CASE CleanupExpired
  <2>1. Swept \in [Codes -> Passes \cup {NULL}]
    BY DEF Swept
  <2> QED
    BY <1>5, <2>1 DEF CleanupExpired, passVars, limitVars, scanVars, money
<1>6. CASE Tick
  BY <1>6 DEF Tick, passVars, limitVars, scanVars, money
<1>7. CASE Restart
  BY <1>7 DEF Restart, Statements, Answers, money
<1> QED
  BY <1>1, <1>2, <1>3, <1>4, <1>5, <1>6, <1>7

(* Every step keeps the types.                                                *)
LEMMA TypedNext == Typed /\ [Next]_vars => Typed'
<1> SUFFICES ASSUME Typed, [Next]_vars PROVE Typed'
  OBVIOUS
<1>1. CASE UNCHANGED vars
  BY <1>1 DEF vars, passVars, limitVars, scanVars, money, Typed, TypeOK
<1>2. CASE Next
  BY <1>2, TypedIssue, TypedStart, TypedScan, TypedOther DEF Next
<1> QED
  BY <1>1, <1>2

(* Boarding keeps its types, whatever interleaves, fails or restarts; the     *)
(* seats left of a vehicle stay within its capacity.                          *)
THEOREM TypeCorrect == Spec => []TypeOK
<1>1. Typed => TypeOK
  BY DEF Typed
<1> QED
  BY TypedInit, TypedNext, <1>1, PTL DEF Spec

-----------------------------------------------------------------------------
(* One seat per pass.  SeatOncePerPass is not inductive: it says nothing of   *)
(* the scans that have charged a fare and have yet to take the seat.  Those,  *)
(* and the ones that are done, boarded the holder of a pass; no two boarded   *)
(* the same one, because only the first charge of a pass finds it unsettled.  *)
Boarded == {"seat", "created"}

(* The scans that let a passenger board have charged a pass each, and no two  *)
(* of them the same one; those that have taken the seat are among them.       *)
SeatInv ==
    /\ Typed
    /\ \A p \in Passes : \A s \in taken[p] : pc[s] = "created" /\ scan[s].pass = p
    /\ \A s \in Scans : pc[s] \in Boarded => scan[s].pass \in settled
    /\ \A s, t \in Scans :
           pc[s] \in Boarded /\ pc[t] \in Boarded /\ scan[s].pass = scan[t].pass => s = t

(* A step that lets nobody board, ends no boarding that took a seat and takes *)
(* no seat.                                                                   *)
BoardsNobody ==
    /\ taken' = taken
    /\ settled \subseteq settled'
    /\ \A s \in Scans :
           /\ pc'[s] \in Boarded => pc[s] = pc'[s]
           /\ pc[s] = "created" => pc'[s] = "created"
           /\ pc[s] \in Boarded => scan'[s].pass = scan[s].pass

(* Such a step keeps the invariant.                                           *)
LEMMA NobodyBoards ==
    ASSUME SeatInv, Typed', BoardsNobody
    PROVE  SeatInv'
<1>1. \A p \in Passes : taken[p] \subseteq Scans
  BY DEF SeatInv, Typed, TypeOK
<1>2. \A p \in Passes : \A s \in taken'[p] : pc'[s] = "created" /\ scan'[s].pass = p
  BY <1>1 DEF SeatInv, BoardsNobody, Boarded
<1>3. \A s \in Scans : pc'[s] \in Boarded => scan'[s].pass \in settled'
  BY DEF SeatInv, BoardsNobody
<1>4. \A s, t \in Scans :
          pc'[s] \in Boarded /\ pc'[t] \in Boarded /\ scan'[s].pass = scan'[t].pass => s = t
  BY DEF SeatInv, BoardsNobody
<1> QED
  BY <1>2, <1>3, <1>4 DEF SeatInv

(* A committed charge settles a pass nobody has boarded with, ...             *)
LEMMA ChargeBoards ==
    ASSUME SeatInv, Typed', NEW s \in Scans, Charge(s)
    PROVE  SeatInv'
<1> DEFINE p == scan[s].pass
<1>1. pc[s] = "charge" /\ p \in Passes /\ UNCHANGED <<scan, taken>>
  BY DEF Charge, SeatInv, Typed
<1>2. CASE ChargePass(s) /\ Goto(s, "seat")
  <2>1. p \notin settled /\ settled' = settled \cup {p}
    BY <1>2 DEF ChargePass, Wallets!ChargeFare
  <2>2. pc' = [pc EXCEPT ![s] = "seat"] /\ pc \in [Scans -> Statements \cup Answers \cup {"idle"}]
    BY <1>2 DEF Goto, SeatInv, Typed, TypeOK
  <2>3. \A t \in Scans : pc[t] \in Boarded => scan[t].pass # p
    BY <2>1 DEF SeatInv
  <2>4. \A t \in Scans : pc'[t] \in Boarded => t = s \/ pc[t] \in Boarded
    BY <2>2
  <2>5. \A q \in Passes : \A t \in taken[q] : t \in Scans /\ t # s
    BY <1>1 DEF SeatInv, Typed, TypeOK
  <2>6. \A q \in Passes : \A t \in taken'[q] : pc'[t] = "created" /\ scan'[t].pass = q
    BY <1>1, <2>2, <2>5 DEF SeatInv
  <2>7. \A t \in Scans : pc'[t] \in Boarded => scan'[t].pass \in settled'
    BY <1>1, <2>1, <2>4 DEF SeatInv
  <2>8. \A t, u \in Scans :
            pc'[t] \in Boarded /\ pc'[u] \in Boarded /\ scan'[t].pass = scan'[u].pass => t = u
    BY <1>1, <2>3, <2>4 DEF SeatInv
  <2> QED
    BY <2>6, <2>7, <2>8 DEF SeatInv
<1>3. CASE ~(ChargePass(s) /\ Goto(s, "seat"))
  <2>1. settled' = settled
    BY <1>3 DEF Charge, money
  <2>2. PICK label \in {"replayed", "insufficient"} : pc' = [pc EXCEPT ![s] = label]
    BY <1>3 DEF Charge, Goto, AfterReplay
  <2> QED
    BY <1>1, <2>1, <2>2, NobodyBoards DEF BoardsNobody, Boarded, SeatInv, Typed, TypeOK
<1> QED
  BY <1>2, <1>3

(* ... whose scan then takes the one seat of that pass.                       *)
LEMMA SeatTaken ==
    ASSUME SeatInv, Typed', NEW s \in Scans, TakeSeat(s)
    PROVE  SeatInv'
<1> DEFINE p == scan[s].pass
<1>1. pc[s] = "seat" /\ pc' = [pc EXCEPT ![s] = "created"] /\ UNCHANGED <<scan, settled>>
  BY DEF TakeSeat, Goto, money
<1>2. p \in Passes /\ pc \in [Scans -> Statements \cup Answers \cup {"idle"}]
  BY <1>1 DEF SeatInv, Typed, TypeOK
<1>3. \A q \in Passes : taken'[q] \subseteq taken[q] \cup (IF q = p THEN {s} ELSE {})
  BY <1>2 DEF TakeSeat, SeatInv, Typed, TypeOK
<1>4. \A t \in Scans : pc'[t] \in Boarded => pc[t] \in Boarded
  BY <1>1, <1>2 DEF Boarded
<1>5. \A q \in Passes : \A t \in taken'[q] : pc'[t] = "created" /\ scan'[t].pass = q
  <2>1. \A q \in Passes : taken[q] \subseteq Scans
    BY DEF SeatInv, Typed, TypeOK
  <2> QED
    BY <1>1, <1>2, <1>3, <2>1 DEF SeatInv
<1>6. \A t \in Scans : pc'[t] \in Boarded => scan'[t].pass \in settled'
  BY <1>1, <1>4 DEF SeatInv
<1>7. \A t, u \in Scans :
          pc'[t] \in Boarded /\ pc'[u] \in Boarded /\ scan'[t].pass = scan'[u].pass => t = u
  BY <1>1, <1>4 DEF SeatInv
<1> QED
  BY <1>5, <1>6, <1>7 DEF SeatInv

(* The other steps of a scan let nobody board, ...                            *)
LEMMA ScanBoardsNobody ==
    ASSUME SeatInv, NEW s \in Scans,
           \/ \E call : Start(s, call)
           \/ Allow(s) \/ Sweep(s) \/ Lookup(s) \/ Verify(s)
           \/ CheckVehicle(s) \/ ChargeFails(s)
    PROVE  BoardsNobody
<1> USE DEF Goto, Boarded
<1>1. /\ pc \in [Scans -> Statements \cup Answers \cup {"idle"}]
      /\ scan \in [Scans -> Call]
  BY DEF SeatInv, Typed, TypeOK
<1>2. taken' = taken
  BY DEF Start, Allow, Sweep, Lookup, Verify, CheckVehicle, ChargeFails
<1>3. settled \subseteq settled'
  BY DEF Start, Allow, Sweep, Lookup, Verify, CheckVehicle, ChargeFails, money, ChargePass,
         Wallets!ChargeFare
<1>4. pc[s] \notin Boarded
  BY DEF Start, Allow, Sweep, Lookup, Verify, CheckVehicle, ChargeFails
<1>5. PICK label : label \notin Boarded /\ pc' = [pc EXCEPT ![s] = label]
  <2>1. CASE \E call : Start(s, call)
    BY <2>1 DEF Start
  <2>2. CASE Allow(s) \/ Sweep(s) \/ ChargeFails(s)
    BY <2>2 DEF Allow, Sweep, ChargeFails
  <2>3. CASE Lookup(s) \/ CheckVehicle(s)
    BY <2>3 DEF Lookup, CheckVehicle
  <2>4. CASE Verify(s)
    BY <2>4 DEF Verify
  <2> QED
    BY <2>1, <2>2, <2>3, <2>4
<1>6. \A t \in Scans : t # s => scan'[t] = scan[t]
  BY <1>1 DEF Start, Allow, Sweep, Lookup, Verify, CheckVehicle, ChargeFails
<1> QED
  BY <1>1, <1>2, <1>3, <1>4, <1>5, <1>6 DEF BoardsNobody

(* ... and so do the steps that are not of a scan.                            *)
LEMMA OtherBoardsNobody ==
    ASSUME SeatInv,
           \/ \E p \in Passes : \/ Sign(p) \/ GiveUpCode(p)
                                \/ \E c \in Codes : StoreCode(p, c) \/ FailIssue(p, c)
           \/ \E v \in Vehicles : \/ \E r \in Routes : GoOnline(v, r)
                                  \/ GoOffline(v)
                                  \/ \E n \in 0 .. Capacity : SetSeats(v, n)
           \/ \E c \in Commuters, amount \in Amounts : FundWallet(c, amount)
           \/ CleanupExpired \/ Tick \/ Restart \/ UNCHANGED vars
    PROVE  BoardsNobody
<1>1. CASE Restart
  BY <1>1 DEF Restart, BoardsNobody, Boarded, money, Statements, SeatInv, Typed, TypeOK
<1>2. CASE ~Restart
  <2>1. UNCHANGED <<taken, settled, pc, scan>>
    BY <1>2 DEF Sign, GiveUpCode, StoreCode, FailIssue, GoOnline, GoOffline, SetSeats,
                FundWallet, Wallets!Topup, CleanupExpired, Tick, vars, scanVars, money
  <2> QED
    BY <2>1 DEF BoardsNobody
<1> QED
  BY <1>1, <1>2

(* Every step keeps the invariant.                                            *)
LEMMA SeatNext == SeatInv /\ [Next]_vars => SeatInv'
<1> SUFFICES ASSUME SeatInv, [Next]_vars PROVE SeatInv'
  OBVIOUS
<1>1. Typed'
  BY TypedNext DEF SeatInv
<1>2. CASE \E s \in Scans : Charge(s)
  BY <1>1, <1>2, ChargeBoards
<1>3. CASE \E s \in Scans : TakeSeat(s)
  BY <1>1, <1>3, SeatTaken
<1>4. CASE ~(\E s \in Scans : Charge(s) \/ TakeSeat(s))
  <2>1. BoardsNobody
    BY <1>4, ScanBoardsNobody, OtherBoardsNobody DEF Next
  <2> QED
    BY <1>1, <2>1, NobodyBoards
<1> QED
  BY <1>2, <1>3, <1>4

(* ScanPass takes at most one seat for a pass, and only after its fare has    *)
(* been charged, however many scans of it run at once and whatever fails.     *)
THEOREM OneSeatPerPass == Spec => []SeatOncePerPass
<1>1. Init => SeatInv
  BY TypedInit DEF Init, SeatInv, Boarded
<1>2. SeatInv => SeatOncePerPass
  <2> SUFFICES ASSUME SeatInv, NEW p \in Passes
               PROVE  Cardinality(taken[p]) <= 1 /\ (taken[p] # {} => p \in settled)
    BY DEF SeatOncePerPass
  <2>1. taken[p] \subseteq Scans
    BY DEF SeatInv, Typed, TypeOK
  <2>2. CASE taken[p] = {}
    BY <2>2, FS_EmptySet
  <2>3. ASSUME NEW s \in taken[p] PROVE Cardinality(taken[p]) <= 1 /\ p \in settled
    <3>1. taken[p] = {s} /\ p \in settled
      BY <2>1, <2>3 DEF SeatInv, Boarded
    <3>2. Cardinality({s}) = 1
      BY FS_Singleton
    <3> QED
      BY <3>1, <3>2
  <2> QED
    BY <2>2, <2>3
<1> QED
  BY <1>1, <1>2, SeatNext, PTL DEF Spec

-----------------------------------------------------------------------------
(* The codes of issued passes.  A commuter who was given a pass was given a   *)
(* code with it.                                                              *)
CodeInv ==
    /\ Typed
    /\ \A p \in Passes : issue[p] = "issued" => code[p] \in Codes
    /\ LiveCodeResolves

(* Sweeping spares the code of a pass that is within its grace.               *)
LEMMA SweepSpares ==
    ASSUME CodeInv, NEW p \in Passes, issue[p] = "issued", now <= expires[p] + sweepGrace
    PROVE  Swept[code[p]] = p
<1>1. code[p] \in Codes /\ table[code[p]] = p
  BY DEF CodeInv, LiveCodeResolves
<1>2. expires[p] \in Nat /\ now \in Nat /\ sweepGrace \in Nat
  BY BoardingAssumption DEF CodeInv, Typed, TypeOK
<1>3. ~(expires[p] < now - sweepGrace)
  BY <1>2
<1> QED
  BY <1>1, <1>3 DEF Swept

(* A step that issues no pass and at most sweeps the table.                   *)
LEMMA CodesKept ==
    ASSUME CodeInv, Typed', UNCHANGED <<code, expires>>,
           now' = now \/ now' = now + 1,
           table' \in {table, Swept},
           \A p \in Passes : issue'[p] = "issued" => issue[p] = "issued"
    PROVE  CodeInv'
<1>1. \A p \in Passes : issue'[p] = "issued" => code'[p] \in Codes
  BY DEF CodeInv
<1>2. ASSUME NEW p \in Passes, issue'[p] = "issued", now' <= expires'[p] + sweepGrace
      PROVE  table'[code'[p]] = p
  <2>1. expires[p] \in Nat /\ now \in Nat /\ sweepGrace \in Nat
    BY BoardingAssumption DEF CodeInv, Typed, TypeOK
  <2>2. issue[p] = "issued" /\ now <= expires[p] + sweepGrace
    BY <1>2, <2>1
  <2> QED
    BY <2>2, SweepSpares DEF CodeInv, LiveCodeResolves
<1> QED
  BY <1>1, <1>2 DEF CodeInv, LiveCodeResolves

(* Issuing a pass takes a code that no live pass has.                         *)
LEMMA CodesIssued ==
    ASSUME CodeInv, Typed', NEW p \in Passes, NEW c \in Codes,
           StoreCode(p, c) \/ FailIssue(p, c)
    PROVE  CodeInv'
<1>1. issue[p] = "signed" /\ UNCHANGED <<now, expires>>
  BY DEF StoreCode, FailIssue
<1>2. \/ UNCHANGED <<table, code>> /\ (issue' = issue \/ issue' = [issue EXCEPT ![p] = "refused"])
      \/ /\ table[c] = NULL /\ table' = [table EXCEPT ![c] = p]
         /\ \/ code' = code /\ issue' = [issue EXCEPT ![p] = "refused"]
            \/ code' = [code EXCEPT ![p] = c] /\ issue' = [issue EXCEPT ![p] = "issued"]
  BY DEF StoreCode, FailIssue
<1>3. /\ issue \in [Passes -> {"none", "signed", "issued", "refused"}]
      /\ code \in [Passes -> Codes \cup {NULL}] /\ table \in [Codes -> Passes \cup {NULL}]
  BY DEF CodeInv, Typed, TypeOK
<1>4. \A q \in Passes : q # p => issue'[q] = issue[q] /\ code'[q] = code[q]
  BY <1>2, <1>3
<1>5. issue'[p] = "issued" => code'[p] = c /\ table'[c] = p
  BY <1>1, <1>2, <1>3
<1>6. ASSUME NEW q \in Passes, q # p, issue[q] = "issued", now <= expires[q] + sweepGrace
      PROVE  table'[code[q]] = q
  <2>1. code[q] \in Codes /\ table[code[q]] = q
    BY <1>6 DEF CodeInv, LiveCodeResolves
  <2>2. table[c] = NULL => code[q] # c
    BY <2>1, BoardingAssumption
  <2> QED
    BY <1>2, <1>3, <2>1, <2>2
<1>7. \A q \in Passes : issue'[q] = "issued" => code'[q] \in Codes
  BY <1>4, <1>5 DEF CodeInv
<1>8. \A q \in Passes :
          issue'[q] = "issued" /\ now' <= expires'[q] + sweepGrace => table'[code'[q]] = q
  BY <1>1, <1>4, <1>5, <1>6
<1> QED
  BY <1>7, <1>8 DEF CodeInv, LiveCodeResolves

(* Signing a pass leaves the passes that have a code alone.                   *)
LEMMA CodesSigned ==
    ASSUME CodeInv, Typed', NEW p \in Passes, Sign(p)
    PROVE  CodeInv'
<1>1. /\ issue[p] = "none" /\ issue'[p] # "issued" /\ UNCHANGED <<now, table, code>>
      /\ \A q \in Passes : q # p => issue'[q] = issue[q] /\ expires'[q] = expires[q]
  BY DEF Sign, CodeInv, Typed, TypeOK
<1> QED
  BY <1>1 DEF CodeInv, LiveCodeResolves

(* Every step keeps the invariant.                                            *)
LEMMA CodeNext == CodeInv /\ [Next]_vars => CodeInv'
<1> SUFFICES ASSUME CodeInv, [Next]_vars PROVE CodeInv'
  OBVIOUS
<1>1. Typed'
  BY TypedNext DEF CodeInv
<1>2. CASE \E p \in Passes : Sign(p) \/ \E c \in Codes : StoreCode(p, c) \/ FailIssue(p, c)
  BY <1>1, <1>2, CodesSigned, CodesIssued
<1>3. CASE ~(\E p \in Passes : Sign(p) \/ \E c \in Codes : StoreCode(p, c) \/ FailIssue(p, c))
  <2>1. UNCHANGED <<code, expires>>
    BY <1>3 DEF Next, GiveUpCode, Start, Allow, Sweep, Lookup, Verify, CheckVehicle, Charge,
                ChargeFails, TakeSeat, GoOnline, GoOffline, SetSeats, FundWallet,
                CleanupExpired, Tick, Restart, vars, passVars
  <2>2. now' = now \/ now' = now + 1
    BY <1>3 DEF Next, GiveUpCode, Start, Allow, Sweep, Lookup, Verify, CheckVehicle, Charge,
                ChargeFails, TakeSeat, GoOnline, GoOffline, SetSeats, FundWallet,
                CleanupExpired, Tick, Restart, vars
  <2>3. table' \in {table, Swept}
    BY <1>3 DEF Next, GiveUpCode, Start, Allow, Sweep, Lookup, Verify, CheckVehicle, Charge,
                ChargeFails, TakeSeat, GoOnline, GoOffline, SetSeats, FundWallet,
                CleanupExpired, Tick, Restart, vars
  <2>4. \A p \in Passes : issue'[p] = "issued" => issue[p] = "issued"
    <3>1. issue \in [Passes -> {"none", "signed", "issued", "refused"}]
      BY DEF CodeInv, Typed, TypeOK
    <3>2. CASE Restart
      BY <3>2 DEF Restart
    <3>3. CASE \E q \in Passes : GiveUpCode(q)
      BY <3>1, <3>3 DEF GiveUpCode
    <3>4. CASE ~Restart /\ ~(\E q \in Passes : GiveUpCode(q))
      BY <1>3, <3>4 DEF Next, Start, Allow, Sweep, Lookup, Verify, CheckVehicle, Charge,
                        ChargeFails, TakeSeat, GoOnline, GoOffline, SetSeats, FundWallet,
                        CleanupExpired, Tick, vars, passVars
    <3> QED
      BY <3>2, <3>3, <3>4
  <2> QED
    BY <1>1, <2>1, <2>2, <2>3, <2>4, CodesKept
<1> QED
  BY <1>2, <1>3

(* A code a commuter was given finds its pass until sweepGrace after the pass *)
(* expired, whatever codes collide and whoever sweeps the table: it is never  *)
(* handed to another pass before that.                                        *)
THEOREM CodesResolve == Spec => []LiveCodeResolves
<1>1. Init => CodeInv
  BY TypedInit DEF Init, CodeInv, LiveCodeResolves
<1>2. CodeInv => LiveCodeResolves
  BY DEF CodeInv
<1> QED
  BY <1>1, <1>2, CodeNext, PTL DEF Spec

-----------------------------------------------------------------------------
(* The rate limiter.  What is left of a sequence of times without the first k.*)
Suffix(times, k) == [j \in 1 .. Len(times) - k |-> times[k + j]]

(* Times in the order in which they happened.                                 *)
Sorted(times) == \A i, j \in 1 .. Len(times) : i <= j => times[i] <= times[j]

(* The times up to the cutoff are the first k, for some k.                    *)
LEMMA CutExists ==
    ASSUME NEW times \in Seq(Int), Sorted(times), NEW cutoff \in Int
    PROVE  \E k \in 0 .. Len(times) : /\ \A j \in 1 .. k : times[j] <= cutoff
                                      /\ \A j \in k + 1 .. Len(times) : times[j] > cutoff
<1> DEFINE S == {j \in 1 .. Len(times) : times[j] > cutoff}
<1>0. Len(times) \in Nat /\ \A j \in 1 .. Len(times) : times[j] \in Int
  OBVIOUS
<1>1. CASE S = {}
  <2>1. \A j \in 1 .. Len(times) : times[j] <= cutoff
    BY <1>0, <1>1
  <2>2. Len(times) \in 0 .. Len(times) /\ Len(times) + 1 .. Len(times) = {}
    BY <1>0
  <2> QED
    BY <2>1, <2>2
<1>2. CASE S # {}
  <2>1. PICK m \in S : \A j \in S : m <= j
    <3>1. S \subseteq Nat
      BY <1>0
    <3> HIDE DEF S
    <3> QED
      BY <1>2, <3>1, LeastNat
  <2>2. m \in 1 .. Len(times) /\ times[m] > cutoff
    BY <2>1
  <2>3. \A j \in 1 .. m - 1 : times[j] <= cutoff
    BY <1>0, <2>1, <2>2
  <2>4. \A j \in m .. Len(times) : times[j] > cutoff
    BY <1>0, <2>2 DEF Sorted
  <2>5. m - 1 \in 0 .. Len(times) /\ (m - 1) + 1 = m
    BY <1>0, <2>2
  <2> QED
    BY <2>3, <2>4, <2>5
<1> QED
  BY <1>1, <1>2

(* The loop of codeRateLimiter.Allow keeps the times after the cutoff.        *)
Loop(g, times, cutoff) ==
    g = [i \in 0 .. Len(times) |->
            IF i = 0 THEN <<>>
            ELSE IF times[i] > cutoff THEN Append(g[i - 1], times[i]) ELSE g[i - 1]]

(* The k-th to the i-th of the times, the k-th excluded.                      *)
Part(times, k, i) == [j \in 1 .. i - k |-> times[k + j]]

(* What the loop of Allow keeps of the remembered attempts: those after the   *)
(* cutoff.                                                                    *)
LEMMA LoopKeeps ==
    ASSUME NEW times \in Seq(Int), NEW cutoff \in Int, NEW k \in 0 .. Len(times),
           \A j \in 1 .. k : times[j] <= cutoff,
           \A j \in k + 1 .. Len(times) : times[j] > cutoff
    PROVE  After(times, cutoff) = Suffix(times, k)
<1>0. Len(times) \in Nat /\ k \in Nat /\ \A j \in 1 .. Len(times) : times[j] \in Int
  OBVIOUS
<1>1. \A i \in 0 .. k : Part(times, k, i) = <<>>
  BY <1>0 DEF Part
<1>2. ASSUME NEW i \in k + 1 .. Len(times)
      PROVE  Part(times, k, i) = Append(Part(times, k, i - 1), times[i])
  <2>1. i \in Nat /\ i - k \in Nat /\ i - 1 - k \in Nat /\ i - k = (i - 1 - k) + 1 /\ i >= k + 1
    BY <1>0
  <2>2. PICK q : q = Part(times, k, i - 1)
    OBVIOUS
  <2>3. q \in Seq(Int) /\ Len(q) = i - 1 - k /\ \A j \in 1 .. i - 1 - k : q[j] = times[k + j]
    BY <1>0, <2>1, <2>2 DEF Part
  <2>4. PICK n \in Nat : n = i - k /\ n = (i - 1 - k) + 1 /\ k + n = i
    BY <1>0, <2>1
  <2>5. Len(q) = n - 1 /\ \A j \in 1 .. n - 1 : q[j] = times[k + j]
    BY <2>3, <2>4
  <2>6. PICK x \in Int : x = times[i]
    BY <1>0
  <2>7. PICK t : t = Append(q, x)
    OBVIOUS
  <2>8. /\ t \in Seq(Int) /\ Len(t) = Len(q) + 1 /\ t[Len(q) + 1] = x
        /\ \A j \in 1 .. Len(q) : t[j] = q[j]
    <3>1. q \in Seq(Int)
      BY <2>3
    <3> QED
      BY <2>7, <3>1, AppendProperties
  <2>9. PICK r : r = Part(times, k, i)
    OBVIOUS
  <2>10. r = [j \in 1 .. n |-> times[k + j]]
    BY <2>4, <2>9 DEF Part
  <2>11. \A j \in 1 .. n : times[k + j] \in Int
    BY <1>0, <2>1, <2>4
  <2>12. r \in Seq(Int) /\ Len(r) = n
    BY <2>4, <2>10, <2>11
  <2>13. ASSUME NEW j \in 1 .. n PROVE r[j] = t[j]
    <3>1. r[j] = times[k + j]
      BY <2>10
    <3>2. CASE j = n
      BY <2>4, <2>5, <2>6, <2>8, <3>1, <3>2
    <3>3. CASE j # n
      <4>1. j \in 1 .. n - 1
        BY <2>4, <3>3
      <4> QED
        BY <2>5, <2>8, <3>1, <4>1
    <3> QED
      BY <3>2, <3>3
  <2>14. Len(r) = Len(t) /\ \A j \in 1 .. Len(r) : r[j] = t[j]
    BY <2>4, <2>5, <2>8, <2>12, <2>13
  <2>15. r = t
    BY <2>8, <2>12, <2>14, SeqEqual
  <2> QED
    BY <2>2, <2>6, <2>7, <2>9, <2>15
<1>3. \E g : Loop(g, times, cutoff)
  <2> DEFINE g == [i \in 0 .. Len(times) |-> Part(times, k, i)]
  <2>1. ASSUME NEW i \in 0 .. Len(times)
        PROVE  g[i] = IF i = 0 THEN <<>>
                      ELSE IF times[i] > cutoff THEN Append(g[i - 1], times[i]) ELSE g[i - 1]
    <3>1. CASE i = 0
      BY <1>0, <1>1, <3>1
    <3>2. CASE i \in 1 .. k
      <4>1. i - 1 \in 0 .. Len(times) /\ i - 1 \in 0 .. k /\ ~(times[i] > cutoff) /\ i # 0
        BY <1>0, <3>2
      <4> QED
        BY <1>1, <3>2, <4>1
    <3>3. CASE i \in k + 1 .. Len(times)
      <4>1. i - 1 \in 0 .. Len(times) /\ times[i] > cutoff /\ i # 0
        BY <1>0, <3>3
      <4> QED
        BY <1>2, <3>3, <4>1
    <3>4. i = 0 \/ i \in 1 .. k \/ i \in k + 1 .. Len(times)
      BY <1>0
    <3> HIDE DEF g
    <3> QED
      BY <3>1, <3>2, <3>3, <3>4
  <2>2. Loop(g, times, cutoff)
    BY <2>1 DEF Loop
  <2> QED
    BY <2>2
<1>4. PICK g : /\ Loop(g, times, cutoff)
               /\ After(times, cutoff) = g[Len(times)]
  <2>1. After(times, cutoff) = (CHOOSE g : Loop(g, times, cutoff))[Len(times)]
    BY Zenon DEF After, Loop
  <2> QED
    BY <1>3, <2>1
<1>5. \A i \in 0 .. Len(times) : g[i] = Part(times, k, i)
  <2> DEFINE P == {i \in Nat : i <= Len(times) => g[i] = Part(times, k, i)}
  <2>1. 0 \in P
    BY <1>0, <1>1, <1>4 DEF Loop
  <2>2. ASSUME NEW n \in Nat, n \in P
        PROVE  n + 1 \in P
    <3>1. SUFFICES ASSUME n + 1 <= Len(times) PROVE g[n + 1] = Part(times, k, n + 1)
      OBVIOUS
    <3>2. n + 1 \in 0 .. Len(times) /\ n + 1 # 0 /\ (n + 1) - 1 = n /\ g[n] = Part(times, k, n)
      BY <1>0, <2>2, <3>1
    <3>3. g[n + 1] = IF times[n + 1] > cutoff THEN Append(g[n], times[n + 1]) ELSE g[n]
      BY <1>4, <3>2 DEF Loop
    <3>4. CASE n + 1 \in 1 .. k
      <4>1. ~(times[n + 1] > cutoff) /\ n \in 0 .. k /\ n + 1 \in 0 .. k
        BY <1>0, <3>2, <3>4
      <4> QED
        BY <1>1, <3>2, <3>3, <4>1
    <3>5. CASE n + 1 \in k + 1 .. Len(times)
      <4>1. Part(times, k, n + 1) = Append(Part(times, k, n), times[n + 1])
        BY <1>2, <3>2, <3>5
      <4> QED
        BY <3>2, <3>3, <3>5, <4>1
    <3> QED
      BY <1>0, <3>1, <3>4, <3>5
  <2> HIDE DEF P
  <2>3. Nat \subseteq P
    BY <2>1, <2>2, NatSetInduction
  <2> QED
    BY <1>0, <2>3 DEF P
<1>6. After(times, cutoff) = Part(times, k, Len(times))
  BY <1>0, <1>4, <1>5
<1> QED
  BY <1>6 DEF Part, Suffix

(* For each driver: what the limiter remembers is a suffix of what it has     *)
(* allowed, the forgotten attempts are out of the window, and of any max + 1  *)
(* attempts in a row the first and the last are a window apart.               *)
Spaced(times) ==
    \A i \in 1 .. Len(times) : i + max <= Len(times) => times[i] + window <= times[i + max]

(* The limiter remembers the allowed attempts of d but the first k, which are *)
(* out of the window.                                                         *)
Remembered(d, k) ==
    /\ k \in 0 .. Len(allowed[d])
    /\ attempts[d] = Suffix(allowed[d], k)
    /\ \A j \in 1 .. k : allowed[d][j] <= now - window

(* Of a driver: the allowed attempts in order, none in the future, any max +  *)
(* 1 in a row at least a window apart, and the latest remembered.             *)
Limited(d) ==
    /\ allowed[d] \in Seq(Int) /\ Sorted(allowed[d]) /\ Spaced(allowed[d])
    /\ \A i \in 1 .. Len(allowed[d]) : allowed[d][i] <= now
    /\ \E k : Remembered(d, k)

(* The inductive invariant of the limiter.                                    *)
LimitInv ==
    /\ Typed
    /\ DOMAIN allowed = Drivers /\ DOMAIN attempts = Drivers
    /\ \A d \in Drivers : Limited(d)

(* A server that has just started has allowed nothing.                        *)
LEMMA NothingAllowed ==
    ASSUME NEW t
    PROVE  LET a == <<>> IN
           /\ a \in Seq(Int) /\ Sorted(a) /\ Spaced(a) /\ Suffix(a, 0) = a /\ Len(a) = 0
  BY DEF Sorted, Spaced, Suffix

(* At the start nothing was allowed and nothing is remembered.                *)
LEMMA LimitInit == Init => LimitInv
<1> SUFFICES ASSUME Init PROVE LimitInv
  OBVIOUS
<1>1. ASSUME NEW d \in Drivers PROVE Limited(d)
  <2>1. allowed[d] = <<>> /\ attempts[d] = <<>>
    BY DEF Init
  <2>2. Remembered(d, 0)
    BY <2>1, NothingAllowed DEF Remembered
  <2> QED
    BY <2>1, <2>2, NothingAllowed DEF Limited
<1> QED
  BY <1>1, TypedInit DEF LimitInv, Init

(* The clock goes on, or a step asks for no code.                             *)
LEMMA LimitKept ==
    ASSUME LimitInv, Typed', UNCHANGED limitVars, now' = now \/ now' = now + 1
    PROVE  LimitInv'
<1>1. now \in Int /\ now' \in Int /\ now <= now' /\ window \in Int /\ now - window <= now' - window
  BY BoardingAssumption DEF LimitInv, Typed, TypeOK
<1>2. ASSUME NEW d \in Drivers PROVE Limited(d)'
  <2>1. PICK a : a = allowed[d]
    OBVIOUS
  <2>2. allowed'[d] = a /\ attempts'[d] = attempts[d]
    BY <2>1 DEF limitVars
  <2>3. a \in Seq(Int) /\ Sorted(a) /\ Spaced(a) /\ \A i \in 1 .. Len(a) : a[i] <= now
    BY <2>1 DEF LimitInv, Limited
  <2>4. PICK k \in 0 .. Len(a) : attempts[d] = Suffix(a, k) /\ \A j \in 1 .. k : a[j] <= now - window
    BY <2>1 DEF LimitInv, Limited, Remembered
  <2>5. \A i \in 1 .. Len(a) : a[i] \in Int /\ a[i] <= now'
    BY <1>1, <2>3
  <2>6. \A j \in 1 .. k : a[j] <= now' - window
    <3>1. \A j \in 1 .. k : a[j] \in Int
      BY <2>3, <2>4
    <3> QED
      BY <1>1, <2>4, <3>1
  <2>7. Remembered(d, k)'
    BY <2>2, <2>4, <2>6 DEF Remembered
  <2> QED
    BY <2>2, <2>3, <2>5, <2>7 DEF Limited
<1> QED
  BY <1>2 DEF LimitInv, limitVars

(* A sequence with one more element is an Append.                             *)
LEMMA AppendIs ==
    ASSUME NEW q \in Seq(Int), NEW x \in Int, NEW z \in Seq(Int), Len(z) = Len(q) + 1,
           z[Len(q) + 1] = x, \A j \in 1 .. Len(q) : q[j] = z[j]
    PROVE  Append(q, x) = z
  BY AppendProperties, SeqEqual

(* codeRateLimiter.Allow.                                                     *)
LEMMA LimitAllow ==
    ASSUME LimitInv, Typed', NEW s \in Scans, Allow(s)
    PROVE  LimitInv'
<1>1. PICK d : d = scan[s].driver
  OBVIOUS
<1>2. PICK kept : kept = Recent(attempts[d])
  OBVIOUS
<1>3. /\ now \in Int /\ now' = now /\ window \in Nat /\ max \in Nat
      /\ DOMAIN allowed = Drivers /\ DOMAIN attempts = Drivers
  BY BoardingAssumption DEF LimitInv, Typed, TypeOK, Allow
<1>4. \/ /\ Len(kept) >= max
         /\ attempts' = [attempts EXCEPT ![d] = kept] /\ allowed' = allowed
      \/ /\ ~ (Len(kept) >= max)
         /\ attempts' = [attempts EXCEPT ![d] = Append(kept, now)]
         /\ allowed' = [allowed EXCEPT ![d] = Append(allowed[d], now)]
  BY <1>1, <1>2 DEF Allow
<1>5. ASSUME NEW e \in Drivers, e # d PROVE Limited(e)'
  <2>1. allowed'[e] = allowed[e] /\ attempts'[e] = attempts[e]
    BY <1>3, <1>4, <1>5
  <2> QED
    BY <1>3, <2>1 DEF LimitInv, Limited, Remembered
<1>6. ASSUME d \in Drivers PROVE Limited(d)'
  <2>1. PICK a, r : a = allowed[d] /\ r = attempts[d]
    OBVIOUS
  <2>2. /\ a \in Seq(Int) /\ Sorted(a) /\ Spaced(a) /\ Len(a) \in Nat
        /\ \A i \in 1 .. Len(a) : a[i] \in Int /\ a[i] <= now
    BY <1>6, <2>1 DEF LimitInv, Limited
  <2>3. PICK m \in 0 .. Len(a) : r = Suffix(a, m) /\ \A j \in 1 .. m : a[j] <= now - window
    BY <1>6, <2>1 DEF LimitInv, Limited, Remembered
  <2>4. /\ r \in Seq(Int) /\ Len(r) = Len(a) - m
        /\ \A j \in 1 .. Len(a) - m : r[j] = a[m + j]
    BY <2>2, <2>3 DEF Suffix
  <2>5. Sorted(r)
    <3>1. ASSUME NEW i \in 1 .. Len(r), NEW j \in 1 .. Len(r), i <= j
          PROVE  r[i] <= r[j]
      <4>1. /\ m + i \in 1 .. Len(a) /\ m + j \in 1 .. Len(a) /\ m + i <= m + j
            /\ i \in 1 .. Len(a) - m /\ j \in 1 .. Len(a) - m
        BY <2>2, <2>3, <2>4, <3>1
      <4>2. r[i] = a[m + i] /\ r[j] = a[m + j]
        BY <2>4, <4>1
      <4> QED
        BY <2>2, <4>1, <4>2 DEF Sorted
    <3> QED
      BY <3>1 DEF Sorted
  <2>6. PICK k \in 0 .. Len(r) : /\ \A j \in 1 .. k : r[j] <= now - window
                                 /\ \A j \in k + 1 .. Len(r) : r[j] > now - window
    <3>1. PICK cutoff \in Int : cutoff = now - window
      BY <1>3
    <3>2. \E k \in 0 .. Len(r) : /\ \A j \in 1 .. k : r[j] <= cutoff
                                 /\ \A j \in k + 1 .. Len(r) : r[j] > cutoff
      BY <2>4, <2>5, CutExists
    <3> QED
      BY <3>1, <3>2
  <2>7. kept = Suffix(r, k)
    <3>1. now - window \in Int
      BY <1>3
    <3> QED
      BY <1>2, <2>1, <2>4, <2>6, <3>1, LoopKeeps DEF Recent
  <2>8. PICK w \in 0 .. Len(a) : w = m + k /\ Len(r) - k = Len(a) - w
    BY <2>2, <2>3, <2>4, <2>6
  <2>9. kept = Suffix(a, w) /\ kept \in Seq(Int) /\ Len(kept) = Len(a) - w
    <3>1. ASSUME NEW j \in 1 .. Len(a) - w PROVE r[k + j] = a[w + j]
      <4>1. k + j \in 1 .. Len(a) - m /\ m + (k + j) = w + j
        BY <2>2, <2>3, <2>4, <2>6, <2>8
      <4>2. r[k + j] = a[m + (k + j)]
        BY <2>4, <4>1
      <4> QED
        BY <4>1, <4>2
    <3>2. kept = Suffix(a, w)
      BY <2>7, <2>8, <3>1 DEF Suffix
    <3> QED
      BY <2>2, <2>8, <3>2 DEF Suffix
  <2>10. \A j \in 1 .. w : a[j] <= now - window
    <3>1. ASSUME NEW j \in 1 .. w, j > m PROVE a[j] <= now - window
      <4>1. j - m \in 1 .. k /\ j - m \in 1 .. Len(a) - m /\ m + (j - m) = j
        BY <2>2, <2>3, <2>4, <2>6, <2>8, <3>1
      <4>2. r[j - m] = a[m + (j - m)] /\ r[j - m] <= now - window
        BY <2>4, <2>6, <4>1
      <4> QED
        BY <4>1, <4>2
    <3> QED
      BY <2>2, <2>3, <2>6, <2>8, <3>1
  <2>11. CASE Len(kept) >= max
    <3>1. allowed'[d] = a /\ attempts'[d] = kept
      BY <1>3, <1>4, <1>6, <2>1, <2>11
    <3>2. Remembered(d, w)'
      BY <1>3, <2>8, <2>9, <2>10, <3>1 DEF Remembered
    <3>3. \A i \in 1 .. Len(a) : a[i] \in Int /\ a[i] <= now'
      BY <1>3, <2>2
    <3> QED
      BY <2>2, <3>1, <3>2, <3>3 DEF Limited
  <2>12. CASE ~ (Len(kept) >= max)
    <3>1. PICK b : b = Append(a, now)
      OBVIOUS
    <3>2. allowed'[d] = b /\ attempts'[d] = Append(kept, now)
      BY <1>3, <1>4, <1>6, <2>1, <2>12, <3>1
    <3>3. /\ b \in Seq(Int) /\ Len(b) = Len(a) + 1 /\ b[Len(a) + 1] = now
          /\ \A i \in 1 .. Len(a) : b[i] = a[i]
      BY <1>3, <2>2, <3>1
    <3>4. Sorted(b) /\ \A i \in 1 .. Len(b) : b[i] <= now
      <4>1. \A i \in 1 .. Len(b) : i \in 1 .. Len(a) \/ i = Len(a) + 1
        BY <2>2, <3>3
      <4>2. ASSUME NEW i \in 1 .. Len(b) PROVE b[i] <= now
        <5>1. CASE i \in 1 .. Len(a)
          BY <2>2, <3>3, <5>1
        <5>2. CASE i = Len(a) + 1
          BY <1>3, <3>3, <5>2
        <5> QED
          BY <4>1, <5>1, <5>2
      <4>3. ASSUME NEW i \in 1 .. Len(b), NEW j \in 1 .. Len(b), i <= j
            PROVE  b[i] <= b[j]
        <5>1. CASE j = Len(a) + 1
          BY <3>3, <4>2, <5>1
        <5>2. CASE j # Len(a) + 1
          <6>1. i \in 1 .. Len(a) /\ j \in 1 .. Len(a)
            BY <2>2, <3>3, <4>1, <4>3, <5>2
          <6>2. a[i] <= a[j]
            BY <2>2, <4>3, <6>1 DEF Sorted
          <6> QED
            BY <3>3, <6>1, <6>2
        <5> QED
          BY <5>1, <5>2
      <4> QED
        BY <4>2, <4>3 DEF Sorted
    <3>5. Spaced(b)
      <4>1. ASSUME NEW i \in 1 .. Len(b), i + max <= Len(b)
            PROVE  b[i] + window <= b[i + max]
        <5>1. CASE i + max <= Len(a)
          <6>1. i \in 1 .. Len(a) /\ i + max \in 1 .. Len(a)
            BY <1>3, <2>2, <3>3, <4>1, <5>1
          <6>2. a[i] + window <= a[i + max]
            BY <2>2, <5>1, <6>1 DEF Spaced
          <6> QED
            BY <3>3, <6>1, <6>2
        <5>2. CASE i + max = Len(a) + 1
          <6>1. i \in 1 .. w /\ i \in 1 .. Len(a)
            <7>1. i \in Nat /\ i >= 1 /\ w \in Nat /\ w <= Len(a) /\ Len(a) \in Nat
              BY <2>2, <2>8, <3>3
            <7>2. Len(a) - w < max
              <8>1. Len(kept) = Len(a) - w
                BY <2>9
              <8> QED
                BY <1>3, <2>12, <7>1, <8>1
            <7>3. i <= w
              BY <1>3, <5>2, <7>1, <7>2
            <7> QED
              BY <7>1, <7>3
          <6>2. a[i] \in Int /\ a[i] <= now - window /\ b[i] = a[i] /\ b[i + max] = now
            BY <2>2, <2>10, <3>3, <5>2, <6>1
          <6> QED
            BY <1>3, <6>2
        <5>3. i + max <= Len(a) \/ i + max = Len(a) + 1
          BY <1>3, <2>2, <3>3, <4>1
        <5> QED
          BY <5>1, <5>2, <5>3
      <4> QED
        BY <4>1 DEF Spaced
    <3>6. Remembered(d, w)'
      <4>1. w \in 0 .. Len(b) /\ Len(b) - w = Len(kept) + 1
        BY <2>2, <2>8, <2>9, <3>3
      <4>2. Append(kept, now) = Suffix(b, w)
        <5>1. \A j \in 1 .. Len(kept) : kept[j] = b[w + j]
          <6>1. \A j \in 1 .. Len(kept) : kept[j] = a[w + j] /\ w + j \in 1 .. Len(a)
            BY <2>2, <2>8, <2>9 DEF Suffix
          <6> QED
            BY <3>3, <6>1
        <5>2. w + (Len(kept) + 1) = Len(a) + 1 /\ Len(kept) \in Nat
          BY <2>2, <2>8, <2>9
        <5>3. PICK z : z = Suffix(b, w)
          OBVIOUS
        <5>4. /\ z \in Seq(Int) /\ Len(z) = Len(kept) + 1
              /\ \A j \in 1 .. Len(kept) + 1 : z[j] = b[w + j]
          <6>1. z = [j \in 1 .. Len(kept) + 1 |-> b[w + j]]
            BY <4>1, <5>3 DEF Suffix
          <6>2. \A j \in 1 .. Len(kept) + 1 : w + j \in 1 .. Len(b)
            BY <2>8, <3>3, <5>2
          <6>3. \A j \in 1 .. Len(kept) + 1 : b[w + j] \in Int
            BY <3>3, <6>2
          <6>4. z \in Seq(Int)
            BY <5>2, <6>1, <6>3
          <6> QED
            BY <5>2, <6>1, <6>4
        <5>5. z[Len(kept) + 1] = now /\ \A j \in 1 .. Len(kept) : kept[j] = z[j]
          <6>1. z[Len(kept) + 1] = b[w + (Len(kept) + 1)]
            BY <5>2, <5>4
          <6>2. z[Len(kept) + 1] = now
            BY <3>3, <5>2, <6>1
          <6>3. \A j \in 1 .. Len(kept) : j \in 1 .. Len(kept) + 1
            BY <5>2
          <6> QED
            BY <5>1, <5>4, <6>2, <6>3
        <5>6. kept \in Seq(Int) /\ now \in Int
          BY <1>3, <2>9
        <5>7. Append(kept, now) = z
          BY <5>4, <5>5, <5>6, AppendIs
        <5> QED
          BY <5>3, <5>7
      <4>3. \A j \in 1 .. w : b[j] <= now' - window
        <5>1. \A j \in 1 .. w : j \in 1 .. Len(a)
          BY <2>2, <2>8
        <5> QED
          BY <1>3, <2>2, <2>10, <3>3, <5>1
      <4> QED
        BY <3>2, <4>1, <4>2, <4>3 DEF Remembered
    <3>7. \A i \in 1 .. Len(b) : b[i] \in Int /\ b[i] <= now'
      BY <1>3, <3>3, <3>4
    <3> QED
      BY <3>2, <3>3, <3>4, <3>5, <3>6, <3>7 DEF Limited
  <2> QED
    BY <2>11, <2>12
<1>7. DOMAIN allowed' = Drivers /\ DOMAIN attempts' = Drivers
  BY <1>3, <1>4
<1> QED
  BY <1>5, <1>6, <1>7 DEF LimitInv

(* The server dies and forgets the attempts together with what it allowed.    *)
LEMMA LimitRestart ==
    ASSUME LimitInv, Typed', Restart
    PROVE  LimitInv'
<1>1. ASSUME NEW d \in Drivers PROVE Limited(d)'
  <2>1. PICK a : a = <<>>
    OBVIOUS
  <2>2. allowed'[d] = a /\ attempts'[d] = a
    BY <1>1, <2>1 DEF Restart
  <2>3. a \in Seq(Int) /\ Sorted(a) /\ Spaced(a) /\ Suffix(a, 0) = a /\ Len(a) = 0
    BY <2>1, NothingAllowed
  <2>4. Remembered(d, 0)'
    BY <2>2, <2>3 DEF Remembered
  <2>5. \E n : Remembered(d, n)'
    BY <2>4
  <2> QED
    BY <2>2, <2>3, <2>5 DEF Limited
<1> QED
  BY <1>1 DEF LimitInv, Restart

(* Only Allow, which adds an attempt, a clock that moves on and a restart,    *)
(* which empties the memory, concern the limiter.                             *)
LEMMA LimitNext == LimitInv /\ [Next]_vars => LimitInv'
<1> SUFFICES ASSUME LimitInv, [Next]_vars PROVE LimitInv'
  OBVIOUS
<1>1. Typed'
  BY TypedNext DEF LimitInv
<1>2. CASE \E s \in Scans : Allow(s)
  BY <1>1, <1>2, LimitAllow
<1>3. CASE Restart
  BY <1>1, <1>3, LimitRestart
<1>4. CASE ~ Restart /\ \A s \in Scans : ~ Allow(s)
  <2>1. UNCHANGED limitVars /\ (now' = now \/ now' = now + 1)
    <3>1. CASE UNCHANGED vars
      BY <3>1 DEF vars
    <3>2. CASE \E p \in Passes :
                   \/ Sign(p)
                   \/ GiveUpCode(p)
                   \/ \E c \in Codes : StoreCode(p, c) \/ FailIssue(p, c)
      BY <3>2 DEF Sign, GiveUpCode, StoreCode, FailIssue
    <3>3. CASE \E s \in Scans :
                   \/ \E d \in Drivers :
                          \/ \E p \in Passes \cup {NULL} : Start(s, ByToken(d, p))
                          \/ \E c \in Codes : Start(s, ByCode(d, c))
                   \/ Sweep(s) \/ Lookup(s) \/ Verify(s)
                   \/ CheckVehicle(s) \/ Charge(s) \/ ChargeFails(s) \/ TakeSeat(s)
      BY <3>3 DEF Start, Sweep, Lookup, Verify, CheckVehicle, Charge, ChargeFails, TakeSeat
    <3>4. CASE \E v \in Vehicles :
                   \/ \E r \in Routes : GoOnline(v, r)
                   \/ GoOffline(v)
                   \/ \E n \in 0 .. Capacity : SetSeats(v, n)
      BY <3>4 DEF GoOnline, GoOffline, SetSeats
    <3>5. CASE \E c \in Commuters, amount \in Amounts : FundWallet(c, amount)
      BY <3>5 DEF FundWallet
    <3>6. CASE CleanupExpired \/ Tick
      BY <3>6 DEF CleanupExpired, Tick
    <3> QED
      BY <1>4, <3>1, <3>2, <3>3, <3>4, <3>5, <3>6 DEF Next
  <2> QED
    BY <1>1, <2>1, LimitKept
<1> QED
  BY <1>2, <1>3, <1>4

(* Times that are sorted and spaced: no window holds more than max of them.   *)
LEMMA NoMoreThanMax ==
    ASSUME NEW a \in Seq(Int), Sorted(a), Spaced(a), NEW t \in Int,
           window \in Nat, max \in Nat
    PROVE  Cardinality({i \in DOMAIN a : t - window < a[i] /\ a[i] <= t}) <= max
<1> DEFINE S == {i \in DOMAIN a : t - window < a[i] /\ a[i] <= t}
<1>0. Len(a) \in Nat /\ DOMAIN a = 1 .. Len(a) /\ \A i \in 1 .. Len(a) : a[i] \in Int
  OBVIOUS
<1>1. CASE S = {}
  <2>1. Cardinality(S) = 0
    BY <1>1, FS_EmptySet
  <2> QED
    BY <2>1
<1>2. CASE S # {}
  <2>1. PICK m \in S : \A j \in S : m <= j
    <3>1. S \subseteq Nat
      BY <1>0
    <3> HIDE DEF S
    <3> QED
      BY <1>2, <3>1, LeastNat
  <2>2. m \in 1 .. Len(a) /\ m \in Nat /\ a[m] \in Int /\ t - window < a[m]
    BY <1>0, <2>1
  <2>3. ASSUME NEW j \in S PROVE j \in m .. m + max - 1
    <3>1. j \in 1 .. Len(a) /\ j \in Nat /\ m <= j /\ a[j] \in Int /\ a[j] <= t
      BY <1>0, <2>1, <2>3
    <3>2. ASSUME m + max <= j PROVE FALSE
      <4>1. m + max \in 1 .. Len(a) /\ m + max <= Len(a)
        BY <2>2, <3>1, <3>2
      <4>2. a[m + max] \in Int /\ a[m] + window <= a[m + max]
        BY <1>0, <2>2, <4>1 DEF Spaced
      <4>3. a[m + max] <= a[j]
        BY <3>1, <3>2, <4>1 DEF Sorted
      <4> QED
        BY <2>2, <3>1, <4>2, <4>3
    <3> QED
      BY <2>2, <3>1, <3>2
  <2>4. S \subseteq m .. m + max - 1
    BY <2>3
  <2>5. m + max - 1 \in Int /\ m \in Int /\ (m + max - 1) - m + 1 = max
    BY <2>2
  <2>6. /\ IsFiniteSet(m .. m + max - 1)
        /\ Cardinality(m .. m + max - 1) <= max
    <3>1. Cardinality(m .. m + max - 1) =
              IF m > m + max - 1 THEN 0 ELSE (m + max - 1) - m + 1
      BY <2>5, FS_Interval
    <3>2. IsFiniteSet(m .. m + max - 1)
      BY <2>5, FS_Interval
    <3> QED
      BY <2>5, <3>1, <3>2
  <2>7. /\ Cardinality(S) <= Cardinality(m .. m + max - 1)
        /\ Cardinality(S) \in Nat /\ Cardinality(m .. m + max - 1) \in Nat
    <3> HIDE DEF S
    <3> QED
      BY <2>4, <2>6, FS_Subset, FS_CardinalityType
  <2> HIDE DEF S
  <2>8. Cardinality(S) <= max
    BY <2>6, <2>7
  <2> QED
    BY <2>8 DEF S
<1> QED
  BY <1>1, <1>2

(* A driver gets at most max code attempts in any window: any window of any   *)
(* run, wherever it begins, although codeRateLimiter.Allow only ever looks at *)
(* the one that ends now and forgets what is older.                           *)
THEOREM AttemptsLimited == Spec => []LimitPerWindow
<1>1. LimitInv => LimitPerWindow
  <2> SUFFICES ASSUME LimitInv PROVE LimitPerWindow
    OBVIOUS
  <2>1. window \in Nat /\ max \in Nat /\ now \in Int
    BY BoardingAssumption DEF LimitInv, Typed, TypeOK
  <2>2. ASSUME NEW d \in Drivers, NEW t \in 0 .. now
        PROVE  Cardinality({i \in DOMAIN allowed[d] :
                               t - window < allowed[d][i] /\ allowed[d][i] <= t}) <= max
    <3>1. allowed[d] \in Seq(Int) /\ Sorted(allowed[d]) /\ Spaced(allowed[d])
      BY <2>2 DEF LimitInv, Limited
    <3>2. t \in Int
      BY <2>1
    <3> QED
      BY <2>1, <3>1, <3>2, NoMoreThanMax
  <2> QED
    BY <2>2 DEF LimitPerWindow
<1> QED
  BY <1>1, LimitInit, LimitNext, PTL DEF Spec
=============================================================================
