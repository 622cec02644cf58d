--------------------------- MODULE FuelQuotaProofs ---------------------------
(* Proofs, for any number of requests, vehicles, owners and amounts, that the *)
(* fuel tables keep their types, that the counters of a vehicle's row are the *)
(* sums of its pump sessions, and that the row locks leave the CHECKs of the  *)
(* row nothing to refuse.                                                     *)
EXTENDS FuelQuota, Inductions

(* The statements of the three transactions.                                  *)
Statement(op) ==
    [fund |-> {"owner", "balance", "sum", "upsert", "commit"},
     authorize |-> {"select", "insert", "update", "commit"},
     confirm |-> {"find", "debit", "mark", "commit"}][op]

(* A request runs the statements of its own operation.                        *)
PcFits == \A p \in Requests : pc[p] \in TxPcs => pc[p] \in Statement(req[p].op)

(* Only a pump session that has committed has an authorization.               *)
AuthFits ==
    \A p \in Requests : auth[p] # "none" => req[p].op = "authorize" /\ pc[p] \in {"ok", "failed"}

(* A row has one holder of its lock.                                          *)
LocksExclude ==
    \A p, q \in Requests :
        p # q => /\ HoldsQuota(p) /\ HoldsQuota(q) => VehicleOf(p) # VehicleOf(q)
                 /\ HoldsAuth(p) /\ HoldsAuth(q) => req[p].ref # req[q].ref

(* What a transaction has read under a lock holds until it ends: the          *)
(* authorization it confirms is still reserved ...                            *)
StillReserved == \A p \in Requests : HoldsAuth(p) => auth[req[p].ref] = "reserved"

(* ... and the quota covers what it is about to reserve.                      *)
Fits(v, amount) == amount <= quota[v] - reserved[v] - used[v]

(* An authorization whose transaction holds the row still fits the quota.     *)
StillFits ==
    \A p \in Requests :
        req[p].op = "authorize" /\ HoldsQuota(p) => Fits(req[p].vehicle, req[p].amount)

(* The pump sessions of a vehicle, by the status of their authorization.      *)
PumpSessions(v, status) ==
    {p \in Requests : req[p].op = "authorize" /\ req[p].vehicle = v /\ auth[p] = status}

(* The summands of a quota row.                                               *)
Amount == [p \in Requests |-> req[p].amount]

(* A quota row is the sum of its vehicle's pump sessions, by their status.    *)
RowIsSum ==
    \A v \in Vehicles : /\ reserved[v] = SumOver(PumpSessions(v, "reserved"), Amount)
                        /\ used[v] = SumOver(PumpSessions(v, "confirmed"), Amount)

(* The inductive invariant.                                                   *)
FuelInv ==
    /\ TypeOK
    /\ PcFits
    /\ AuthFits
    /\ LocksExclude
    /\ StillReserved
    /\ StillFits
    /\ RowIsSum

-----------------------------------------------------------------------------
(* What a request of each operation asks for.                                 *)
LEMMA RequestFacts ==
    ASSUME TypeOK, NEW p \in Requests
    PROVE  /\ req[p].op \in {"fund", "authorize", "confirm"}
           /\ req[p].op = "fund" => req[p].owner \in Owners
           /\ req[p].op # "confirm" => req[p].vehicle \in Vehicles
           /\ req[p].op = "confirm" => req[p].ref \in Requests
           /\ req[p].amount \in Nat
<1> USE OpeningAssumption
<1>1. req[p] \in Request
  BY DEF TypeOK
<1>2. \/ req[p] \in [op : {"fund"}, owner : Owners, vehicle : Vehicles, amount : Amounts,
                     ref : {NULL}]
      \/ req[p] \in [op : {"authorize"}, owner : {NULL}, vehicle : Vehicles,
                     amount : Amounts, ref : {NULL}]
      \/ req[p] \in [op : {"confirm"}, owner : {NULL}, vehicle : {NULL}, amount : {0},
                     ref : Requests]
  BY <1>1 DEF Request
<1>3. CASE req[p] \in [op : {"fund"}, owner : Owners, vehicle : Vehicles,
                      amount : Amounts, ref : {NULL}]
  BY <1>3
<1>4. CASE req[p] \in [op : {"authorize"}, owner : {NULL}, vehicle : Vehicles,
                      amount : Amounts, ref : {NULL}]
  BY <1>4
<1>5. CASE req[p] \in [op : {"confirm"}, owner : {NULL}, vehicle : {NULL},
                      amount : {0}, ref : Requests]
  BY <1>5
<1> QED
  BY <1>2, <1>3, <1>4, <1>5

(* A transaction that holds the row of a vehicle holds that of one there is.  *)
LEMMA HeldVehicle ==
    ASSUME FuelInv, NEW p \in Requests, HoldsQuota(p)
    PROVE  VehicleOf(p) \in Vehicles /\ Session(p) \in Requests /\ AmountOf(p) \in Nat
<1>1. CASE req[p].op # "confirm"
  BY <1>1, RequestFacts DEF FuelInv, VehicleOf, Session, AmountOf
<1>2. CASE req[p].op = "confirm"
  <2>1. HoldsAuth(p)
    BY <1>2 DEF HoldsQuota, HoldsAuth
  <2>2. req[p].ref \in Requests /\ auth[req[p].ref] = "reserved"
    BY <1>2, <2>1, RequestFacts DEF FuelInv, StillReserved
  <2>3. req[req[p].ref].op = "authorize"
    BY <2>2 DEF FuelInv, AuthFits
  <2> QED
    BY <1>2, <2>2, <2>3, RequestFacts DEF FuelInv, VehicleOf, Session, AmountOf
<1> QED
  BY <1>1, <1>2

-----------------------------------------------------------------------------
(* The start satisfies the invariant.                                         *)
LEMMA FuelInit == Init => FuelInv
<1> SUFFICES ASSUME Init PROVE FuelInv
  OBVIOUS
<1> USE FleetAssumption, OpeningAssumption, CallsAssumption
<1>1. TypeOK
  BY DEF Init, TypeOK
<1>2. PcFits /\ AuthFits /\ StillReserved /\ StillFits /\ LocksExclude
  BY DEF Init, PcFits, AuthFits, StillReserved, StillFits, LocksExclude, HoldsQuota,
         HoldsAuth, TxPcs
<1>3. RowIsSum
  <2>1. ASSUME NEW v \in Vehicles
        PROVE  PumpSessions(v, "reserved") = {} /\ PumpSessions(v, "confirmed") = {}
    BY DEF Init, PumpSessions
  <2> QED
    BY <2>1, SumEmpty DEF Init, RowIsSum
<1> QED
  BY <1>1, <1>2, <1>3 DEF FuelInv

(* A step of p to label l that changes no table keeps the invariant if l is a *)
(* statement of p's operation and p may hold what it then holds.              *)
LEMMA QuietStep ==
    ASSUME FuelInv, NEW p \in Requests,
           NEW l \in Answers \cup TxPcs \cup {"begin"},
           Goto(p, l), UNCHANGED <<req, Tables>>, seen' \in [Requests -> Nat],
           pc[p] \notin Answers,
           l \in TxPcs => l \in Statement(req[p].op),
           HoldsQuota(p)' => HoldsQuota(p) \/ QuotaFree(p),
           HoldsAuth(p)' => \/ HoldsAuth(p)
                            \/ AuthFree(p) /\ auth[req[p].ref] = "reserved",
           req[p].op = "authorize" /\ HoldsQuota(p)' => Fits(req[p].vehicle, req[p].amount)
    PROVE  FuelInv'
<1>0. /\ pc'[p] = l
      /\ pc' \in [Requests -> Answers \cup TxPcs \cup {"idle", "begin"}]
      /\ \A q \in Requests : q # p => pc'[q] = pc[q]
  BY DEF FuelInv, TypeOK, Goto
<1>1. TypeOK'
  BY <1>0 DEF FuelInv, TypeOK, Tables
<1>2. PcFits'
  BY <1>0 DEF FuelInv, PcFits
<1>3. AuthFits'
  BY <1>0 DEF FuelInv, AuthFits, Tables, Answers
<1>4. \A q \in Requests :
          /\ VehicleOf(q)' = VehicleOf(q)
          /\ q # p => (HoldsQuota(q)' <=> HoldsQuota(q)) /\ (HoldsAuth(q)' <=> HoldsAuth(q))
  BY <1>0 DEF VehicleOf, Session, HoldsQuota, HoldsAuth
<1>5. LocksExclude'
  <2> SUFFICES ASSUME NEW q \in Requests, NEW r \in Requests, q # r
               PROVE  /\ HoldsQuota(q)' /\ HoldsQuota(r)' => VehicleOf(q) # VehicleOf(r)
                      /\ HoldsAuth(q)' /\ HoldsAuth(r)' => req[q].ref # req[r].ref
    BY <1>4 DEF LocksExclude
  <2>1. CASE q # p /\ r # p
    BY <2>1, <1>4 DEF FuelInv, LocksExclude
  <2>2. CASE q = p
    BY <2>2, <1>4 DEF FuelInv, LocksExclude, QuotaFree, AuthFree
  <2>3. CASE r = p
    BY <2>3, <1>4 DEF FuelInv, LocksExclude, QuotaFree, AuthFree
  <2> QED
    BY <2>1, <2>2, <2>3
<1>6. StillReserved'
  BY <1>4 DEF FuelInv, StillReserved, HoldsAuth, Tables
<1>7. StillFits'
  <2>1. \A v, n : Fits(v, n)' <=> Fits(v, n)
    BY DEF Fits, Tables
  <2> QED
    BY <2>1, <1>4 DEF FuelInv, StillFits
<1>8. RowIsSum'
  BY DEF FuelInv, RowIsSum, PumpSessions, Amount, Tables
<1> QED
  BY <1>1, <1>2, <1>3, <1>5, <1>6, <1>7, <1>8 DEF FuelInv

(* The statements of a transaction and what ends it without a commit.         *)
LEMMA StatementStep ==
    ASSUME FuelInv, NEW p \in Requests,
           \/ Start(p) \/ Begin(p) \/ CheckOwner(p) \/ ReadBalance(p) \/ CheckEarmarks(p)
           \/ Upsert(p) \/ SelectQuota(p) \/ InsertAuthorization(p) \/ UpdateReserved(p)
           \/ FindAuthorization(p) \/ DebitQuota(p) \/ MarkConfirmed(p) \/ Cancel(p)
    PROVE  FuelInv'
<1>0. /\ TypeOK /\ seen \in [Requests -> Nat]
      /\ pc[p] \in TxPcs => pc[p] \in Statement(req[p].op)
      /\ req[p].op \in {"fund", "authorize", "confirm"}
      /\ \A l : Goto(p, l) => pc'[p] = l
  BY RequestFacts DEF FuelInv, PcFits, TypeOK, Goto
<1> USE DEF Answers, TxPcs, Statement
<1>1. CASE Start(p)
  <2>1. ~ HoldsQuota(p)' /\ ~ HoldsAuth(p)'
    BY <1>0, <1>1 DEF Start, HoldsQuota, HoldsAuth
  <2> QED
    BY <1>0, <1>1, <2>1, QuietStep DEF Start
<1>2. CASE Begin(p)
  <2> DEFINE l == [fund |-> "owner", authorize |-> "select", confirm |-> "find"][req[p].op]
  <2>1. Goto(p, l) /\ l \in TxPcs /\ l \in Statement(req[p].op) /\ l # "commit"
    BY <1>0, <1>2 DEF Begin
  <2>2. l \in {"owner", "select", "find"}
    BY <1>0
  <2> HIDE DEF l
  <2>3. ~ HoldsQuota(p)' /\ ~ HoldsAuth(p)'
    BY <1>0, <2>1, <2>2 DEF HoldsQuota, HoldsAuth
  <2> QED
    BY <1>0, <1>2, <2>1, <2>3, QuietStep DEF Begin
<1>3. CASE CheckOwner(p)
  <2>1. req[p].op = "fund"
    BY <1>0, <1>3 DEF CheckOwner
  <2>2. PICK l \in {"balance", "not_owner"} : Goto(p, l)
    BY <1>3 DEF CheckOwner
  <2>3. ~ HoldsQuota(p)' /\ ~ HoldsAuth(p)'
    BY <1>0, <1>3, <2>1, <2>2 DEF CheckOwner, HoldsQuota, HoldsAuth
  <2>4. /\ pc[p] = "owner" /\ UNCHANGED <<req, seen, Tables>>
        /\ l \in Answers \cup TxPcs /\ (l \in TxPcs => l \in Statement("fund"))
    BY <1>3, <2>2 DEF CheckOwner
  <2> QED
    BY <1>0, <2>1, <2>2, <2>3, <2>4, QuietStep
<1>4. CASE ReadBalance(p)
  <2>1. req[p].op = "fund"
    BY <1>0, <1>4 DEF ReadBalance
  <2>2. ~ HoldsQuota(p)' /\ ~ HoldsAuth(p)'
    BY <1>0, <1>4, <2>1 DEF ReadBalance, HoldsQuota, HoldsAuth
  <2>3. seen' \in [Requests -> Nat]
    <3>1. req[p].owner \in Owners
      BY <1>0, <2>1, RequestFacts
    <3>2. withheld[req[p].owner] \in Nat /\ seen \in [Requests -> Nat]
      BY <1>0, <3>1 DEF TypeOK
    <3>3. seen' = [seen EXCEPT ![p] = withheld[req[p].owner]]
      BY <1>4 DEF ReadBalance
    <3> QED
      BY <3>2, <3>3
  <2>4. /\ pc[p] = "balance" /\ Goto(p, "sum") /\ UNCHANGED <<req, Tables>>
        /\ "sum" \in Statement("fund")
    BY <1>4 DEF ReadBalance
  <2> QED
    BY <1>0, <2>1, <2>2, <2>3, <2>4, QuietStep
<1>5. CASE CheckEarmarks(p)
  <2>1. req[p].op = "fund"
    BY <1>0, <1>5 DEF CheckEarmarks
  <2>2. PICK l \in {"insufficient", "upsert"} : Goto(p, l)
    BY <1>5 DEF CheckEarmarks
  <2>3. ~ HoldsQuota(p)' /\ ~ HoldsAuth(p)'
    BY <1>0, <1>5, <2>1, <2>2 DEF CheckEarmarks, HoldsQuota, HoldsAuth
  <2>4. /\ pc[p] = "sum" /\ UNCHANGED <<req, seen, Tables>>
        /\ l \in Answers \cup TxPcs /\ (l \in TxPcs => l \in Statement("fund"))
    BY <1>5, <2>2 DEF CheckEarmarks
  <2> QED
    BY <1>0, <2>1, <2>2, <2>3, <2>4, QuietStep
<1>6. CASE Upsert(p)
  <2>1. req[p].op = "fund"
    BY <1>0, <1>6 DEF Upsert
  <2>2. ~ HoldsAuth(p)'
    BY <1>6, <2>1 DEF Upsert, HoldsAuth
  <2>3. /\ pc[p] = "upsert" /\ QuotaFree(p) /\ Goto(p, "commit")
        /\ UNCHANGED <<req, seen, Tables>> /\ "commit" \in Statement("fund")
    BY <1>6 DEF Upsert
  <2> QED
    BY <1>0, <2>1, <2>2, <2>3, QuietStep
<1>7. CASE SelectQuota(p)
  <2> DEFINE v == req[p].vehicle
  <2>1. req[p].op = "authorize"
    BY <1>0, <1>7 DEF SelectQuota
  <2>2. ~ HoldsAuth(p)'
    BY <1>7, <2>1 DEF SelectQuota, HoldsAuth
  <2>3. /\ v \in Vehicles /\ quota[v] \in Nat /\ reserved[v] \in Nat /\ used[v] \in Nat
        /\ req[p].amount \in Nat
    BY <1>0, <2>1, RequestFacts DEF TypeOK
  <2>4. CASE quota[v] = 0 \/ req[p].amount > quota[v] - reserved[v] - used[v]
    <3>1. Goto(p, "denied")
      BY <1>7, <2>4 DEF SelectQuota
    <3>2. ~ HoldsQuota(p)'
      BY <1>0, <1>7, <2>1, <3>1 DEF SelectQuota, HoldsQuota
    <3> QED
      BY <1>0, <1>7, <2>1, <2>2, <3>1, <3>2, QuietStep DEF SelectQuota
  <2>5. CASE ~ (quota[v] = 0 \/ req[p].amount > quota[v] - reserved[v] - used[v])
    <3>1. Goto(p, "insert") /\ QuotaFree(p)
      BY <1>7, <2>5 DEF SelectQuota
    <3>2. Fits(v, req[p].amount)
      BY <2>3, <2>5 DEF Fits
    <3>3. /\ pc[p] = "select" /\ UNCHANGED <<req, seen, Tables>>
          /\ "insert" \in Statement("authorize")
      BY <1>7 DEF SelectQuota
    <3> QED
      BY <1>0, <2>1, <2>2, <3>1, <3>2, <3>3, QuietStep
  <2> QED
    BY <2>4, <2>5
<1>8. CASE InsertAuthorization(p)
  <2>1. req[p].op = "authorize" /\ HoldsQuota(p)
    BY <1>0, <1>8 DEF InsertAuthorization, HoldsQuota
  <2>2. ~ HoldsAuth(p)'
    BY <1>8, <2>1 DEF InsertAuthorization, HoldsAuth
  <2>3. Fits(req[p].vehicle, req[p].amount)
    BY <2>1 DEF FuelInv, StillFits
  <2>4. /\ pc[p] = "insert" /\ Goto(p, "update") /\ UNCHANGED <<req, seen, Tables>>
        /\ "update" \in Statement("authorize")
    BY <1>8 DEF InsertAuthorization
  <2> QED
    BY <1>0, <2>1, <2>2, <2>3, <2>4, QuietStep
<1>9. CASE UpdateReserved(p)
  <2>1. req[p].op = "authorize" /\ HoldsQuota(p)
    BY <1>0, <1>9 DEF UpdateReserved, HoldsQuota
  <2>2. ~ HoldsAuth(p)'
    BY <1>9, <2>1 DEF UpdateReserved, HoldsAuth
  <2>3. Fits(req[p].vehicle, req[p].amount)
    BY <2>1 DEF FuelInv, StillFits
  <2>4. PICK l \in {"commit", "failed"} : Goto(p, l)
    BY <1>9 DEF UpdateReserved
  <2>5. /\ pc[p] = "update" /\ UNCHANGED <<req, seen, Tables>>
        /\ l \in Answers \cup TxPcs /\ (l \in TxPcs => l \in Statement("authorize"))
    BY <1>9, <2>4 DEF UpdateReserved
  <2> QED
    BY <1>0, <2>1, <2>2, <2>3, <2>4, <2>5, QuietStep
<1>10. CASE FindAuthorization(p)
  <2>1. req[p].op = "confirm"
    BY <1>0, <1>10 DEF FindAuthorization
  <2>2. auth[req[p].ref] \in {"none", "reserved", "confirmed"}
    BY <1>0, <2>1, RequestFacts DEF TypeOK
  <2>3. PICK l \in {"not_found", "debit", "already"} :
            Goto(p, l) /\ (l = "debit" => auth[req[p].ref] = "reserved")
    BY <1>10, <2>2 DEF FindAuthorization
  <2>4. ~ HoldsQuota(p)'
    BY <1>0, <1>10, <2>1, <2>3 DEF FindAuthorization, HoldsQuota
  <2>5. HoldsAuth(p)' => l = "debit"
    BY <1>0, <2>3 DEF HoldsAuth
  <2>6. /\ pc[p] = "find" /\ AuthFree(p) /\ UNCHANGED <<req, seen, Tables>>
        /\ l \in Answers \cup TxPcs
        /\ l \in TxPcs => l \in Statement("confirm")
    BY <1>10, <2>3 DEF FindAuthorization
  <2> QED
    BY <1>0, <2>1, <2>3, <2>4, <2>5, <2>6, QuietStep
<1>11. CASE DebitQuota(p)
  <2>1. req[p].op = "confirm" /\ HoldsAuth(p)
    BY <1>0, <1>11 DEF DebitQuota, HoldsAuth
  <2>2. PICK l \in {"mark", "failed"} : Goto(p, l)
    BY <1>11 DEF DebitQuota
  <2>3. /\ pc[p] = "debit" /\ QuotaFree(p) /\ UNCHANGED <<req, seen, Tables>>
        /\ l \in Answers \cup TxPcs /\ (l \in TxPcs => l \in Statement("confirm"))
    BY <1>11, <2>2 DEF DebitQuota
  <2> QED
    BY <1>0, <2>1, <2>2, <2>3, QuietStep
<1>12. CASE MarkConfirmed(p)
  <2>1. req[p].op = "confirm" /\ HoldsAuth(p) /\ HoldsQuota(p)
    BY <1>0, <1>12 DEF MarkConfirmed, HoldsAuth, HoldsQuota
  <2>2. /\ pc[p] = "mark" /\ Goto(p, "commit") /\ UNCHANGED <<req, seen, Tables>>
        /\ "commit" \in Statement("confirm")
    BY <1>12 DEF MarkConfirmed
  <2> QED
    BY <1>0, <2>1, <2>2, QuietStep
<1>13. CASE Cancel(p)
  <2>1. ~ HoldsQuota(p)' /\ ~ HoldsAuth(p)'
    BY <1>0, <1>13 DEF Cancel, HoldsQuota, HoldsAuth
  <2> QED
    BY <1>0, <1>13, <2>1, QuietStep DEF Cancel, Busy
<1> QED
  BY <1>1, <1>2, <1>3, <1>4, <1>5, <1>6, <1>7, <1>8, <1>9, <1>10, <1>11, <1>12, <1>13

(* What a commit leaves as it was: everything about other requests and other  *)
(* vehicles, and the locks of its own request are gone.                       *)
LEMMA CommitFrame ==
    ASSUME FuelInv, NEW p \in Requests, Commit(p) \/ CommitLost(p)
    PROVE  /\ pc[p] = "commit" /\ pc'[p] \in {"ok", "failed"} /\ HoldsQuota(p)
           /\ pc' \in [Requests -> Answers \cup TxPcs \cup {"idle", "begin"}]
           /\ \A q \in Requests : q # p => pc'[q] = pc[q]
           /\ Apply(p) /\ req' = req /\ seen' = seen /\ withheld' = withheld
           /\ \A q \in Requests : HoldsQuota(q)' => q # p /\ HoldsQuota(q)
                                                          /\ VehicleOf(q) # VehicleOf(p)
           /\ \A q \in Requests : HoldsAuth(q)' => q # p /\ HoldsAuth(q)
           /\ \A v \in Vehicles : v # VehicleOf(p) => /\ quota'[v] = quota[v]
                                                      /\ reserved'[v] = reserved[v]
                                                      /\ used'[v] = used[v]
<1>1. TypeOK /\ Apply(p) /\ pc[p] = "commit" /\ (Goto(p, "ok") \/ Goto(p, "failed"))
  BY DEF FuelInv, Commit, CommitLost
<1>2. /\ pc'[p] \in {"ok", "failed"}
      /\ pc' \in [Requests -> Answers \cup TxPcs \cup {"idle", "begin"}]
      /\ \A q \in Requests : q # p => pc'[q] = pc[q]
  BY <1>1 DEF Goto, TypeOK, Answers
<1>3. req' = req /\ seen' = seen /\ withheld' = withheld
  BY <1>1 DEF Apply
<1>4. HoldsQuota(p)
  BY <1>1, RequestFacts DEF HoldsQuota
<1>5. ASSUME NEW q \in Requests, HoldsQuota(q)'
      PROVE  q # p /\ HoldsQuota(q) /\ VehicleOf(q) # VehicleOf(p)
  <2>1. q # p
    BY <1>2, <1>5 DEF HoldsQuota
  <2>2. HoldsQuota(q)
    BY <1>2, <1>3, <1>5, <2>1 DEF HoldsQuota
  <2> QED
    BY <1>4, <2>1, <2>2 DEF FuelInv, LocksExclude
<1>6. ASSUME NEW q \in Requests, HoldsAuth(q)' PROVE q # p /\ HoldsAuth(q)
  BY <1>2, <1>3, <1>6 DEF HoldsAuth
<1>7. ASSUME NEW v \in Vehicles, v # VehicleOf(p)
      PROVE  quota'[v] = quota[v] /\ reserved'[v] = reserved[v] /\ used'[v] = used[v]
  BY <1>1, <1>7 DEF Apply, TypeOK
<1> QED
  BY <1>1, <1>2, <1>3, <1>4, <1>5, <1>6, <1>7

(* The sessions of a vehicle are finitely many, and their amounts naturals.   *)
LEMMA SessionsFinite ==
    ASSUME TypeOK, NEW v, NEW status
    PROVE  /\ IsFiniteSet(PumpSessions(v, status))
           /\ PumpSessions(v, status) \subseteq Requests
           /\ \A q \in Requests : Amount[q] \in Nat /\ Amount[q] \in Int
<1>1. IsFiniteSet(PumpSessions(v, status))
  BY RequestsAssumption, FS_Subset DEF PumpSessions
<1>2. PumpSessions(v, status) \subseteq Requests
  BY DEF PumpSessions
<1>3. \A q \in Requests : Amount[q] \in Nat
  BY RequestFacts DEF Amount
<1> QED
  BY <1>1, <1>2, <1>3

(* A commit of a funding adds to the quota of its vehicle, ...                *)
LEMMA FundCommit ==
    ASSUME FuelInv, NEW p \in Requests, Commit(p) \/ CommitLost(p), req[p].op = "fund"
    PROVE  FuelInv'
<1> DEFINE v == req[p].vehicle
<1>1. TypeOK /\ VehicleOf(p) = v /\ AmountOf(p) = req[p].amount /\ Session(p) = p
  BY DEF FuelInv, VehicleOf, AmountOf, Session
<1>2. v \in Vehicles /\ req[p].amount \in Nat
  BY <1>1, RequestFacts
<1>3. /\ quota' = [quota EXCEPT ![v] = @ + req[p].amount]
      /\ reserved' = reserved /\ used' = used /\ auth' = auth
  BY <1>1, <1>2, CommitFrame DEF Apply, TypeOK
<1>4. TypeOK'
  BY <1>1, <1>2, <1>3, CommitFrame DEF TypeOK
<1>5. PcFits' /\ AuthFits'
  BY <1>3, CommitFrame DEF FuelInv, PcFits, AuthFits, TxPcs
<1>6. LocksExclude'
  BY CommitFrame DEF FuelInv, LocksExclude, VehicleOf, Session
<1>7. StillReserved'
  BY <1>3, CommitFrame DEF FuelInv, StillReserved
<1>8. StillFits'
  <2> SUFFICES ASSUME NEW q \in Requests, req[q].op = "authorize", HoldsQuota(q)'
               PROVE  Fits(req[q].vehicle, req[q].amount)'
    BY CommitFrame DEF StillFits
  <2>1. HoldsQuota(q) /\ VehicleOf(q) = req[q].vehicle /\ req[q].vehicle # v
    BY <1>1, CommitFrame DEF VehicleOf, Session
  <2>2. req[q].vehicle \in Vehicles /\ Fits(req[q].vehicle, req[q].amount)
    BY <1>1, <2>1, RequestFacts DEF FuelInv, StillFits
  <2> QED
    BY <1>1, <2>1, <2>2, CommitFrame DEF Fits
<1>9. RowIsSum'
  <2>1. req' = req
    BY CommitFrame
  <2> QED
    BY <1>3, <2>1 DEF FuelInv, RowIsSum, PumpSessions, Amount
<1> QED
  BY <1>4, <1>5, <1>6, <1>7, <1>8, <1>9 DEF FuelInv

(* ... that of an authorization moves its amount from free to reserved, ...   *)
LEMMA AuthorizeCommit ==
    ASSUME FuelInv, NEW p \in Requests, Commit(p) \/ CommitLost(p), req[p].op = "authorize"
    PROVE  FuelInv'
<1> DEFINE v == req[p].vehicle
<1>1. TypeOK /\ VehicleOf(p) = v /\ AmountOf(p) = req[p].amount /\ Session(p) = p
  BY DEF FuelInv, VehicleOf, AmountOf, Session
<1>2. v \in Vehicles /\ req[p].amount \in Nat
  BY <1>1, RequestFacts
<1>3. /\ reserved' = [reserved EXCEPT ![v] = @ + req[p].amount]
      /\ auth' = [auth EXCEPT ![p] = "reserved"]
      /\ quota' = quota /\ used' = used
  BY <1>1, <1>2, CommitFrame DEF Apply, TypeOK
<1>4. auth[p] = "none"
  <2>1. pc[p] = "commit"
    BY CommitFrame
  <2> QED
    BY <2>1, <1>1 DEF FuelInv, AuthFits
<1>5. TypeOK'
  BY <1>1, <1>2, <1>3, CommitFrame DEF TypeOK
<1>6. PcFits' /\ AuthFits'
  BY <1>1, <1>3, CommitFrame DEF FuelInv, TypeOK, PcFits, AuthFits, TxPcs
<1>7. LocksExclude'
  BY CommitFrame DEF FuelInv, LocksExclude, VehicleOf, Session
<1>8. StillReserved'
  <2> SUFFICES ASSUME NEW q \in Requests, HoldsAuth(q)' PROVE auth'[req[q].ref] = "reserved"
    BY CommitFrame DEF StillReserved
  <2>1. HoldsAuth(q) /\ req[q].op = "confirm"
    BY CommitFrame DEF HoldsAuth
  <2>2. req[q].ref \in Requests /\ auth[req[q].ref] = "reserved"
    BY <1>1, <2>1, RequestFacts DEF FuelInv, StillReserved
  <2> QED
    BY <1>1, <1>3, <2>2 DEF TypeOK
<1>9. StillFits'
  <2> SUFFICES ASSUME NEW q \in Requests, req[q].op = "authorize", HoldsQuota(q)'
               PROVE  Fits(req[q].vehicle, req[q].amount)'
    BY CommitFrame DEF StillFits
  <2>1. HoldsQuota(q) /\ VehicleOf(q) = req[q].vehicle /\ req[q].vehicle # v
    BY <1>1, CommitFrame DEF VehicleOf, Session
  <2>2. req[q].vehicle \in Vehicles /\ Fits(req[q].vehicle, req[q].amount)
    BY <1>1, <2>1, RequestFacts DEF FuelInv, StillFits
  <2> QED
    BY <1>1, <2>1, <2>2, CommitFrame DEF Fits
<1>10. RowIsSum'
  <2> SUFFICES ASSUME NEW u \in Vehicles
               PROVE  /\ reserved'[u] = SumOver(PumpSessions(u, "reserved")', Amount)
                      /\ used'[u] = SumOver(PumpSessions(u, "confirmed")', Amount)
    BY CommitFrame DEF RowIsSum, Amount
  <2>1. PumpSessions(u, "confirmed")' = PumpSessions(u, "confirmed")
    BY <1>1, <1>3, <1>4, CommitFrame DEF PumpSessions, TypeOK
  <2>2. CASE u # v
    <3>1. PumpSessions(u, "reserved")' = PumpSessions(u, "reserved")
      BY <1>1, <1>3, <2>2, CommitFrame DEF PumpSessions, TypeOK
    <3> QED
      BY <1>1, <1>3, <2>1, <2>2, <3>1 DEF FuelInv, RowIsSum, TypeOK
  <2>3. CASE u = v
    <3> DEFINE S == PumpSessions(v, "reserved")
    <3>1. PumpSessions(u, "reserved")' = S \cup {p} /\ p \notin S
      BY <1>1, <1>3, <1>4, <2>3, CommitFrame DEF PumpSessions, TypeOK
    <3>2. SumOver(S \cup {p}, Amount) = SumOver(S, Amount) + Amount[p]
      <4>1. IsFiniteSet(S) /\ \A x \in S \cup {p} : Amount[x] \in Int
        BY <1>1, SessionsFinite
      <4> HIDE DEF S
      <4> QED
        BY <3>1, <4>1, SumAdd
    <3>3. reserved'[v] = SumOver(S, Amount) + Amount[p]
      BY <1>1, <1>2, <1>3 DEF FuelInv, RowIsSum, TypeOK, Amount
    <3>4. used'[v] = SumOver(PumpSessions(v, "confirmed"), Amount)
      BY <1>2, <1>3 DEF FuelInv, RowIsSum
    <3> QED
      BY <2>1, <2>3, <3>1, <3>2, <3>3, <3>4
  <2> QED
    BY <2>2, <2>3
<1> QED
  BY <1>5, <1>6, <1>7, <1>8, <1>9, <1>10 DEF FuelInv

(* ... and that of a confirmation from reserved to used, of which there is    *)
(* enough because the authorization is one of those that add up to it.        *)
LEMMA ConfirmCommit ==
    ASSUME FuelInv, NEW p \in Requests, Commit(p) \/ CommitLost(p), req[p].op = "confirm"
    PROVE  FuelInv'
<1> DEFINE s == req[p].ref
           v == req[s].vehicle
           n == req[s].amount
<1>1. TypeOK /\ VehicleOf(p) = v /\ AmountOf(p) = n /\ Session(p) = s /\ HoldsAuth(p)
  BY CommitFrame DEF FuelInv, VehicleOf, AmountOf, Session, HoldsAuth
<1>2. s \in Requests /\ auth[s] = "reserved"
  BY <1>1, RequestFacts DEF FuelInv, StillReserved
<1>3. req[s].op = "authorize" /\ pc[s] \in {"ok", "failed"} /\ s # p
  <2>1. pc[p] = "commit"
    BY CommitFrame
  <2> QED
    BY <2>1, <1>2 DEF FuelInv, AuthFits
<1>4. v \in Vehicles /\ n \in Nat
  BY <1>1, <1>2, <1>3, RequestFacts
<1>5. /\ reserved' = [reserved EXCEPT ![v] = @ - n]
      /\ used' = [used EXCEPT ![v] = @ + n]
      /\ auth' = [auth EXCEPT ![s] = "confirmed"]
      /\ quota' = quota
  BY <1>1, <1>4, CommitFrame DEF Apply, TypeOK
<1> DEFINE R == PumpSessions(v, "reserved")
           C == PumpSessions(v, "confirmed")
<1>6. s \in R /\ s \notin C
  BY <1>2, <1>3 DEF PumpSessions
<1>7. /\ IsFiniteSet(R) /\ R \subseteq Requests
      /\ IsFiniteSet(C) /\ C \subseteq Requests
      /\ \A q \in Requests : Amount[q] \in Nat /\ Amount[q] \in Int
      /\ Amount[s] = n
  BY <1>1, <1>2, SessionsFinite DEF Amount
<1>8. reserved[v] = SumOver(R, Amount) /\ used[v] = SumOver(C, Amount)
  BY <1>4 DEF FuelInv, RowIsSum
<1>9. SumOver(R, Amount) = n + SumOver(R \ {s}, Amount) /\ SumOver(R \ {s}, Amount) \in Nat
  <2>1. IsFiniteSet(R \ {s})
    BY <1>7, FS_Subset
  <2> HIDE DEF R
  <2> QED
    BY <1>6, <1>7, <2>1, SumSplit, SumNat
<1>10. reserved'[v] = SumOver(R \ {s}, Amount) /\ reserved[v] \in Nat
  <2>1. reserved \in [Vehicles -> Nat] /\ reserved[v] \in Nat
    BY <1>1, <1>4 DEF TypeOK
  <2>2. reserved'[v] = reserved[v] - n
    BY <1>4, <1>5, <2>1
  <2>3. PICK rest \in Nat : rest = SumOver(R \ {s}, Amount)
    BY <1>9
  <2>4. reserved[v] = n + rest
    BY <1>8, <1>9, <2>3
  <2>5. reserved'[v] = rest
    BY <1>4, <2>2, <2>4
  <2> QED
    BY <2>1, <2>3, <2>5
<1>11. TypeOK'
  <2>1. reserved' \in [Vehicles -> Nat]
    BY <1>1, <1>4, <1>5, <1>9, <1>10 DEF TypeOK
  <2>2. used' \in [Vehicles -> Nat]
    BY <1>1, <1>4, <1>5 DEF TypeOK
  <2>3. auth' \in [Requests -> {"none", "reserved", "confirmed"}]
    BY <1>1, <1>5 DEF TypeOK
  <2>4. /\ pc' \in [Requests -> Answers \cup TxPcs \cup {"idle", "begin"}]
        /\ req' = req /\ seen' = seen /\ withheld' = withheld
    BY CommitFrame
  <2> QED
    BY <1>1, <1>5, <2>1, <2>2, <2>3, <2>4 DEF TypeOK
<1>12. PcFits' /\ AuthFits'
  <2>1. /\ pc'[p] \in {"ok", "failed"} /\ req' = req
        /\ \A q \in Requests : q # p => pc'[q] = pc[q]
    BY CommitFrame
  <2>2. auth'[s] = "confirmed" /\ \A q \in Requests : q # s => auth'[q] = auth[q]
    BY <1>1, <1>2, <1>5 DEF TypeOK
  <2>3. PcFits'
    BY <2>1 DEF FuelInv, PcFits, TxPcs
  <2>4. ASSUME NEW q \in Requests, auth'[q] # "none"
        PROVE  req[q].op = "authorize" /\ pc'[q] \in {"ok", "failed"}
    BY <1>3, <2>1, <2>2, <2>4 DEF FuelInv, AuthFits
  <2> QED
    BY <2>1, <2>3, <2>4 DEF AuthFits
<1>13. LocksExclude'
  BY CommitFrame DEF FuelInv, LocksExclude, VehicleOf, Session
<1>14. StillReserved'
  <2> SUFFICES ASSUME NEW q \in Requests, HoldsAuth(q)' PROVE auth'[req[q].ref] = "reserved"
    BY CommitFrame DEF StillReserved
  <2>1. HoldsAuth(q) /\ q # p
    BY CommitFrame
  <2>2. req[q].ref # s
    BY <1>1, <2>1 DEF FuelInv, LocksExclude
  <2>3. req[q].ref \in Requests /\ auth[req[q].ref] = "reserved"
    BY <1>1, <2>1, RequestFacts DEF FuelInv, StillReserved, HoldsAuth
  <2> QED
    BY <1>1, <1>5, <2>2, <2>3 DEF TypeOK
<1>15. StillFits'
  <2> SUFFICES ASSUME NEW q \in Requests, req[q].op = "authorize", HoldsQuota(q)'
               PROVE  Fits(req[q].vehicle, req[q].amount)'
    BY CommitFrame DEF StillFits
  <2>1. HoldsQuota(q) /\ VehicleOf(q) = req[q].vehicle /\ req[q].vehicle # v
    BY <1>1, CommitFrame DEF VehicleOf, Session
  <2>2. req[q].vehicle \in Vehicles /\ Fits(req[q].vehicle, req[q].amount)
    BY <1>1, <2>1, RequestFacts DEF FuelInv, StillFits
  <2> QED
    BY <1>1, <2>1, <2>2, CommitFrame DEF Fits
<1>16. /\ req' = req /\ auth'[s] = "confirmed" /\ \A q \in Requests : q # s => auth'[q] = auth[q]
  <2>1. req' = req
    BY CommitFrame
  <2>2. auth'[s] = "confirmed" /\ \A q \in Requests : q # s => auth'[q] = auth[q]
    BY <1>1, <1>2, <1>5 DEF TypeOK
  <2> QED
    BY <2>1, <2>2
<1>17. RowIsSum'
  <2> SUFFICES ASSUME NEW u \in Vehicles
               PROVE  /\ reserved'[u] = SumOver(PumpSessions(u, "reserved")', Amount)
                      /\ used'[u] = SumOver(PumpSessions(u, "confirmed")', Amount)
    BY CommitFrame DEF RowIsSum, Amount
  <2>1. CASE u # v
    <3>1. /\ PumpSessions(u, "reserved")' = PumpSessions(u, "reserved")
          /\ PumpSessions(u, "confirmed")' = PumpSessions(u, "confirmed")
      BY <1>2, <1>3, <1>16, <2>1 DEF PumpSessions
    <3> QED
      BY <1>1, <1>5, <2>1, <3>1 DEF FuelInv, RowIsSum, TypeOK
  <2>2. CASE u = v
    <3>1. PumpSessions(u, "reserved")' = R \ {s}
      BY <1>2, <1>3, <1>16, <2>2 DEF PumpSessions
    <3>2. PumpSessions(u, "confirmed")' = C \cup {s}
      BY <1>2, <1>3, <1>16, <2>2 DEF PumpSessions
    <3>3. SumOver(C \cup {s}, Amount) = SumOver(C, Amount) + n
      <4>1. \A x \in C \cup {s} : Amount[x] \in Int
        BY <1>2, <1>7
      <4>2. SumOver(C \cup {s}, Amount) = SumOver(C, Amount) + Amount[s]
        <5> HIDE DEF C, s
        <5> QED
          BY <1>6, <1>7, <4>1, SumAdd
      <4> QED
        BY <1>7, <4>2
    <3>4. used'[v] = SumOver(C, Amount) + n
      BY <1>1, <1>4, <1>5, <1>8 DEF TypeOK
    <3> QED
      BY <1>10, <2>2, <3>1, <3>2, <3>3, <3>4
  <2> QED
    BY <2>1, <2>2
<1> QED
  BY <1>11, <1>12, <1>13, <1>14, <1>15, <1>17 DEF FuelInv

(* Money that is withheld meanwhile touches none of this.                     *)
LEMMA RestStep ==
    ASSUME FuelInv, UNCHANGED <<pc, req, seen, quota, reserved, used, auth>>,
           withheld' \in [Owners -> Nat]
    PROVE  FuelInv'
<1>1. TypeOK'
  BY DEF FuelInv, TypeOK
<1>2. PcFits' /\ AuthFits'
  BY DEF FuelInv, PcFits, AuthFits
<1>3. LocksExclude' /\ StillReserved'
  BY DEF FuelInv, LocksExclude, StillReserved, HoldsQuota, HoldsAuth, VehicleOf, Session
<1>4. StillFits'
  BY DEF FuelInv, StillFits, Fits, HoldsQuota
<1>5. RowIsSum'
  BY DEF FuelInv, RowIsSum, PumpSessions, Amount
<1> QED
  BY <1>1, <1>2, <1>3, <1>4, <1>5 DEF FuelInv

(* Every step of a request keeps it.                                          *)
LEMMA FuelNext == FuelInv /\ [Next]_vars => FuelInv'
<1> SUFFICES ASSUME FuelInv, [Next]_vars PROVE FuelInv'
  OBVIOUS
<1>1. ASSUME NEW p \in Requests, Start(p) \/ ServerStep(p) \/ CommitLost(p) \/ Cancel(p)
      PROVE  FuelInv'
  <2>1. CASE Commit(p) \/ CommitLost(p)
    BY <2>1, FundCommit, AuthorizeCommit, ConfirmCommit, RequestFacts DEF FuelInv
  <2>2. CASE ~ (Commit(p) \/ CommitLost(p))
    BY <1>1, <2>2, StatementStep DEF ServerStep
  <2> QED
    BY <2>1, <2>2
<1>2. CASE \E o \in Owners, amount \in Amounts : Withhold(o, amount)
  <2>1. PICK o \in Owners, amount \in Amounts : Withhold(o, amount)
    BY <1>2
  <2>2. withheld' \in [Owners -> Nat]
    BY <2>1, OpeningAssumption DEF FuelInv, TypeOK, Withhold
  <2> QED
    BY <2>1, <2>2, RestStep DEF Withhold
<1>3. CASE UNCHANGED vars
  BY <1>3, RestStep DEF vars, FuelInv, TypeOK
<1> QED
  BY <1>1, <1>2, <1>3 DEF Next, Quiesced

(* The inductive invariant holds in every state.                              *)
LEMMA FuelInvariant == Spec => []FuelInv
BY FuelInit, FuelNext, PTL DEF Spec

-----------------------------------------------------------------------------
(* Whatever requests overlap, are repeated, fail or lose their answers, every *)
(* variable keeps its type: no reserved or used amount becomes negative.      *)
THEOREM TypeCorrect == Spec => []TypeOK
<1>1. FuelInv => TypeOK
  BY DEF FuelInv
<1> QED
  BY <1>1, FuelInvariant, PTL

(* The counters of a vehicle's row are the sums of the amounts of its pump    *)
(* sessions, by status: each is counted once, however often its device calls. *)
THEOREM RowsAddUp == Spec => []QuotaMatchesSessions
<1>1. FuelInv => QuotaMatchesSessions
  BY DEF FuelInv, RowIsSum, QuotaMatchesSessions, PumpSessions, Amount
<1> QED
  BY <1>1, FuelInvariant, PTL

(* No UPDATE that gets its turn is refused by a CHECK of the row it writes.   *)
THEOREM LocksMakeChecksRedundant == Spec => []ChecksNeverFire
<1>1. FuelInv => ChecksNeverFire
  <2> SUFFICES ASSUME FuelInv, NEW p \in Requests, pc[p] \in {"update", "debit"}
               PROVE  UpdateAllowed(p)
    BY DEF ChecksNeverFire
  <2>1. TypeOK /\ pc[p] \in Statement(req[p].op)
    BY DEF FuelInv, PcFits, TxPcs
  <2>2. CASE pc[p] = "update"
    <3>1. req[p].op = "authorize" /\ HoldsQuota(p)
      BY <2>1, <2>2, RequestFacts DEF Statement, HoldsQuota
    <3>2. Fits(req[p].vehicle, req[p].amount)
      BY <3>1 DEF FuelInv, StillFits
    <3> QED
      BY <2>1, <3>1, <3>2, RequestFacts
         DEF UpdateAllowed, Fits, VehicleOf, AmountOf, Session, TypeOK
  <2>3. CASE pc[p] = "debit"
    <3> DEFINE s == req[p].ref
               v == req[s].vehicle
    <3>1. req[p].op = "confirm" /\ HoldsAuth(p)
      BY <2>1, <2>3, RequestFacts DEF Statement, HoldsAuth
    <3>2. s \in Requests /\ auth[s] = "reserved" /\ req[s].op = "authorize"
      BY <2>1, <3>1, RequestFacts DEF FuelInv, StillReserved, AuthFits
    <3>3. s \in PumpSessions(v, "reserved") /\ v \in Vehicles
      BY <2>1, <3>2, RequestFacts DEF PumpSessions
    <3>4. Amount[s] <= SumOver(PumpSessions(v, "reserved"), Amount)
      BY <2>1, <3>3, SessionsFinite, SumBound
    <3>5. req[s].amount <= reserved[v]
      BY <3>2, <3>3, <3>4 DEF FuelInv, RowIsSum, Amount
    <3> QED
      BY <3>1, <3>5 DEF UpdateAllowed, VehicleOf, AmountOf, Session
  <2> QED
    BY <2>2, <2>3
<1> QED
  BY <1>1, FuelInvariant, PTL
=============================================================================
