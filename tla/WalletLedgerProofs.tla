-------------------------- MODULE WalletLedgerProofs --------------------------
(* Proofs, for every fleet, every set of requests and every fare split, that  *)
(* the wallet never overdraws an account, charges a key once, balances every  *)
(* transaction, keeps fuel money where it is, implements the atomic ledger    *)
(* and never locks itself in a circle.                                        *)
EXTENDS WalletLedger, Inductions, TLAPS

-----------------------------------------------------------------------------
(* Facts about the operators the specification is built from *)

(* splitFare loses and invents no cent and gives nobody a negative share.     *)
LEMMA SplitLemma ==
    ASSUME NEW fare \in Nat
    PROVE  /\ splitFare(fare).platform \in Nat
           /\ splitFare(fare).driver \in Nat
           /\ splitFare(fare).owner \in Nat
           /\ splitFare(fare).platform + splitFare(fare).driver
                + splitFare(fare).owner = fare
<1> DEFINE x == fare * PlatformPct
           y == fare * DriverPct
<1>1. x \in Nat /\ y \in Nat
  BY SplitAssumption
<1>2. x + y <= fare * 100
  <2>1. x + y = fare * (PlatformPct + DriverPct)
    BY SplitAssumption
  <2>2. \A n \in Nat : n <= 100 => fare * n <= fare * 100
    OBVIOUS
  <2> QED
    BY <2>1, <2>2, SplitAssumption
<1>3. fare * 100 = 100 * fare
  OBVIOUS
<1> HIDE DEF x, y
<1>4. /\ x \div 100 \in Nat /\ 100 * (x \div 100) <= x
      /\ y \div 100 \in Nat /\ 100 * (y \div 100) <= y
  BY <1>1
<1>5. x \div 100 + y \div 100 <= fare
  BY <1>1, <1>2, <1>3, <1>4
<1>6. splitFare(fare) = [platform |-> x \div 100, driver |-> y \div 100,
                         owner |-> fare - (x \div 100) - (y \div 100)]
  BY DEF splitFare, x, y
<1> QED
  BY <1>4, <1>5, <1>6

(* What the fields of a request are, by the operation it asks for.            *)
LEMMA RequestLemma ==
    ASSUME NEW r \in Request
    PROVE  /\ r.op \in {"fare", "topup", "allocate"}
           /\ r.amount \in Int
           /\ r.op = "fare" => /\ r.user \in Commuters
                               /\ r.vehicle \in Vehicles
                               /\ r.amount \in Nat \ {0}
                               /\ r.amount \in Amounts
                               /\ r.key \in Keys
           /\ r.op = "topup" => /\ r.user \in Commuters
                                /\ r.amount \in Nat \ {0}
                                /\ r.amount \in Amounts
           /\ r.op = "allocate" => r.user \in Owners
<1>1. CASE r \in [op : {"fare"}, user : Commuters, vehicle : Vehicles,
                  amount : Amounts, key : Keys]
  <2>1. r.amount \in Amounts /\ r.op \in {"fare", "topup"} /\ r.user \in Commuters
    BY <1>1
  <2>2. r.amount \in Nat \ {0}
    BY <2>1, AmountsAssumption
  <2> QED
    BY <1>1, <2>1, <2>2
<1>2. CASE r \in [op : {"topup"}, user : Commuters, vehicle : {NULL},
                  amount : Amounts, key : {NULL}]
  <2>1. r.amount \in Amounts /\ r.op \in {"fare", "topup"} /\ r.user \in Commuters
    BY <1>2
  <2>2. r.amount \in Nat \ {0}
    BY <2>1, AmountsAssumption
  <2> QED
    BY <1>2, <2>1, <2>2
<1>3. CASE r \in [op : {"allocate"}, user : Owners, vehicle : {NULL},
                  amount : Int, key : {NULL}]
  BY <1>3
<1> QED
  BY <1>1, <1>2, <1>3 DEF Request

(* Every account a request names is one of the chart of accounts.             *)
LEMMA AccountsLemma ==
    /\ \A c \in Commuters : Wallet(c) \in Accounts
    /\ \A d \in Drivers : Earnings(d) \in Accounts
    /\ \A o \in Owners : Revenue(o) \in Accounts /\ Fuel(o) \in Accounts
    /\ PlatformFee \in Accounts
    /\ Funding \in Accounts
  BY DEF Accounts, Wallet, Earnings, Revenue, Fuel, PlatformFee, Funding

(* Every operation looks up as many accounts as it posts to, all of them in   *)
(* the chart of accounts once the vehicle is known to have a driver.          *)
LEMMA LookupsLemma ==
    ASSUME NEW p \in Requests, req[p] \in Request
    PROVE  /\ Len(Lookups(p)) = IF req[p].op = "fare" THEN 4 ELSE 2
           /\ Len(PostOrder(p)) = Len(Lookups(p))
           /\ (req[p].op = "fare" => VehicleDriver[req[p].vehicle] # NoDriver)
                => \A i \in 1 .. Len(Lookups(p)) : Lookups(p)[i] \in Accounts
<1>1. CASE req[p].op = "fare"
  <2>1. Lookups(p) = <<Wallet(req[p].user), Earnings(VehicleDriver[req[p].vehicle]),
                       Revenue(VehicleOwner[req[p].vehicle]), PlatformFee>>
    BY <1>1 DEF Lookups
  <2>2. PostOrder(p) = Lookups(p)
    BY <1>1 DEF PostOrder
  <2> QED
    BY <1>1, <2>1, <2>2, RequestLemma, AccountsLemma, FleetAssumption
<1>2. CASE req[p].op = "topup"
  <2>1. Lookups(p) = <<Wallet(req[p].user), Funding>>
    BY <1>2 DEF Lookups
  <2>2. PostOrder(p) = <<Funding, Wallet(req[p].user)>>
    BY <1>2 DEF PostOrder
  <2> QED
    BY <1>2, <2>1, <2>2, RequestLemma, AccountsLemma
<1>3. CASE req[p].op = "allocate"
  <2>1. Lookups(p) = <<Revenue(req[p].user), Fuel(req[p].user)>>
    BY <1>3 DEF Lookups
  <2>2. PostOrder(p) = Lookups(p)
    BY <1>3 DEF PostOrder
  <2> QED
    BY <1>3, <2>1, <2>2, RequestLemma, AccountsLemma
<1> QED
  BY <1>1, <1>2, <1>3, RequestLemma

(* A transaction takes its amount from its source account and takes nothing   *)
(* from any other.                                                            *)
LEMMA EntryLemma ==
    ASSUME NEW p \in Requests, req[p] \in Request, NEW a
    PROVE  /\ Entry(p, a) \in Int
           /\ a = Source(p) => Entry(p, a) = -req[p].amount
           /\ (a # Source(p) /\ req[p].amount >= 0) => Entry(p, a) >= 0
<1>1. CASE req[p].op = "fare"
  <2>1. Entry(p, a) = FareEntry(req[p].user, req[p].vehicle, req[p].amount, a)
    BY <1>1 DEF Entry
  <2>2. Source(p) = Wallet(req[p].user)
    BY <1>1 DEF Source
  <2>3. req[p].amount \in Nat
    BY <1>1, RequestLemma
  <2>4. \/ Entry(p, a) = -req[p].amount /\ a = Wallet(req[p].user)
        \/ /\ a # Wallet(req[p].user)
           /\ Entry(p, a) \in {splitFare(req[p].amount).driver,
                  splitFare(req[p].amount).owner, splitFare(req[p].amount).platform, 0}
    BY <2>1 DEF FareEntry, Wallet, Earnings, Revenue, PlatformFee
  <2> QED
    BY <2>2, <2>3, <2>4, SplitLemma
<1>2. CASE req[p].op = "topup"
  <2>1. Entry(p, a) = TopupEntry(req[p].user, req[p].amount, a)
    BY <1>2 DEF Entry
  <2>2. Source(p) = Funding
    BY <1>2 DEF Source
  <2> QED
    BY <2>1, <2>2, <1>2, RequestLemma DEF TopupEntry, Funding, Wallet
<1>3. CASE req[p].op = "allocate"
  <2>1. Entry(p, a) = WithholdEntry(req[p].user, req[p].amount, a)
    BY <1>3 DEF Entry
  <2>2. Source(p) = Revenue(req[p].user)
    BY <1>3 DEF Source
  <2> QED
    BY <2>1, <2>2, <1>3, RequestLemma DEF WithholdEntry, Revenue, Fuel
<1> QED
  BY <1>1, <1>2, <1>3, RequestLemma

-----------------------------------------------------------------------------
(* Type correctness *)

(* What a request's place in its handler says about it.                       *)
Shape ==
    \A p \in Requests :
        /\ pc[p] \in {"assignment", "key", "replay"} => req[p].op = "fare"
        /\ pc[p] \in {"open", "read"} => req[p].op = "allocate"
        /\ pc[p] \in {"lock", "balance"} => req[p].op # "topup"
        /\ (req[p].op = "fare" /\ pc[p] \in KeyHeldPcs \cup {"key", "replay"})
              => VehicleDriver[req[p].vehicle] # NoDriver
        /\ (req[p].op = "allocate" /\ pc[p] \in KeyHeldPcs \cup {"begin"})
              => req[p].amount > 0
        /\ k[p] <= IF req[p].op = "fare" THEN 4 ELSE 2
        /\ pc[p] \in {"idle", "open", "read", "begin", "assignment", "key"} => k[p] = 1
        /\ p \in committed => pc[p] \in {"report", "created", "failed"}

(* AfterLookup moves to a statement of the same transaction.                  *)
LEMMA AfterLookupLemma ==
    ASSUME TypeOK, Shape, NEW p \in Requests, pc[p] \in {"get", "insert"},
           AfterLookup(p)
    PROVE  \E label \in {"lock", "get", "post"}, n \in 1 .. 4 :
               /\ pc' = [pc EXCEPT ![p] = label]
               /\ k' = [k EXCEPT ![p] = n]
               /\ n <= IF req[p].op = "fare" THEN 4 ELSE 2
               /\ label = "lock" => req[p].op # "topup" /\ k[p] = 1
               /\ label = "get" => n > 1 /\ (req[p].op = "topup" \/ k[p] > 1)
               /\ label = "post" => n = 1 /\ (req[p].op = "topup" \/ k[p] > 1)
<1>1. Len(Lookups(p)) = IF req[p].op = "fare" THEN 4 ELSE 2
  BY LookupsLemma DEF TypeOK
<1>2. k[p] \in 1 .. 4 /\ k = [k EXCEPT ![p] = k[p]]
  BY DEF TypeOK
<1>3. CASE k[p] = 1 /\ req[p].op # "topup"
  BY <1>2, <1>3 DEF AfterLookup, Goto, Shape
<1>4. CASE ~ (k[p] = 1 /\ req[p].op # "topup") /\ k[p] < Len(Lookups(p))
  BY <1>1, <1>2, <1>4 DEF AfterLookup, Goto
<1>5. CASE ~ (k[p] = 1 /\ req[p].op # "topup") /\ ~ (k[p] < Len(Lookups(p)))
  BY <1>1, <1>2, <1>5 DEF AfterLookup, Goto
<1> QED
  BY <1>3, <1>4, <1>5

(* The initial state has its types and the shape every request keeps.         *)
LEMMA TypeInit ==
    Init => TypeOK /\ Shape
<1> SUFFICES ASSUME Init PROVE TypeOK /\ Shape
  OBVIOUS
<1>1. TypeOK
  BY CallsAssumption, OpeningAssumption DEF Init, TypeOK, Answers, TxPcs, PoolPcs
<1>2. Shape
  BY <1>1 DEF Init, Shape, KeyHeldPcs
<1> QED
  BY <1>1, <1>2

(* Every step of a request, and of the handlers that only open accounts,      *)
(* keeps types and shape.                                                     *)
LEMMA TypeStep ==
    ASSUME TypeOK, Shape, [Next]_vars
    PROVE  TypeOK' /\ Shape'
<1> USE DEF TypeOK, Shape, Answers, TxPcs, KeyHeldPcs, PoolPcs
<1>1. ASSUME NEW p \in Requests, Start(p)
      PROVE  TypeOK' /\ Shape'
  BY <1>1, RequestLemma DEF Start, Goto
<1>2. ASSUME NEW p \in Requests, AllocateOpen(p)
      PROVE  TypeOK' /\ Shape'
  BY <1>2, RequestLemma, AccountsLemma DEF AllocateOpen, Goto
<1>3. ASSUME NEW p \in Requests, AllocateRead(p)
      PROVE  TypeOK' /\ Shape'
  <2> DEFINE amount == (bal[Revenue(req[p].user)] * WithholdPct) \div 100
  <2>1. req[p].op = "allocate" /\ req[p].user \in Owners
    BY <1>3, RequestLemma DEF AllocateRead
  <2>2. amount \in Int
    BY <2>1, AccountsLemma, PctAssumption
  <2>3. AllocateReq(req[p].user, amount) \in Request
    BY <2>1, <2>2 DEF AllocateReq, Request
  <2>4. /\ req' = [req EXCEPT ![p] = AllocateReq(req[p].user, amount)]
        /\ pc' = [pc EXCEPT ![p] = IF amount <= 0 THEN "nothing" ELSE "begin"]
        /\ UNCHANGED <<k, mine, posted, accounts, bal, committed>>
    BY <1>3 DEF AllocateRead, Goto
  <2>5. /\ AllocateReq(req[p].user, amount).op = "allocate"
        /\ AllocateReq(req[p].user, amount).amount = amount
    BY DEF AllocateReq
  <2>6. pc[p] = "read"
    BY <1>3 DEF AllocateRead
  <2> HIDE DEF amount
  <2>7. TypeOK'
    BY <2>2, <2>3, <2>4
  <2>8. Shape'
    BY <2>1, <2>2, <2>4, <2>5, <2>6
  <2> QED
    BY <2>7, <2>8
<1>4. ASSUME NEW p \in Requests, Begin(p)
      PROVE  TypeOK' /\ Shape'
  BY <1>4 DEF Begin, Goto
<1>5. ASSUME NEW p \in Requests, ResolveAssignment(p)
      PROVE  TypeOK' /\ Shape'
  BY <1>5 DEF ResolveAssignment, Goto
<1>6. ASSUME NEW p \in Requests, TryInsertKey(p)
      PROVE  TypeOK' /\ Shape'
  BY <1>6 DEF TryInsertKey, Goto
<1>7. ASSUME NEW p \in Requests, Replay(p)
      PROVE  TypeOK' /\ Shape'
  BY <1>7 DEF Replay, Rollback, Goto
<1>8. ASSUME NEW p \in Requests, GetAccount(p)
      PROVE  TypeOK' /\ Shape'
  <2>1. CASE Lookups(p)[k[p]] \in accounts \cup mine[p]
    <3>1. AfterLookup(p) /\ pc[p] = "get" /\ UNCHANGED <<req, mine, posted, accounts, bal, committed>>
      BY <1>8, <2>1 DEF GetAccount
    <3>2. PICK label \in {"lock", "get", "post"}, n \in 1 .. 4 :
             /\ pc' = [pc EXCEPT ![p] = label]
             /\ k' = [k EXCEPT ![p] = n]
             /\ n <= IF req[p].op = "fare" THEN 4 ELSE 2
             /\ label = "lock" => req[p].op # "topup"
      BY <3>1, AfterLookupLemma
    <3> QED
      BY <3>1, <3>2
  <2>2. CASE Lookups(p)[k[p]] \notin accounts \cup mine[p]
    BY <1>8, <2>2 DEF GetAccount, Goto
  <2> QED
    BY <2>1, <2>2
<1>9. ASSUME NEW p \in Requests, InsertAccount(p)
      PROVE  TypeOK' /\ Shape'
  <2>1. CASE Lookups(p)[k[p]] \in accounts
    BY <1>9, <2>1 DEF InsertAccount, Rollback, Goto
  <2>2. CASE Lookups(p)[k[p]] \notin accounts
    <3>1. /\ AfterLookup(p) /\ pc[p] = "insert"
          /\ mine' = [mine EXCEPT ![p] = @ \cup {Lookups(p)[k[p]]}]
          /\ UNCHANGED <<req, posted, accounts, bal, committed>>
      BY <1>9, <2>2 DEF InsertAccount
    <3>2. PICK label \in {"lock", "get", "post"}, n \in 1 .. 4 :
             /\ pc' = [pc EXCEPT ![p] = label]
             /\ k' = [k EXCEPT ![p] = n]
             /\ n <= IF req[p].op = "fare" THEN 4 ELSE 2
             /\ label = "lock" => req[p].op # "topup"
      BY <3>1, AfterLookupLemma
    <3>3. Lookups(p)[k[p]] \in Accounts
      <4>1. Len(Lookups(p)) = IF req[p].op = "fare" THEN 4 ELSE 2
        BY LookupsLemma
      <4>2. k[p] \in 1 .. Len(Lookups(p))
        BY <4>1
      <4> QED
        BY <3>1, <4>2, LookupsLemma
    <3> QED
      BY <3>1, <3>2, <3>3
  <2> QED
    BY <2>1, <2>2
<1>10. ASSUME NEW p \in Requests, LockAccount(p)
       PROVE  TypeOK' /\ Shape'
  BY <1>10 DEF LockAccount, Goto
<1>11. ASSUME NEW p \in Requests, CheckBalance(p)
       PROVE  TypeOK' /\ Shape'
  BY <1>11 DEF CheckBalance, Rollback, Goto
<1>12. ASSUME NEW p \in Requests, InsertPosting(p)
       PROVE  TypeOK' /\ Shape'
  <2>1. Entry(p, PostOrder(p)[k[p]]) \in Int
    BY EntryLemma
  <2>2. Len(PostOrder(p)) = IF req[p].op = "fare" THEN 4 ELSE 2
    BY LookupsLemma
  <2> QED
    BY <1>12, <2>1, <2>2 DEF InsertPosting, Goto
<1>13. ASSUME NEW p \in Requests, pc[p] = "commit", Apply(p),
              NEW label \in {"report", "created", "failed"}, Goto(p, label)
       PROVE  TypeOK' /\ Shape'
  <2>1. \A a \in Accounts : Entry(p, a) \in Int
    BY EntryLemma
  <2> QED
    BY <1>13, <2>1 DEF Apply, Goto
<1>14. ASSUME NEW p \in Requests, Report(p)
       PROVE  TypeOK' /\ Shape'
  BY <1>14 DEF Report, Goto
<1>15. ASSUME NEW p \in Requests, Cancel(p)
       PROVE  TypeOK' /\ Shape'
  BY <1>15 DEF Cancel, Busy, Rollback, Goto
<1>16. ASSUME NEW p \in Requests, Commit(p) \/ CommitLost(p)
       PROVE  TypeOK' /\ Shape'
  <2>1. CASE Apply(p) /\ \E label \in {"report", "created", "failed"} : Goto(p, label)
    BY <1>13, <1>16, <2>1 DEF Commit, CommitLost
  <2>2. CASE Rollback(p, "failed")
    BY <1>16, <2>2 DEF Commit, CommitLost, Rollback, Goto
  <2> QED
    BY <1>16, <2>1, <2>2 DEF Commit, CommitLost
<1>17. ASSUME NEW a \in Accounts, OpenAccount(a)
       PROVE  TypeOK' /\ Shape'
  BY <1>17 DEF OpenAccount
<1>18. ASSUME UNCHANGED vars
       PROVE  TypeOK' /\ Shape'
  BY <1>18 DEF vars
<1> QED
  BY <1>1, <1>2, <1>3, <1>4, <1>5, <1>6, <1>7, <1>8, <1>9, <1>10, <1>11, <1>12,
     <1>14, <1>15, <1>16, <1>17, <1>18
  DEF Next, ServerStep, Quiesced

(* Every behaviour of the wallet keeps every variable within its type; the    *)
(* rows it creates are accounts of the chart.                                 *)
THEOREM TypeCorrect ==
    Spec => []TypeOK
<1>1. Init => TypeOK /\ Shape
  BY TypeInit
<1>2. TypeOK /\ Shape /\ [Next]_vars => TypeOK' /\ Shape'
  BY TypeStep
<1> QED
  BY <1>1, <1>2, PTL DEF Spec

-----------------------------------------------------------------------------
(* No account is overdrawn.  NoOverdraft is not inductive: a debit is covered *)
(* because the balance was checked under a lock that excluded every other     *)
(* debit until now.                                                           *)

(* One transaction at a time holds the row lock of a source account.          *)
LockExclusion ==
    \A p, q \in Requests :
        (p # q /\ Locked(p) /\ Locked(q)) => Source(p) # Source(q)

(* Locks exclude, so that a checked balance stays checked.                    *)
Funds == LockExclusion /\ CheckedStaysFunded /\ NoOverdraft

(* Steps of p that move no money and take no lock.                            *)
LEMMA QuietStep ==
    ASSUME TypeOK, Funds, NEW p \in Requests,
           bal' = bal,
           \A q \in Requests \ {p} : pc'[q] = pc[q] /\ k'[q] = k[q] /\ req'[q] = req[q],
           Locked(p)' => /\ Locked(p)
                         /\ req'[p] = req[p]
                         /\ pc'[p] # "balance" => pc[p] # "balance"
    PROVE  Funds'
<1>1. \A q \in Requests : Locked(q)' => /\ Locked(q)
                                        /\ req'[q] = req[q]
                                        /\ pc'[q] # "balance" => pc[q] # "balance"
  BY DEF Locked
<1>2. \A q \in Requests : Locked(q)' => Source(q)' = Source(q)
  BY <1>1 DEF Source
<1>3. LockExclusion'
  BY <1>1, <1>2 DEF Funds, LockExclusion
<1>4. CheckedStaysFunded'
  BY <1>1, <1>2 DEF Funds, CheckedStaysFunded
<1>5. NoOverdraft'
  BY DEF Funds, NoOverdraft
<1> QED
  BY <1>3, <1>4, <1>5 DEF Funds

(* LockAccount: the lock is granted when no other transaction holds it.       *)
LEMMA LockStep ==
    ASSUME TypeOK, Funds, NEW p \in Requests, LockAccount(p)
    PROVE  Funds'
<1>1. /\ pc' = [pc EXCEPT ![p] = "balance"]
      /\ req' = req /\ k' = k /\ bal' = bal
      /\ \A q \in Requests \ {p} : ~ (Locked(q) /\ Source(q) = Source(p))
  BY DEF LockAccount, Goto, WaitsForRow
<1>2. \A q \in Requests : Source(q)' = Source(q)
  BY <1>1 DEF Source
<1>3. /\ \A q \in Requests \ {p} : Locked(q)' <=> Locked(q)
      /\ \A q \in Requests \ {p} : pc'[q] = pc[q]
      /\ pc'[p] = "balance"
  BY <1>1 DEF Locked, TypeOK
<1>4. LockExclusion'
  BY <1>1, <1>2, <1>3 DEF Funds, LockExclusion
<1>5. CheckedStaysFunded'
  BY <1>1, <1>2, <1>3 DEF Funds, CheckedStaysFunded
<1>6. NoOverdraft'
  BY <1>1 DEF Funds, NoOverdraft
<1> QED
  BY <1>4, <1>5, <1>6 DEF Funds

(* CheckBalance: the balance covers the amount, or the transaction ends.      *)
LEMMA CheckStep ==
    ASSUME TypeOK, Shape, Funds, NEW p \in Requests, CheckBalance(p)
    PROVE  Funds'
<1>1. CASE bal[Source(p)] < req[p].amount
  <2>1. /\ bal' = bal /\ k' = k /\ req' = req
        /\ pc' = [pc EXCEPT ![p] = "insufficient"]
    BY <1>1 DEF CheckBalance, Rollback, Goto
  <2> QED
    BY <2>1, QuietStep DEF TypeOK, Locked
<1>2. CASE ~ (bal[Source(p)] < req[p].amount)
  <2>1. /\ bal' = bal /\ req' = req
        /\ pc' = [pc EXCEPT ![p] = "get"]
        /\ k' = [k EXCEPT ![p] = 2]
        /\ pc[p] = "balance"
    BY <1>2 DEF CheckBalance, Goto
  <2>2. \A q \in Requests : Source(q)' = Source(q)
    BY <2>1 DEF Source
  <2>3. \A q \in Requests : Locked(q)' => Locked(q)
    BY <2>1 DEF Locked, TypeOK, Shape
  <2>4. \A q \in Requests \ {p} : pc'[q] = pc[q]
    BY <2>1 DEF TypeOK
  <2>5. LockExclusion'
    BY <2>2, <2>3 DEF Funds, LockExclusion
  <2>6. req[p].amount \in Int
    BY RequestLemma DEF TypeOK
  <2>7. Source(p) \in Accounts
    BY RequestLemma, AccountsLemma DEF Source, TypeOK
  <2>8. bal[Source(p)] \in Int
    BY <2>7 DEF TypeOK
  <2>9. CheckedStaysFunded'
    BY <1>2, <2>1, <2>2, <2>3, <2>4, <2>6, <2>8 DEF Funds, CheckedStaysFunded
  <2>10. NoOverdraft'
    BY <2>1 DEF Funds, NoOverdraft
  <2> QED
    BY <2>5, <2>9, <2>10 DEF Funds
<1> QED
  BY <1>1, <1>2

(* COMMIT: the debit is covered, and every other balance can only grow.       *)
LEMMA CommitStep ==
    ASSUME TypeOK, Shape, Funds, NEW p \in Requests, pc[p] = "commit", Apply(p),
           NEW label \in {"report", "created", "failed"}, Goto(p, label)
    PROVE  Funds'
<1>1. /\ bal' = [a \in Accounts |-> bal[a] + Entry(p, a)]
      /\ req' = req /\ k' = k
      /\ pc' = [pc EXCEPT ![p] = label]
  BY DEF Apply, Goto
<1>2. \A q \in Requests : Source(q)' = Source(q)
  BY <1>1 DEF Source
<1>3. /\ \A q \in Requests : Locked(q)' => Locked(q) /\ q # p
      /\ \A q \in Requests \ {p} : pc'[q] = pc[q]
  BY <1>1 DEF Locked, TypeOK
<1>4. req[p].amount \in Int /\ req[p].amount > 0
  BY RequestLemma DEF Shape, TypeOK, KeyHeldPcs
<1>5. \A a \in Accounts : a # Source(p) => bal'[a] >= bal[a]
  BY <1>1, <1>4, EntryLemma DEF TypeOK
<1>6. \A q \in Requests : Source(q) \in Accounts
  BY RequestLemma, AccountsLemma DEF Source, TypeOK
<1>7. req[p].op # "topup" => /\ Locked(p)
                             /\ bal[Source(p)] >= req[p].amount
  BY DEF Locked, Funds, CheckedStaysFunded
<1>8. req[p].op = "topup" => Source(p) = Funding
  BY DEF Source
<1>9. LockExclusion'
  BY <1>2, <1>3 DEF Funds, LockExclusion
<1>10. CheckedStaysFunded'
  <2> SUFFICES ASSUME NEW q \in Requests, Locked(q), q # p, pc[q] # "balance"
               PROVE  bal'[Source(q)] >= req[q].amount
    BY <1>1, <1>2, <1>3 DEF CheckedStaysFunded
  <2>1. bal[Source(q)] >= req[q].amount
    BY DEF Funds, CheckedStaysFunded
  <2>2. Source(q) # Source(p)
    <3>1. CASE req[p].op = "topup"
      <4>1. Source(q) # Funding
        BY RequestLemma DEF Source, Locked, TypeOK, Wallet, Revenue, Funding
      <4> QED
        BY <3>1, <1>8, <4>1
    <3>2. CASE req[p].op # "topup"
      BY <3>2, <1>7 DEF Funds, LockExclusion
    <3> QED
      BY <3>1, <3>2
  <2>3. req[q].amount \in Int /\ bal[Source(q)] \in Int /\ bal'[Source(q)] \in Int
    BY <1>1, <1>6, RequestLemma, EntryLemma DEF TypeOK
  <2> QED
    BY <1>5, <1>6, <2>1, <2>2, <2>3
<1>11. NoOverdraft'
  <2> SUFFICES ASSUME NEW a \in Accounts \ {Funding}
               PROVE  bal'[a] >= 0
    BY DEF NoOverdraft
  <2>1. bal[a] >= 0 /\ bal[a] \in Int /\ bal'[a] \in Int
    BY <1>1, EntryLemma DEF Funds, NoOverdraft, TypeOK
  <2>2. CASE a = Source(p)
    <3>1. bal'[a] = bal[a] - req[p].amount
      BY <1>1, <1>4, <2>1, <2>2, EntryLemma DEF TypeOK
    <3> QED
      BY <1>4, <1>7, <1>8, <2>1, <2>2, <3>1
  <2>3. CASE a # Source(p)
    BY <1>5, <2>1, <2>3
  <2> QED
    BY <2>2, <2>3
<1> QED
  BY <1>9, <1>10, <1>11 DEF Funds

(* Nothing is locked and nothing overdrawn when the server starts.            *)
LEMMA FundsInit ==
    Init => Funds
  BY OpeningAssumption
  DEF Init, Funds, LockExclusion, CheckedStaysFunded, NoOverdraft, Locked

(* Every step keeps the row locks exclusive, the balances that were checked   *)
(* sufficient and the accounts in credit.                                     *)
LEMMA FundsStep ==
    ASSUME TypeOK, Shape, Funds, [Next]_vars
    PROVE  Funds'
<1>1. ASSUME NEW p \in Requests, Start(p)
      PROVE  Funds'
  <2>1. ~ Locked(p)'
    BY <1>1 DEF Start, Goto, Locked, TypeOK, Shape
  <2> QED
    BY <1>1, <2>1, QuietStep DEF Start, Goto, TypeOK
<1>2. ASSUME NEW p \in Requests, AllocateOpen(p)
      PROVE  Funds'
  <2>1. ~ Locked(p)'
    BY <1>2 DEF AllocateOpen, Goto, Locked, TypeOK, Shape
  <2> QED
    BY <1>2, <2>1, QuietStep DEF AllocateOpen, Goto, TypeOK
<1>3. ASSUME NEW p \in Requests, AllocateRead(p)
      PROVE  Funds'
  <2>1. ~ Locked(p)'
    BY <1>3 DEF AllocateRead, Goto, Locked, TypeOK, Shape
  <2> QED
    BY <1>3, <2>1, QuietStep DEF AllocateRead, Goto, TypeOK
<1>4. ASSUME NEW p \in Requests, Begin(p)
      PROVE  Funds'
  <2>1. ~ Locked(p)'
    BY <1>4 DEF Begin, Goto, Locked, TypeOK, Shape
  <2> QED
    BY <1>4, <2>1, QuietStep DEF Begin, Goto, TypeOK
<1>5. ASSUME NEW p \in Requests, ResolveAssignment(p)
      PROVE  Funds'
  <2>1. ~ Locked(p)'
    BY <1>5 DEF ResolveAssignment, Goto, Locked, TypeOK, Shape
  <2> QED
    BY <1>5, <2>1, QuietStep DEF ResolveAssignment, Goto, TypeOK
<1>6. ASSUME NEW p \in Requests, TryInsertKey(p)
      PROVE  Funds'
  <2>1. ~ Locked(p)'
    BY <1>6 DEF TryInsertKey, Goto, Locked, TypeOK, Shape
  <2> QED
    BY <1>6, <2>1, QuietStep DEF TryInsertKey, Goto, TypeOK
<1>7. ASSUME NEW p \in Requests, Replay(p)
      PROVE  Funds'
  <2>1. ~ Locked(p)'
    BY <1>7 DEF Replay, Rollback, Goto, Locked, TypeOK, Shape
  <2> QED
    BY <1>7, <2>1, QuietStep DEF Replay, Rollback, Goto, TypeOK
<1>8. ASSUME NEW p \in Requests, Report(p)
      PROVE  Funds'
  <2>1. ~ Locked(p)'
    BY <1>8 DEF Report, Goto, Locked, TypeOK, Shape
  <2> QED
    BY <1>8, <2>1, QuietStep DEF Report, Goto, TypeOK
<1>9. ASSUME NEW p \in Requests, Cancel(p)
      PROVE  Funds'
  <2>1. ~ Locked(p)'
    BY <1>9 DEF Cancel, Rollback, Goto, Locked, TypeOK, Shape
  <2> QED
    BY <1>9, <2>1, QuietStep DEF Cancel, Rollback, Goto, TypeOK
<1>10. ASSUME NEW p \in Requests, GetAccount(p)
       PROVE  Funds'
  <2>1. /\ pc[p] = "get"
        /\ UNCHANGED <<req, bal>>
    BY <1>10 DEF GetAccount
  <2>2. CASE Lookups(p)[k[p]] \in accounts \cup mine[p]
    <3>1. PICK label \in {"lock", "get", "post"}, n \in 1 .. 4 :
             /\ pc' = [pc EXCEPT ![p] = label]
             /\ k' = [k EXCEPT ![p] = n]
             /\ label = "get" => n > 1 /\ (req[p].op = "topup" \/ k[p] > 1)
             /\ label = "post" => n = 1 /\ (req[p].op = "topup" \/ k[p] > 1)
      BY <1>10, <2>1, <2>2, AfterLookupLemma DEF GetAccount
    <3>2. Locked(p)' => Locked(p)
      BY <2>1, <3>1 DEF Locked, TypeOK
    <3> QED
      BY <2>1, <3>1, <3>2, QuietStep DEF TypeOK
  <2>3. CASE Lookups(p)[k[p]] \notin accounts \cup mine[p]
    <3>1. pc' = [pc EXCEPT ![p] = "insert"] /\ k' = k
      BY <1>10, <2>3 DEF GetAccount, Goto
    <3>2. Locked(p)' => Locked(p)
      BY <2>1, <3>1 DEF Locked, TypeOK
    <3> QED
      BY <2>1, <3>1, <3>2, QuietStep DEF TypeOK
  <2> QED
    BY <2>2, <2>3
<1>11. ASSUME NEW p \in Requests, InsertAccount(p)
       PROVE  Funds'
  <2>1. CASE Lookups(p)[k[p]] \in accounts
    <3>1. /\ UNCHANGED <<req, bal, k>>
          /\ pc' = [pc EXCEPT ![p] = "aborted"]
      BY <1>11, <2>1 DEF InsertAccount, Rollback, Goto
    <3>2. ~ Locked(p)'
      BY <3>1 DEF Locked, TypeOK
    <3> QED
      BY <3>1, <3>2, QuietStep DEF TypeOK
  <2>2. CASE Lookups(p)[k[p]] \notin accounts
    <3>1. AfterLookup(p) /\ pc[p] = "insert" /\ UNCHANGED <<req, bal>>
      BY <1>11, <2>2 DEF InsertAccount
    <3>2. PICK label \in {"lock", "get", "post"}, n \in 1 .. 4 :
             /\ pc' = [pc EXCEPT ![p] = label]
             /\ k' = [k EXCEPT ![p] = n]
             /\ label = "get" => n > 1 /\ (req[p].op = "topup" \/ k[p] > 1)
             /\ label = "post" => n = 1 /\ (req[p].op = "topup" \/ k[p] > 1)
      BY <3>1, AfterLookupLemma
    <3>3. Locked(p)' => Locked(p)
      BY <3>1, <3>2 DEF Locked, TypeOK
    <3> QED
      BY <3>1, <3>2, <3>3, QuietStep DEF TypeOK
  <2> QED
    BY <2>1, <2>2
<1>12. ASSUME NEW p \in Requests, InsertPosting(p)
       PROVE  Funds'
  <2>1. /\ pc[p] = "post"
        /\ UNCHANGED <<req, bal>>
        /\ \A q \in Requests \ {p} : pc'[q] = pc[q] /\ k'[q] = k[q]
        /\ pc'[p] \in {"post", "commit"}
    BY <1>12 DEF InsertPosting, Goto, TypeOK
  <2>2. Locked(p)' => Locked(p)
    BY <2>1 DEF Locked
  <2> QED
    BY <2>1, <2>2, QuietStep
<1>13. ASSUME NEW p \in Requests, Commit(p) \/ CommitLost(p)
       PROVE  Funds'
  <2>1. CASE Apply(p) /\ \E label \in {"report", "created", "failed"} : Goto(p, label)
    BY <1>13, <2>1, CommitStep DEF Commit, CommitLost
  <2>2. CASE Rollback(p, "failed")
    <3>1. ~ Locked(p)'
      BY <2>2 DEF Rollback, Goto, Locked, TypeOK
    <3> QED
      BY <2>2, <3>1, QuietStep DEF Rollback, Goto, TypeOK
  <2> QED
    BY <1>13, <2>1, <2>2 DEF Commit, CommitLost
<1>14. ASSUME UNCHANGED <<pc, req, k, bal>>
       PROVE  Funds'
  BY <1>14
  DEF Funds, LockExclusion, CheckedStaysFunded, NoOverdraft, Locked, Source
<1>15. (\E a \in Accounts : OpenAccount(a)) \/ UNCHANGED vars => UNCHANGED <<pc, req, k, bal>>
  BY DEF OpenAccount, vars
<1> QED
  BY <1>1, <1>2, <1>3, <1>4, <1>5, <1>6, <1>7, <1>8, <1>9, <1>10, <1>11, <1>12,
     <1>13, <1>14, <1>15, LockStep, CheckStep
  DEF Next, ServerStep, Quiesced

(* No interleaving of charges, top-ups and withholdings, with failures and    *)
(* lost answers, overdraws a wallet, an earnings, revenue, fuel or fee        *)
(* account.                                                                   *)
THEOREM NeverOverdrawn ==
    Spec => []NoOverdraft
<1>1. Init => TypeOK /\ Shape /\ Funds
  BY TypeInit, FundsInit
<1>2. TypeOK /\ Shape /\ Funds /\ [Next]_vars => (TypeOK /\ Shape /\ Funds)'
  BY TypeStep, FundsStep
<1>3. Funds => NoOverdraft
  BY DEF Funds
<1> QED
  BY <1>1, <1>2, <1>3, PTL DEF Spec

(* What a request has checked stays true until it commits or rolls back.      *)
THEOREM CheckNeverStale ==
    Spec => []CheckedStaysFunded
<1>1. Init => TypeOK /\ Shape /\ Funds
  BY TypeInit, FundsInit
<1>2. TypeOK /\ Shape /\ Funds /\ [Next]_vars => (TypeOK /\ Shape /\ Funds)'
  BY TypeStep, FundsStep
<1>3. Funds => CheckedStaysFunded
  BY DEF Funds
<1> QED
  BY <1>1, <1>2, <1>3, PTL DEF Spec

-----------------------------------------------------------------------------
(* A key is charged once.  ChargedOncePerKey needs the uncommitted rows too:  *)
(* no two requests have a row for one key, committed or not.                  *)

(* A fare that holds the row of its key.                                      *)
Owns(p) == req[p].op = "fare" /\ (KeyHeld(p) \/ p \in committed)

(* No two of them have one key.                                               *)
KeyExclusion ==
    \A p, q \in Requests :
        (p # q /\ Owns(p) /\ Owns(q)) => req[p].key # req[q].key

(* Steps that neither insert a key nor forget a committed one.                *)
LEMMA KeepStep ==
    ASSUME TypeOK, KeyExclusion, ReplayFindsOriginal,
           committed \subseteq committed',
           \A q \in Requests : req'[q] # req[q] => req'[q].op # "fare" /\ req[q].op # "fare",
           \A q \in Requests : Owns(q)' => Owns(q),
           \A q \in Requests : pc'[q] = "replay" => pc[q] = "replay" \/ req[q].key \in Settled
    PROVE  KeyExclusion' /\ (Shape' => ReplayFindsOriginal')
<1>1. KeyExclusion'
  BY DEF KeyExclusion, Owns
<1>2. Settled \subseteq Settled'
  BY DEF Settled, TypeOK
<1>3. ASSUME Shape' PROVE ReplayFindsOriginal'
  <2> SUFFICES ASSUME NEW q \in Requests, pc'[q] = "replay"
               PROVE  req'[q].key \in Settled'
    BY DEF ReplayFindsOriginal
  <2>1. req'[q].op = "fare"
    BY <1>3 DEF Shape
  <2>2. req'[q] = req[q]
    BY <2>1
  <2> QED
    BY <1>2, <2>2 DEF ReplayFindsOriginal
<1> QED
  BY <1>1, <1>3

(* INSERT ... ON CONFLICT DO NOTHING: no row with the key, or a committed one.*)
LEMMA InsertKeyStep ==
    ASSUME TypeOK, Shape, KeyExclusion, ReplayFindsOriginal,
           NEW p \in Requests, TryInsertKey(p)
    PROVE  KeyExclusion' /\ ReplayFindsOriginal'
<1>1. /\ pc[p] = "key"
      /\ req' = req /\ committed' = committed
      /\ pc' = [pc EXCEPT ![p] = IF req[p].key \in Settled THEN "replay" ELSE "get"]
      /\ \A q \in Requests \ {p} : KeyHeld(q) => req[q].key # req[p].key
  BY DEF TryInsertKey, Goto, WaitsForKey
<1>2. Settled' = Settled
  BY <1>1 DEF Settled
<1>3. ReplayFindsOriginal'
  BY <1>1, <1>2 DEF ReplayFindsOriginal, TypeOK
<1>4. \A q \in Requests \ {p} : Owns(q)' <=> Owns(q)
  BY <1>1 DEF Owns, KeyHeld, TypeOK
<1>5. Owns(p)' => req[p].key \notin Settled
  BY <1>1 DEF Owns, KeyHeld, KeyHeldPcs, Shape, TypeOK
<1>6. \A q \in Requests \ {p} : Owns(q) /\ Owns(p)' => req[q].key # req[p].key
  BY <1>1, <1>5 DEF Owns, Settled
<1>7. KeyExclusion'
  BY <1>1, <1>4, <1>6 DEF KeyExclusion
<1> QED
  BY <1>3, <1>7

(* Every step keeps an idempotency key with the one request that inserted it. *)
LEMMA KeysStep ==
    ASSUME TypeOK, Shape, Shape', KeyExclusion, ReplayFindsOriginal, [Next]_vars
    PROVE  KeyExclusion' /\ ReplayFindsOriginal'
<1>1. ASSUME NEW p \in Requests, AllocateRead(p)
      PROVE  KeyExclusion' /\ ReplayFindsOriginal'
  <2>1. /\ req[p].op = "allocate" /\ req'[p].op = "allocate"
        /\ \A q \in Requests \ {p} : req'[q] = req[q] /\ pc'[q] = pc[q]
        /\ pc'[p] \in {"nothing", "begin"}
        /\ committed' = committed
    BY <1>1 DEF AllocateRead, AllocateReq, Goto, Shape, TypeOK
  <2>2. \A q \in Requests : Owns(q)' => Owns(q)
    BY <2>1 DEF Owns, KeyHeld
  <2> QED
    BY <2>1, <2>2, KeepStep
<1>2. ASSUME NEW p \in Requests, req' = req, committed' = committed,
             \A q \in Requests \ {p} : pc'[q] = pc[q],
             pc'[p] # "replay",
             KeyHeld(p)' => KeyHeld(p)
      PROVE  KeyExclusion' /\ ReplayFindsOriginal'
  <2>1. \A q \in Requests : Owns(q)' => Owns(q)
    BY <1>2 DEF Owns, KeyHeld
  <2> QED
    BY <1>2, <2>1, KeepStep
<1>3. ASSUME NEW p \in Requests,
             Start(p) \/ AllocateOpen(p) \/ ResolveAssignment(p) \/ Replay(p)
               \/ Report(p) \/ Cancel(p) \/ LockAccount(p) \/ CheckBalance(p)
      PROVE  KeyExclusion' /\ ReplayFindsOriginal'
  BY <1>2, <1>3
  DEF Start, AllocateOpen, ResolveAssignment, Replay, Report, Cancel, LockAccount,
      CheckBalance, Rollback, Goto, KeyHeld, KeyHeldPcs, TypeOK
<1>4. ASSUME NEW p \in Requests, Begin(p)
      PROVE  KeyExclusion' /\ ReplayFindsOriginal'
  BY <1>2, <1>4 DEF Begin, Goto, KeyHeld, KeyHeldPcs, TypeOK
<1>5. ASSUME NEW p \in Requests, GetAccount(p) \/ InsertAccount(p)
      PROVE  KeyExclusion' /\ ReplayFindsOriginal'
  <2>1. /\ pc[p] \in {"get", "insert"}
        /\ req' = req /\ committed' = committed
        /\ \E label \in {"insert", "aborted", "lock", "get", "post"} :
               pc' = [pc EXCEPT ![p] = label]
    BY <1>5 DEF GetAccount, InsertAccount, AfterLookup, Rollback, Goto
  <2> QED
    BY <1>2, <2>1 DEF KeyHeld, KeyHeldPcs, TypeOK
<1>6. ASSUME NEW p \in Requests, InsertPosting(p)
      PROVE  KeyExclusion' /\ ReplayFindsOriginal'
  BY <1>2, <1>6 DEF InsertPosting, Goto, KeyHeld, KeyHeldPcs, TypeOK
<1>7. ASSUME NEW p \in Requests, Commit(p) \/ CommitLost(p)
      PROVE  KeyExclusion' /\ ReplayFindsOriginal'
  <2>1. /\ pc[p] = "commit"
        /\ req' = req /\ committed' \in {committed, committed \cup {p}}
        /\ \E label \in {"report", "created", "failed"} :
               pc' = [pc EXCEPT ![p] = label]
    BY <1>7 DEF Commit, CommitLost, Apply, Rollback, Goto
  <2>2. \A q \in Requests : Owns(q)' => Owns(q)
    BY <2>1 DEF Owns, KeyHeld, KeyHeldPcs, TypeOK
  <2>3. \A q \in Requests : pc'[q] = "replay" => pc[q] = "replay"
    BY <2>1 DEF TypeOK
  <2> QED
    BY <2>1, <2>2, <2>3, KeepStep
<1>8. ASSUME UNCHANGED <<pc, req, committed>>
      PROVE  KeyExclusion' /\ ReplayFindsOriginal'
  BY <1>8 DEF KeyExclusion, ReplayFindsOriginal, Owns, KeyHeld, Settled
<1>9. (\E a \in Accounts : OpenAccount(a)) \/ UNCHANGED vars => UNCHANGED <<pc, req, committed>>
  BY DEF OpenAccount, vars
<1> QED
  BY <1>1, <1>3, <1>4, <1>5, <1>6, <1>7, <1>8, <1>9, InsertKeyStep
  DEF Next, ServerStep, Quiesced

(* The inductive invariant of the key theorems.                               *)
LEMMA KeysInvariant ==
    Spec => [](TypeOK /\ Shape /\ KeyExclusion /\ ReplayFindsOriginal)
<1>1. Init => KeyExclusion /\ ReplayFindsOriginal
  BY DEF Init, KeyExclusion, ReplayFindsOriginal, Owns, KeyHeld, KeyHeldPcs
<1>2. Init => TypeOK /\ Shape
  BY TypeInit
<1>3. TypeOK /\ Shape /\ KeyExclusion /\ ReplayFindsOriginal /\ [Next]_vars
         => (TypeOK /\ Shape /\ KeyExclusion /\ ReplayFindsOriginal)'
  BY TypeStep, KeysStep
<1> QED
  BY <1>1, <1>2, <1>3, PTL DEF Spec

(* Retried, duplicated and concurrent scans with one key are charged once,    *)
(* also when an earlier attempt rolled back or its answer was lost.           *)
THEOREM OneChargePerKey ==
    Spec => []ChargedOncePerKey
<1>1. TypeOK /\ KeyExclusion => ChargedOncePerKey
  BY DEF TypeOK, KeyExclusion, Owns, ChargedOncePerKey
<1> QED
  BY <1>1, KeysInvariant, PTL

(* A replay is only ever reported for a fare that is settled for good.        *)
THEOREM ReplaySettled ==
    Spec => []ReplayFindsOriginal
  BY KeysInvariant, PTL

-----------------------------------------------------------------------------
(* Postings balance.  The sum is zero at COMMIT because it is known after     *)
(* every single posting.                                                      *)

(* The sum of the postings that p has made.                                   *)
PostedSoFar(p) ==
    LET split == splitFare(req[p].amount)
    IN  IF k[p] = 1 THEN 0
        ELSE IF k[p] = 2 THEN -req[p].amount
        ELSE IF k[p] = 3 THEN -req[p].amount + split.driver
        ELSE -req[p].amount + split.driver + split.owner

(* The zero-sum trigger will see that sum.                                    *)
Sums ==
    \A p \in Requests :
        /\ pc[p] = "post" => posted[p] = PostedSoFar(p)
        /\ pc[p] \notin {"post", "report"} \cup Answers => posted[p] = 0

(* The amount of each posting, in the order they are made.                    *)
LEMMA PostingLemma ==
    ASSUME NEW p \in Requests, req[p] \in Request
    PROVE  /\ Entry(p, PostOrder(p)[1]) = -req[p].amount
           /\ req[p].op # "fare" => Entry(p, PostOrder(p)[2]) = req[p].amount
           /\ req[p].op = "fare" =>
                /\ Entry(p, PostOrder(p)[2]) = splitFare(req[p].amount).driver
                /\ Entry(p, PostOrder(p)[3]) = splitFare(req[p].amount).owner
                /\ Entry(p, PostOrder(p)[4]) = splitFare(req[p].amount).platform
<1>1. CASE req[p].op = "fare"
  <2>1. PostOrder(p) = <<Wallet(req[p].user), Earnings(VehicleDriver[req[p].vehicle]),
                         Revenue(VehicleOwner[req[p].vehicle]), PlatformFee>>
    BY <1>1 DEF PostOrder, Lookups
  <2>2. \A a : Entry(p, a) = FareEntry(req[p].user, req[p].vehicle, req[p].amount, a)
    BY <1>1 DEF Entry
  <2> QED
    BY <1>1, <2>1, <2>2 DEF FareEntry, Wallet, Earnings, Revenue, PlatformFee
<1>2. CASE req[p].op = "topup"
  <2>1. PostOrder(p) = <<Funding, Wallet(req[p].user)>>
    BY <1>2 DEF PostOrder
  <2>2. \A a : Entry(p, a) = TopupEntry(req[p].user, req[p].amount, a)
    BY <1>2 DEF Entry
  <2> QED
    BY <1>2, <2>1, <2>2 DEF TopupEntry, Wallet, Funding
<1>3. CASE req[p].op = "allocate"
  <2>1. PostOrder(p) = <<Revenue(req[p].user), Fuel(req[p].user)>>
    BY <1>3 DEF PostOrder, Lookups
  <2>2. \A a : Entry(p, a) = WithholdEntry(req[p].user, req[p].amount, a)
    BY <1>3 DEF Entry
  <2> QED
    BY <1>3, <2>1, <2>2 DEF WithholdEntry, Revenue, Fuel
<1> QED
  BY <1>1, <1>2, <1>3, RequestLemma

(* InsertPosting: the sum of the postings follows their order, and is zero    *)
(* after the last.                                                            *)
LEMMA PostStep ==
    ASSUME TypeOK, Shape, Sums, NEW p \in Requests, InsertPosting(p)
    PROVE  Sums'
<1> DEFINE n == IF req[p].op = "fare" THEN 4 ELSE 2
           e == Entry(p, PostOrder(p)[k[p]])
           s == splitFare(req[p].amount)
<1>1. /\ pc[p] = "post"
      /\ posted' = [posted EXCEPT ![p] = @ + e]
      /\ req' = req
      /\ IF k[p] < n
         THEN k' = [k EXCEPT ![p] = @ + 1] /\ pc' = pc
         ELSE pc' = [pc EXCEPT ![p] = "commit"] /\ k' = k
  BY LookupsLemma DEF InsertPosting, Goto, TypeOK
<1>2. k[p] \in 1 .. n /\ posted[p] = PostedSoFar(p)
  BY <1>1 DEF TypeOK, Shape, Sums
<1>3. /\ k[p] = 1 => e = -req[p].amount
      /\ k[p] = 2 /\ req[p].op # "fare" => e = req[p].amount
      /\ req[p].op = "fare" => /\ k[p] = 2 => e = s.driver
                               /\ k[p] = 3 => e = s.owner
                               /\ k[p] = 4 => e = s.platform
  BY PostingLemma DEF TypeOK
<1>4. /\ req[p].amount \in Int
      /\ req[p].op = "fare" => /\ s.driver \in Int /\ s.owner \in Int
                               /\ s.platform \in Int
                               /\ s.platform + s.driver + s.owner = req[p].amount
  BY RequestLemma, SplitLemma DEF TypeOK
<1>5. \A q \in Requests \ {p} : /\ pc'[q] = pc[q] /\ posted'[q] = posted[q]
                                /\ PostedSoFar(q)' = PostedSoFar(q)
  BY <1>1 DEF TypeOK, PostedSoFar
<1> HIDE DEF e, s
<1>6. PostedSoFar(p) = IF k[p] = 1 THEN 0
         ELSE IF k[p] = 2 THEN -req[p].amount
         ELSE IF k[p] = 3 THEN -req[p].amount + s.driver
         ELSE -req[p].amount + s.driver + s.owner
  BY DEF PostedSoFar, s
<1>7. PostedSoFar(p)' = IF k'[p] = 1 THEN 0
         ELSE IF k'[p] = 2 THEN -req[p].amount
         ELSE IF k'[p] = 3 THEN -req[p].amount + s.driver
         ELSE -req[p].amount + s.driver + s.owner
  BY <1>1 DEF PostedSoFar, s
<1>8. posted'[p] = posted[p] + e
  BY <1>1 DEF TypeOK
<1>9. CASE k[p] < n
  <2>1. k'[p] = k[p] + 1 /\ pc'[p] = "post"
    BY <1>1, <1>9 DEF TypeOK
  <2>2. posted'[p] = PostedSoFar(p)'
    BY <1>2, <1>3, <1>4, <1>6, <1>7, <1>8, <1>9, <2>1
  <2> QED
    BY <1>5, <2>1, <2>2 DEF Sums
<1>10. CASE ~ (k[p] < n)
  <2>1. pc'[p] = "commit"
    BY <1>1, <1>10 DEF TypeOK
  <2>2. k[p] = n
    BY <1>2, <1>10
  <2>3. posted'[p] = 0
    <3>1. CASE req[p].op = "fare"
      BY <1>2, <1>3, <1>4, <1>6, <1>8, <2>2, <3>1
    <3>2. CASE req[p].op # "fare"
      BY <1>2, <1>3, <1>4, <1>6, <1>8, <2>2, <3>2
    <3> QED
      BY <3>1, <3>2
  <2> QED
    BY <1>5, <2>1, <2>3 DEF Sums
<1> QED
  BY <1>9, <1>10

(* Every step keeps the sums of the postings.                                 *)
LEMMA SumsStep ==
    ASSUME TypeOK, Shape, Sums, [Next]_vars
    PROVE  Sums'
<1>1. ASSUME NEW p \in Requests, posted' = posted,
             \A q \in Requests \ {p} : pc'[q] = pc[q] /\ k'[q] = k[q] /\ req'[q] = req[q],
             pc'[p] = "post" => pc[p] \notin {"post", "report"} \cup Answers /\ k'[p] = 1,
             pc'[p] \notin {"post", "report"} \cup Answers
                 => pc[p] \notin {"post", "report"} \cup Answers
      PROVE  Sums'
  <2>1. \A q \in Requests \ {p} : PostedSoFar(q)' = PostedSoFar(q)
    BY <1>1 DEF PostedSoFar
  <2>2. k'[p] = 1 => PostedSoFar(p)' = 0
    BY DEF PostedSoFar
  <2> QED
    BY <1>1, <2>1, <2>2 DEF Sums
<1>2. ASSUME NEW p \in Requests,
             Start(p) \/ AllocateOpen(p) \/ AllocateRead(p) \/ Begin(p)
               \/ ResolveAssignment(p) \/ TryInsertKey(p)
      PROVE  Sums'
  BY <1>1, <1>2
  DEF Start, AllocateOpen, AllocateRead, Begin, ResolveAssignment, TryInsertKey, Goto,
      Answers, TypeOK
<1>3. ASSUME NEW p \in Requests,
             Replay(p) \/ Report(p) \/ Cancel(p) \/ LockAccount(p) \/ CheckBalance(p)
      PROVE  Sums'
  BY <1>1, <1>3
  DEF Replay, Report, Cancel, LockAccount, CheckBalance, Rollback, Goto, Answers, TypeOK
<1>4. ASSUME NEW p \in Requests, GetAccount(p) \/ InsertAccount(p)
      PROVE  Sums'
  <2>1. /\ pc[p] \in {"get", "insert"} /\ posted' = posted /\ req' = req
        /\ AfterLookup(p) \/ (pc' = [pc EXCEPT ![p] = "insert"] /\ k' = k)
             \/ (pc' = [pc EXCEPT ![p] = "aborted"] /\ k' = k)
    BY <1>4 DEF GetAccount, InsertAccount, Rollback, Goto
  <2>2. \E label \in {"lock", "get", "post", "insert", "aborted"}, n \in 1 .. 4 :
            /\ pc' = [pc EXCEPT ![p] = label]
            /\ k' = [k EXCEPT ![p] = n]
            /\ label = "post" => n = 1
    <3>1. CASE AfterLookup(p)
      BY <2>1, <3>1, AfterLookupLemma
    <3>2. CASE ~ AfterLookup(p)
      <4>1. k[p] \in 1 .. 4 /\ k' = [k EXCEPT ![p] = k[p]]
        BY <2>1, <3>2 DEF TypeOK
      <4> QED
        BY <2>1, <3>2, <4>1
    <3> QED
      BY <3>1, <3>2
  <2> QED
    BY <1>1, <2>1, <2>2 DEF Answers, TypeOK
<1>5. ASSUME NEW p \in Requests, Commit(p) \/ CommitLost(p)
      PROVE  Sums'
  BY <1>1, <1>5 DEF Commit, CommitLost, Apply, Rollback, Goto, Answers, TypeOK
<1>6. ASSUME UNCHANGED <<pc, req, k, posted>>
      PROVE  Sums'
  BY <1>6 DEF Sums, PostedSoFar
<1>7. (\E a \in Accounts : OpenAccount(a)) \/ UNCHANGED vars => UNCHANGED <<pc, req, k, posted>>
  BY DEF OpenAccount, vars
<1> QED
  BY <1>2, <1>3, <1>4, <1>5, <1>6, <1>7, PostStep
  DEF Next, ServerStep, Quiesced

(* The zero-sum trigger on ledger_postings never refuses a transaction the    *)
(* code makes, for every fare and every pair of percentages.                  *)
THEOREM AlwaysBalanced ==
    Spec => []BalancedAtCommit
<1>1. Init => TypeOK /\ Shape /\ Sums
  BY TypeInit DEF Init, Sums
<1>2. TypeOK /\ Shape /\ Sums /\ [Next]_vars => (TypeOK /\ Shape /\ Sums)'
  BY TypeStep, SumsStep
<1>3. Sums => BalancedAtCommit
  BY DEF Sums, BalancedAtCommit, Answers
<1> QED
  BY <1>1, <1>2, <1>3, PTL DEF Spec

-----------------------------------------------------------------------------
(* The wallet implements the atomic ledger: COMMIT is the one step that is    *)
(* seen there.                                                                *)

(* A step that commits nothing settles no key.                                *)
LEMMA SettledUnchanged ==
    ASSUME committed' = committed, \A p \in committed : req'[p] = req[p]
    PROVE  Settled' = Settled
  BY DEF Settled

(* COMMIT of a fare, a top-up or a withholding is that operation of Ledger.   *)
LEMMA CommitRefines ==
    ASSUME TypeOK, Shape, CheckedStaysFunded, KeyExclusion,
           NEW p \in Requests, pc[p] = "commit", Apply(p)
    PROVE  Abstract!Next
<1>1. /\ bal' = [a \in Accounts |-> bal[a] + Entry(p, a)]
      /\ committed' = committed \cup {p}
      /\ req' = req
  BY DEF Apply
<1>2. req[p].op # "topup" => bal[Source(p)] >= req[p].amount
  BY DEF CheckedStaysFunded, Locked
<1>3. CASE req[p].op = "fare"
  <2>1. /\ req[p].user \in Commuters /\ req[p].vehicle \in Vehicles
        /\ req[p].amount \in Amounts /\ req[p].key \in Keys
        /\ req[p].amount \in Int
    BY <1>3, RequestLemma DEF TypeOK
  <2>2. VehicleDriver[req[p].vehicle] # NoDriver
    BY <1>3 DEF Shape, KeyHeldPcs
  <2>3. Source(p) = Wallet(req[p].user) /\ bal[Wallet(req[p].user)] \in Int
    BY <1>3, <2>1, AccountsLemma DEF Source, TypeOK
  <2>4. p \notin committed
    BY DEF Shape
  <2>5. req[p].key \notin Settled
    BY <1>3, <2>4 DEF Settled, KeyExclusion, Owns, KeyHeld, KeyHeldPcs, TypeOK
  <2>6. Settled' = Settled \cup {req[p].key}
    BY <1>1, <1>3 DEF Settled
  <2>7. bal' = [a \in Accounts |->
                   bal[a] + FareEntry(req[p].user, req[p].vehicle, req[p].amount, a)]
    BY <1>1, <1>3 DEF Entry
  <2>8. Abstract!ChargeFare(req[p].user, req[p].vehicle, req[p].amount, req[p].key)
    BY <1>2, <1>3, <2>1, <2>2, <2>3, <2>5, <2>6, <2>7 DEF Abstract!ChargeFare,
       Abstract!Accounts, Abstract!FareEntry, Abstract!Wallet, Abstract!Earnings,
       Abstract!Revenue, Abstract!PlatformFee, Abstract!splitFare,
       Accounts, FareEntry, Wallet, Earnings, Revenue, PlatformFee, splitFare
  <2> QED
    BY <2>1, <2>8 DEF Abstract!Next
<1>4. CASE req[p].op = "topup"
  <2>1. req[p].user \in Commuters /\ req[p].amount \in Amounts
    BY <1>4, RequestLemma DEF TypeOK
  <2>2. Settled' = Settled
    BY <1>1, <1>4 DEF Settled
  <2>3. bal' = [a \in Accounts |-> bal[a] + TopupEntry(req[p].user, req[p].amount, a)]
    BY <1>1, <1>4 DEF Entry
  <2>4. Abstract!Topup(req[p].user, req[p].amount)
    BY <2>2, <2>3 DEF Abstract!Topup, Abstract!Accounts, Abstract!TopupEntry,
       Abstract!Wallet, Abstract!Funding, Accounts, TopupEntry, Wallet, Funding
  <2> QED
    BY <2>1, <2>4 DEF Abstract!Next
<1>5. CASE req[p].op = "allocate"
  <2>1. req[p].user \in Owners /\ req[p].amount \in Int /\ req[p].amount > 0
    BY <1>5, RequestLemma DEF TypeOK, Shape, KeyHeldPcs
  <2>2. Settled' = Settled
    BY <1>1, <1>5 DEF Settled
  <2>3. bal' = [a \in Accounts |-> bal[a] + WithholdEntry(req[p].user, req[p].amount, a)]
    BY <1>1, <1>5 DEF Entry
  <2>4. Source(p) = Revenue(req[p].user) /\ bal[Revenue(req[p].user)] \in Int
    BY <1>5, <2>1, AccountsLemma DEF Source, TypeOK
  <2>5. req[p].amount \in 1 .. bal[Revenue(req[p].user)]
    BY <1>2, <1>5, <2>1, <2>4
  <2>6. Abstract!Allocate(req[p].user, req[p].amount)
    BY <2>2, <2>3, <2>4, <2>5 DEF Abstract!Allocate, Abstract!Accounts,
       Abstract!WithholdEntry, Abstract!Revenue, Abstract!Fuel, Accounts,
       WithholdEntry, Revenue, Fuel
  <2>7. req[p].amount \in 1 .. bal[Abstract!Revenue(req[p].user)]
    BY <2>5 DEF Abstract!Revenue, Revenue
  <2> QED
    BY <2>1, <2>6, <2>7 DEF Abstract!Next
<1> QED
  BY <1>3, <1>4, <1>5, RequestLemma DEF TypeOK

(* Every other step leaves what Ledger sees as it was.                        *)
LEMMA StepRefines ==
    ASSUME TypeOK, Shape, CheckedStaysFunded, KeyExclusion, [Next]_vars
    PROVE  [Abstract!Next]_<<bal, Settled>>
<1>1. ASSUME NEW p \in Requests, AllocateRead(p)
      PROVE  UNCHANGED <<bal, Settled>>
  <2>1. p \notin committed /\ bal' = bal /\ committed' = committed
    BY <1>1 DEF AllocateRead, Shape
  <2>2. \A q \in committed : req'[q] = req[q]
    BY <1>1, <2>1 DEF AllocateRead, TypeOK
  <2> QED
    BY <2>1, <2>2, SettledUnchanged
<1>2. ASSUME NEW p \in Requests, Commit(p) \/ CommitLost(p)
      PROVE  [Abstract!Next]_<<bal, Settled>>
  <2>1. CASE Apply(p)
    BY <1>2, <2>1, CommitRefines DEF Commit, CommitLost
  <2>2. CASE Rollback(p, "failed")
    BY <2>2, SettledUnchanged DEF Rollback
  <2> QED
    BY <1>2, <2>1, <2>2 DEF Commit, CommitLost
<1>3. ASSUME UNCHANGED <<req, bal, committed>>
      PROVE  UNCHANGED <<bal, Settled>>
  BY <1>3, SettledUnchanged
<1>4. ASSUME NEW p \in Requests,
             Start(p) \/ AllocateOpen(p) \/ Begin(p) \/ ResolveAssignment(p)
               \/ TryInsertKey(p) \/ Replay(p) \/ GetAccount(p) \/ InsertAccount(p)
      PROVE  UNCHANGED <<req, bal, committed>>
  BY <1>4 DEF Start, AllocateOpen, Begin, ResolveAssignment, TryInsertKey, Replay,
     GetAccount, InsertAccount, Rollback
<1>5. ASSUME NEW p \in Requests,
             LockAccount(p) \/ CheckBalance(p) \/ InsertPosting(p) \/ Report(p) \/ Cancel(p)
      PROVE  UNCHANGED <<req, bal, committed>>
  BY <1>5 DEF LockAccount, CheckBalance, InsertPosting, Report, Cancel, Rollback
<1>6. (\E a \in Accounts : OpenAccount(a)) \/ UNCHANGED vars => UNCHANGED <<req, bal, committed>>
  BY DEF OpenAccount, vars
<1> QED
  BY <1>1, <1>2, <1>3, <1>4, <1>5, <1>6 DEF Next, ServerStep, Quiesced

(* To its callers the repository is the atomic ledger: every behaviour of the *)
(* statements, locks, failures and lost answers is one of Ledger.             *)
THEOREM WalletImplementsLedger ==
    Spec => ImplementsLedger
<1>1. Init => Abstract!Init
  BY DEF Init, Abstract!Init, Settled
<1>2. Init => TypeOK /\ Shape /\ Funds /\ KeyExclusion /\ ReplayFindsOriginal
  BY TypeInit, FundsInit
  DEF Init, KeyExclusion, ReplayFindsOriginal, Owns, KeyHeld, KeyHeldPcs
<1>3. TypeOK /\ Shape /\ Funds /\ KeyExclusion /\ ReplayFindsOriginal /\ [Next]_vars
         => (TypeOK /\ Shape /\ Funds /\ KeyExclusion /\ ReplayFindsOriginal)'
  BY TypeStep, FundsStep, KeysStep
<1>4. TypeOK /\ Shape /\ Funds /\ KeyExclusion /\ [Next]_vars
         => [Abstract!Next]_<<bal, Settled>>
  BY StepRefines DEF Funds
<1> QED
  BY <1>1, <1>2, <1>3, <1>4, PTL DEF Spec, ImplementsLedger, Abstract!Spec

-----------------------------------------------------------------------------
(* Fuel money stays.  Only a COMMIT changes a balance, a fuel account is no   *)
(* source, and an amount that is committed is positive.                       *)
LEMMA OnlyCommitPays ==
    ASSUME [Next]_vars
    PROVE  bal' = bal \/ \E p \in Requests : pc[p] = "commit" /\ Apply(p)
<1>1. ASSUME NEW p \in Requests, Commit(p) \/ CommitLost(p)
      PROVE  bal' = bal \/ (pc[p] = "commit" /\ Apply(p))
  BY <1>1 DEF Commit, CommitLost, Rollback
<1>2. ASSUME NEW p \in Requests,
             Start(p) \/ AllocateOpen(p) \/ AllocateRead(p) \/ Begin(p) \/ ResolveAssignment(p)
               \/ TryInsertKey(p) \/ Replay(p) \/ GetAccount(p) \/ InsertAccount(p)
      PROVE  bal' = bal
  BY <1>2 DEF Start, AllocateOpen, AllocateRead, Begin, ResolveAssignment, TryInsertKey,
     Replay, GetAccount, InsertAccount, Rollback
<1>3. ASSUME NEW p \in Requests,
             LockAccount(p) \/ CheckBalance(p) \/ InsertPosting(p) \/ Report(p) \/ Cancel(p)
      PROVE  bal' = bal
  BY <1>3 DEF LockAccount, CheckBalance, InsertPosting, Report, Cancel, Rollback
<1>4. (\E a \in Accounts : OpenAccount(a)) \/ UNCHANGED vars => bal' = bal
  BY DEF OpenAccount, vars
<1> QED
  BY <1>1, <1>2, <1>3, <1>4 DEF Next, ServerStep, Quiesced

(* Money withheld for fuel never leaves the fuel account, whichever requests  *)
(* run, fail or are answered twice.                                           *)
THEOREM FuelMoneyStays ==
    Spec => OneWayMoney
<1>1. ASSUME TypeOK, Shape, [Next]_vars, NEW o \in Owners
      PROVE  bal'[Fuel(o)] >= bal[Fuel(o)]
  <2>1. Fuel(o) \in Accounts /\ bal[Fuel(o)] \in Int
    BY <1>1, AccountsLemma DEF TypeOK
  <2>2. CASE bal' = bal
    BY <2>1, <2>2
  <2>3. CASE \E p \in Requests : pc[p] = "commit" /\ Apply(p)
    <3>1. PICK p \in Requests : pc[p] = "commit" /\ Apply(p)
      BY <2>3
    <3>2. bal'[Fuel(o)] = bal[Fuel(o)] + Entry(p, Fuel(o))
      BY <2>1, <3>1 DEF Apply
    <3>3. req[p] \in Request /\ req[p].amount \in Int /\ req[p].amount > 0
      BY <1>1, <3>1, RequestLemma DEF Shape, TypeOK, KeyHeldPcs
    <3>4. Fuel(o) # Source(p)
      BY DEF Source, Fuel, Wallet, Funding, Revenue
    <3>5. Entry(p, Fuel(o)) \in Int /\ Entry(p, Fuel(o)) >= 0
      BY <3>3, <3>4, EntryLemma
    <3> QED
      BY <2>1, <3>2, <3>5
  <2> QED
    BY <1>1, <2>2, <2>3, OnlyCommitPays
<1>2. TypeOK /\ Shape /\ [Next]_vars => [\A o \in Owners : bal'[Fuel(o)] >= bal[Fuel(o)]]_vars
  BY <1>1
<1>3. Init => TypeOK /\ Shape
  BY TypeInit
<1>4. TypeOK /\ Shape /\ [Next]_vars => TypeOK' /\ Shape'
  BY TypeStep
<1> QED
  BY <1>2, <1>3, <1>4, PTL DEF Spec, OneWayMoney

-----------------------------------------------------------------------------
(* No circle of waiting transactions.  What a transaction waits for is held   *)
(* by one that is further on in one fixed order of all statements (Rank).     *)

(* p has got or created the i-th account it needs.                            *)
Passed(p, i) ==
    \/ pc[p] \in {"get", "insert"} /\ i < k[p]
    \/ pc[p] \in {"lock", "balance"} /\ i = 1
    \/ pc[p] \in {"post", "commit"}

(* A row of accounts is created once, by a transaction that needed it; the    *)
(* revenue account of a withholding is there before its transaction begins.   *)
RowFits(p) ==
    /\ mine[p] \cap accounts = {}
    /\ \A a \in mine[p] :
           \E i \in 1 .. Len(Lookups(p)) : Lookups(p)[i] = a /\ Passed(p, i)
    /\ (req[p].op = "allocate" /\ pc[p] \in KeyHeldPcs \cup {"read", "begin"})
           => Revenue(req[p].user) \in accounts

(* A new account is an uncommitted row of one transaction only.               *)
Rows ==
    /\ \A p \in Requests : RowFits(p)
    /\ \A p, q \in Requests : p # q => mine[p] \cap mine[q] = {}

(* A step of p that creates no uncommitted row.                               *)
LEMMA RowsKept ==
    ASSUME Rows, NEW p \in Requests, mine' = mine, accounts \subseteq accounts',
           \A q \in Requests : mine[q] \cap accounts' = {},
           \A q \in Requests \ {p} : pc'[q] = pc[q] /\ k'[q] = k[q] /\ req'[q] = req[q],
           \/ mine[p] = {}
           \/ req'[p] = req[p] /\ \A i \in 1 .. Len(Lookups(p)) : Passed(p, i) => Passed(p, i)',
           (req'[p].op = "allocate" /\ pc'[p] \in KeyHeldPcs \cup {"read", "begin"})
               => Revenue(req'[p].user) \in accounts'
    PROVE  Rows'
<1>1. ASSUME NEW q \in Requests \ {p} PROVE RowFits(q)'
  <2>1. Lookups(q)' = Lookups(q) /\ \A i : Passed(q, i)' <=> Passed(q, i)
    BY DEF Lookups, Passed
  <2> QED
    BY <2>1 DEF Rows, RowFits
<1>2. RowFits(p)'
  <2>1. CASE mine[p] = {}
    BY <2>1 DEF RowFits
  <2>2. CASE req'[p] = req[p] /\ \A i \in 1 .. Len(Lookups(p)) : Passed(p, i) => Passed(p, i)'
    <3>1. Lookups(p)' = Lookups(p)
      BY <2>2 DEF Lookups
    <3> QED
      BY <2>2, <3>1 DEF Rows, RowFits
  <2> QED
    BY <2>1, <2>2
<1> QED
  BY <1>1, <1>2 DEF Rows

(* The end of p's transaction, with or without its rows.                      *)
LEMMA RowsEnd ==
    ASSUME TypeOK, Rows, NEW p \in Requests, mine' = [mine EXCEPT ![p] = {}],
           accounts' \in {accounts, accounts \cup mine[p]}, req' = req, k' = k,
           NEW label \in Answers \cup {"report"}, Goto(p, label)
    PROVE  Rows'
<1>1. /\ mine'[p] = {} /\ pc'[p] = label
      /\ \A q \in Requests \ {p} : mine'[q] = mine[q] /\ pc'[q] = pc[q]
  BY DEF TypeOK, Goto
<1>2. ASSUME NEW q \in Requests \ {p} PROVE RowFits(q)'
  <2>1. Lookups(q)' = Lookups(q) /\ \A i : Passed(q, i)' <=> Passed(q, i)
    BY <1>1 DEF Lookups, Passed
  <2>2. mine[q] \cap mine[p] = {}
    BY DEF Rows
  <2> QED
    BY <1>1, <2>1, <2>2 DEF Rows, RowFits
<1>3. RowFits(p)'
  BY <1>1 DEF RowFits, Answers, KeyHeldPcs
<1>4. \A q, r \in Requests : q # r => mine'[q] \cap mine'[r] = {}
  BY <1>1 DEF Rows
<1> QED
  BY <1>2, <1>3, <1>4 DEF Rows

(* Once p has the account it looked up, it has it and those before.           *)
LEMMA AfterLookupPasses ==
    ASSUME TypeOK, NEW p \in Requests, pc[p] \in {"get", "insert"}, AfterLookup(p)
    PROVE  \A i \in 1 .. 4 : i <= k[p] => Passed(p, i)'
<1>1. k[p] \in 1 .. 4
  BY DEF TypeOK
<1>2. \/ pc'[p] = "lock" /\ k[p] = 1
      \/ pc'[p] = "get" /\ k'[p] = k[p] + 1
      \/ pc'[p] = "post"
  BY DEF AfterLookup, Goto, TypeOK
<1> QED
  BY <1>1, <1>2 DEF Passed

(* GetOrCreateAccount, where the account is not there yet.                    *)
LEMMA RowCreated ==
    ASSUME TypeOK, Shape, Rows, NEW p \in Requests, InsertAccount(p),
           Lookups(p)[k[p]] \notin accounts
    PROVE  Rows'
<1>1. PICK a : a = Lookups(p)[k[p]]
  OBVIOUS
<1>2. /\ pc[p] = "insert" /\ AfterLookup(p)
      /\ mine' = [mine EXCEPT ![p] = mine[p] \cup {a}]
      /\ req' = req /\ accounts' = accounts /\ a \notin accounts
      /\ \A q \in Requests \ {p} : a \notin mine[q]
  BY <1>1 DEF InsertAccount, WaitsForInsert
<1>3. /\ mine'[p] = mine[p] \cup {a}
      /\ \A q \in Requests \ {p} : mine'[q] = mine[q]
  BY <1>2 DEF TypeOK
<1>4. \A q \in Requests \ {p} : pc'[q] = pc[q] /\ k'[q] = k[q]
  BY <1>2, AfterLookupLemma DEF TypeOK
<1>5. ASSUME NEW q \in Requests \ {p} PROVE RowFits(q)'
  <2>1. Lookups(q)' = Lookups(q) /\ \A i : Passed(q, i)' <=> Passed(q, i)
    BY <1>2, <1>4 DEF Lookups, Passed
  <2> QED
    BY <1>2, <1>3, <1>4, <2>1 DEF Rows, RowFits
<1>6. RowFits(p)'
  <2>1. Lookups(p)' = Lookups(p)
    BY <1>2 DEF Lookups
  <2>2. PICK n \in 1 .. Len(Lookups(p)) : n = k[p] /\ Len(Lookups(p)) \in {2, 4}
    <3>1. Len(Lookups(p)) = IF req[p].op = "fare" THEN 4 ELSE 2
      BY LookupsLemma DEF TypeOK
    <3>2. k[p] \in 1 .. 4 /\ k[p] <= IF req[p].op = "fare" THEN 4 ELSE 2
      BY DEF TypeOK, Shape
    <3>3. k[p] \in 1 .. Len(Lookups(p)) /\ Len(Lookups(p)) \in {2, 4}
      BY <3>1, <3>2
    <3> QED
      BY <3>3
  <2>3. \A i \in 1 .. Len(Lookups(p)) : i <= n => Passed(p, i)'
    <3>1. \A i \in 1 .. 4 : i <= n => Passed(p, i)'
      BY <1>2, <2>2, AfterLookupPasses
    <3>2. \A i \in 1 .. Len(Lookups(p)) : i \in 1 .. 4
      <4>1. CASE Len(Lookups(p)) = 2
        BY <4>1
      <4>2. CASE Len(Lookups(p)) = 4
        BY <4>2
      <4> QED
        BY <2>2, <4>1, <4>2
    <3> QED
      BY <3>1, <3>2
  <2>4. \A b \in mine[p] : \E i \in 1 .. Len(Lookups(p)) : Lookups(p)[i] = b /\ i < n
    BY <1>2, <2>2 DEF Rows, RowFits, Passed
  <2>5. \A b \in mine'[p] : \E i \in 1 .. Len(Lookups(p)) : Lookups(p)[i] = b /\ Passed(p, i)'
    <3>1. ASSUME NEW b \in mine[p]
          PROVE  \E i \in 1 .. Len(Lookups(p)) : Lookups(p)[i] = b /\ Passed(p, i)'
      <4>1. PICK i \in 1 .. Len(Lookups(p)) : Lookups(p)[i] = b /\ i <= n
        BY <2>2, <2>4, <3>1
      <4> QED
        BY <2>3, <4>1
    <3>2. Lookups(p)[n] = a /\ Passed(p, n)'
      BY <1>1, <2>2, <2>3
    <3> QED
      BY <1>3, <3>1, <3>2
  <2>6. mine'[p] \cap accounts' = {}
    BY <1>2, <1>3 DEF Rows, RowFits
  <2>7. req[p].op = "allocate" => Revenue(req[p].user) \in accounts
    BY <1>2 DEF Rows, RowFits, KeyHeldPcs
  <2> QED
    BY <1>2, <2>1, <2>5, <2>6, <2>7 DEF RowFits
<1>7. \A q, r \in Requests : q # r => mine'[q] \cap mine'[r] = {}
  BY <1>2, <1>3 DEF Rows
<1> QED
  BY <1>5, <1>6, <1>7 DEF Rows

(* At the start there are no uncommitted rows.                                *)
LEMMA RowsInit ==
    Init => Rows
  BY DEF Init, Rows, RowFits, KeyHeldPcs

(* Inserting an account takes its row, and COMMIT or rollback gives it up.    *)
LEMMA RowsStep ==
    ASSUME TypeOK, Shape, Rows, [Next]_vars
    PROVE  Rows'
<1>0. \A q \in Requests : mine[q] \cap accounts = {}
  BY DEF Rows, RowFits
<1>1. ASSUME NEW p \in Requests, mine' = mine, accounts' = accounts, req' = req, k' = k,
             NEW label, pc' = [pc EXCEPT ![p] = label],
             \A i \in 1 .. Len(Lookups(p)) : ~ Passed(p, i),
             req[p].op = "allocate" /\ label \in KeyHeldPcs \cup {"read", "begin"}
                 => Revenue(req[p].user) \in accounts
      PROVE  Rows'
  <2>1. mine[p] = {}
    BY <1>1 DEF Rows, RowFits
  <2> QED
    BY <1>0, <1>1, <2>1, RowsKept DEF TypeOK
<1>2. ASSUME NEW p \in Requests,
             Start(p) \/ Begin(p) \/ ResolveAssignment(p) \/ TryInsertKey(p) \/ Report(p)
      PROVE  Rows'
  <2>1. /\ mine' = mine /\ accounts' = accounts /\ req' = req /\ k' = k
        /\ pc[p] \in {"idle", "begin", "assignment", "key", "report"}
    BY <1>2 DEF Start, Begin, ResolveAssignment, TryInsertKey, Report
  <2>2. PICK label : /\ pc' = [pc EXCEPT ![p] = label]
                     /\ req[p].op = "allocate" /\ label \in KeyHeldPcs \cup {"read", "begin"}
                            => Revenue(req[p].user) \in accounts
    <3>1. \/ pc[p] = "idle" /\ pc' = [pc EXCEPT ![p] = IF req[p].op = "allocate" THEN "open" ELSE "begin"]
          \/ pc[p] = "begin" /\ pc' = [pc EXCEPT ![p] = IF req[p].op = "fare" THEN "assignment" ELSE "get"]
          \/ req[p].op = "fare" /\ \E label : pc' = [pc EXCEPT ![p] = label]
          \/ pc' = [pc EXCEPT ![p] = "created"]
      BY <1>2 DEF Start, Begin, ResolveAssignment, TryInsertKey, Report, Goto, Shape
    <3>2. pc[p] = "begin" /\ req[p].op = "allocate" => Revenue(req[p].user) \in accounts
      BY DEF Rows, RowFits
    <3> QED
      BY <3>1, <3>2 DEF KeyHeldPcs
  <2>3. \A i : ~ Passed(p, i)
    BY <2>1 DEF Passed
  <2> QED
    BY <1>1, <2>1, <2>2, <2>3
<1>3. ASSUME NEW p \in Requests, AllocateOpen(p)
      PROVE  Rows'
  <2>1. /\ mine' = mine /\ req' = req /\ k' = k /\ pc[p] = "open"
        /\ accounts' = accounts \cup {Revenue(req[p].user)}
        /\ pc' = [pc EXCEPT ![p] = "read"]
        /\ \A q \in Requests : Revenue(req[p].user) \notin mine[q]
    BY <1>3 DEF AllocateOpen, Goto
  <2>2. mine[p] = {}
    BY <2>1 DEF Rows, RowFits, Passed
  <2> QED
    BY <1>0, <2>1, <2>2, RowsKept DEF TypeOK
<1>4. ASSUME NEW p \in Requests, AllocateRead(p)
      PROVE  Rows'
  <2>1. PICK r, label : /\ mine' = mine /\ accounts' = accounts /\ k' = k /\ pc[p] = "read"
                        /\ req' = [req EXCEPT ![p] = r] /\ r.user = req[p].user
                        /\ pc' = [pc EXCEPT ![p] = label]
    BY <1>4 DEF AllocateRead, AllocateReq, Goto
  <2>2. mine[p] = {}
    BY <2>1 DEF Rows, RowFits, Passed
  <2>3. req[p].op = "allocate" /\ Revenue(req[p].user) \in accounts
    BY <2>1 DEF Shape, Rows, RowFits
  <2> QED
    BY <1>0, <2>1, <2>2, <2>3, RowsKept DEF TypeOK
<1>5. ASSUME NEW p \in Requests, NEW label \in Answers \cup {"report"}, Rollback(p, label)
      PROVE  Rows'
  BY <1>5, RowsEnd DEF Rollback
<1>6. ASSUME NEW p \in Requests, NEW label \in Answers \cup {"report"}, Apply(p), Goto(p, label)
      PROVE  Rows'
  BY <1>6, RowsEnd DEF Apply
<1>7. ASSUME NEW p \in Requests, Replay(p) \/ Cancel(p) \/ Commit(p) \/ CommitLost(p)
      PROVE  Rows'
  <2>1. \E label \in Answers \cup {"report"} : Rollback(p, label) \/ (Apply(p) /\ Goto(p, label))
    BY <1>7 DEF Replay, Cancel, Commit, CommitLost, Answers
  <2> QED
    BY <1>5, <1>6, <2>1
<1>8. ASSUME NEW p \in Requests, pc[p] \in KeyHeldPcs, mine' = mine, accounts' = accounts, req' = req,
             \A q \in Requests \ {p} : pc'[q] = pc[q] /\ k'[q] = k[q],
             \A i \in 1 .. Len(Lookups(p)) : Passed(p, i) => Passed(p, i)'
      PROVE  Rows'
  <2>1. req[p].op = "allocate" => Revenue(req[p].user) \in accounts
    BY <1>8 DEF Rows, RowFits
  <2> QED
    BY <1>0, <1>8, <2>1, RowsKept
<1>9. ASSUME NEW p \in Requests, GetAccount(p)
      PROVE  Rows'
  <2>1. pc[p] = "get" /\ mine' = mine /\ accounts' = accounts /\ req' = req /\ k[p] \in 1 .. 4
    BY <1>9 DEF GetAccount, TypeOK
  <2>2. CASE Lookups(p)[k[p]] \in accounts \cup mine[p]
    <3>1. AfterLookup(p)
      BY <1>9, <2>2 DEF GetAccount
    <3>2. \A q \in Requests \ {p} : pc'[q] = pc[q] /\ k'[q] = k[q]
      BY <2>1, <3>1, AfterLookupLemma DEF TypeOK
    <3>3. \A i \in 1 .. 4 : i <= k[p] => Passed(p, i)'
      BY <2>1, <3>1, AfterLookupPasses
    <3>4. Len(Lookups(p)) \in {2, 4}
      BY LookupsLemma DEF TypeOK
    <3>5. \A i \in 1 .. Len(Lookups(p)) : Passed(p, i) => i \in 1 .. 4 /\ i <= k[p]
      BY <2>1, <3>4 DEF Passed
    <3> QED
      BY <1>8, <2>1, <3>2, <3>3, <3>5 DEF KeyHeldPcs
  <2>3. CASE Lookups(p)[k[p]] \notin accounts \cup mine[p]
    <3>1. pc' = [pc EXCEPT ![p] = "insert"] /\ k' = k
      BY <1>9, <2>3 DEF GetAccount, Goto
    <3>2. \A i : Passed(p, i) => Passed(p, i)'
      BY <2>1, <3>1 DEF Passed, TypeOK
    <3> QED
      BY <1>8, <2>1, <3>1, <3>2 DEF KeyHeldPcs, TypeOK
  <2> QED
    BY <2>2, <2>3
<1>10. ASSUME NEW p \in Requests, InsertAccount(p)
       PROVE  Rows'
  <2>1. Lookups(p)[k[p]] \in accounts => Rollback(p, "aborted")
    BY <1>10 DEF InsertAccount
  <2> QED
    BY <1>5, <1>10, <2>1, RowCreated DEF Answers
<1>11. ASSUME NEW p \in Requests, LockAccount(p) \/ CheckBalance(p)
       PROVE  Rows'
  <2>1. \/ Rollback(p, "insufficient")
        \/ /\ mine' = mine /\ accounts' = accounts /\ req' = req
           /\ \/ pc[p] = "lock" /\ pc' = [pc EXCEPT ![p] = "balance"] /\ k' = k
              \/ pc[p] = "balance" /\ pc' = [pc EXCEPT ![p] = "get"] /\ k' = [k EXCEPT ![p] = 2]
    BY <1>11 DEF LockAccount, CheckBalance, Goto
  <2>2. CASE ~ Rollback(p, "insufficient")
    <3>1. \A i : Passed(p, i) => Passed(p, i)'
      BY <2>1, <2>2 DEF Passed, TypeOK
    <3> QED
      BY <1>8, <2>1, <2>2, <3>1 DEF KeyHeldPcs, TypeOK
  <2> QED
    BY <1>5, <2>2 DEF Answers
<1>12. ASSUME NEW p \in Requests, InsertPosting(p)
       PROVE  Rows'
  <2>1. /\ mine' = mine /\ accounts' = accounts /\ req' = req /\ pc[p] = "post"
        /\ pc'[p] \in {"post", "commit"}
        /\ \A q \in Requests \ {p} : pc'[q] = pc[q] /\ k'[q] = k[q]
    BY <1>12 DEF InsertPosting, Goto, TypeOK
  <2>2. \A i : Passed(p, i)'
    BY <2>1 DEF Passed
  <2> QED
    BY <1>8, <2>1, <2>2 DEF KeyHeldPcs
<1>13. ASSUME NEW a \in Accounts, OpenAccount(a)
       PROVE  Rows'
  <2>1. ASSUME NEW q \in Requests PROVE RowFits(q)'
    <3>1. Lookups(q)' = Lookups(q) /\ \A i : Passed(q, i)' <=> Passed(q, i)
      BY <1>13 DEF OpenAccount, Lookups, Passed
    <3> QED
      BY <1>13, <3>1 DEF OpenAccount, Rows, RowFits
  <2> QED
    BY <1>13, <2>1 DEF OpenAccount, Rows
<1>14. ASSUME UNCHANGED vars
       PROVE  Rows'
  BY <1>14 DEF vars, Rows, RowFits, Lookups, Passed
<1> QED
  BY <1>2, <1>3, <1>4, <1>7, <1>9, <1>10, <1>11, <1>12, <1>13, <1>14
  DEF Next, ServerStep, Quiesced

(* How far p is in the order in which transactions wait for each other: a     *)
(* key, then the wallet's or the revenue's row, then the row locks, then the  *)
(* rows and the postings of the accounts that are credited.  Fares come after *)
(* top-ups there and before withholdings.                                     *)
Rank(p) ==
    IF pc[p] = "key" THEN 0
    ELSE IF pc[p] = "insert" /\ k[p] = 1 THEN 1
    ELSE IF pc[p] = "insert" /\ req[p].op = "topup" THEN 2
    ELSE IF pc[p] = "lock" \/ (pc[p] = "post" /\ req[p].op = "topup") THEN 3
    ELSE IF pc[p] = "insert" /\ req[p].op = "fare" THEN 2 + k[p]
    ELSE IF pc[p] = "post" /\ req[p].op = "fare" THEN 6 + k[p]
    ELSE 11

(* Some transaction is further than p.                                        *)
Further(p) == \E q \in Requests : InTx(q) /\ Rank(q) > Rank(p)

(* A transaction that holds a row lock is past every lock it waits for.       *)
LEMMA LockedRank ==
    ASSUME TypeOK, Shape, NEW q \in Requests, Locked(q)
    PROVE  /\ InTx(q) /\ Rank(q) > 3
           /\ req[q].op = "allocate" => Rank(q) = 11
<1>1. k[q] \in 1 .. 4 /\ req[q].op \in {"fare", "topup", "allocate"}
  BY RequestLemma DEF TypeOK
<1> QED
  BY <1>1 DEF Locked, InTx, TxPcs, KeyHeldPcs, Rank

(* TryInsertKey: the key's holder is past its own key.                        *)
LEMMA KeyWaitsFurther ==
    ASSUME TypeOK, NEW p \in Requests, WaitsForKey(p)
    PROVE  Further(p)
<1>1. PICK q \in Requests : KeyHeld(q)
  BY DEF WaitsForKey
<1>2. Rank(p) = 0
  BY DEF WaitsForKey, Rank
<1>3. InTx(q) /\ Rank(q) > 0
  BY <1>1 DEF KeyHeld, InTx, TxPcs, KeyHeldPcs, Rank, TypeOK
<1> QED
  BY <1>2, <1>3 DEF Further

(* InsertAccount: the row's creator has passed the same account.              *)
LEMMA InsertWaitsFurther ==
    ASSUME TypeOK, Shape, LockExclusion, Rows, NEW p \in Requests, WaitsForInsert(p)
    PROVE  Further(p)
<1>0. PICK a : a = Lookups(p)[k[p]]
  OBVIOUS
<1>1. PICK q \in Requests \ {p} : pc[p] = "insert" /\ a = Lookups(p)[k[p]] /\ a \in mine[q]
  BY <1>0 DEF WaitsForInsert
<1>2. PICK i \in 1 .. Len(Lookups(q)) : Lookups(q)[i] = a /\ Passed(q, i)
  BY <1>1 DEF Rows, RowFits
<1>3. /\ k[p] \in 1 .. 4 /\ k[q] \in 1 .. 4
      /\ req[p].op \in {"fare", "topup", "allocate"}
      /\ req[q].op \in {"fare", "topup", "allocate"}
  BY RequestLemma DEF TypeOK
<1>4. /\ k[p] <= IF req[p].op = "fare" THEN 4 ELSE 2
      /\ i \in 1 .. 4 /\ i <= IF req[q].op = "fare" THEN 4 ELSE 2
  <2>1. Len(Lookups(q)) = IF req[q].op = "fare" THEN 4 ELSE 2
    BY LookupsLemma DEF TypeOK
  <2>2. CASE req[q].op = "fare"
    BY <1>2, <2>1, <2>2 DEF Shape
  <2>3. CASE req[q].op # "fare"
    BY <1>2, <2>1, <2>3 DEF Shape
  <2> QED
    BY <2>2, <2>3
<1>5. InTx(q) /\ Rank(q) \in 2 .. 11
  BY <1>2, <1>3, <1>4 DEF Passed, InTx, TxPcs, KeyHeldPcs, Rank
<1>6. CASE k[p] = 1
  <2>1. Rank(p) = 1
    BY <1>1, <1>6 DEF Rank
  <2> QED
    BY <1>1, <1>5, <2>1 DEF Further
<1>7. CASE k[p] # 1 /\ req[p].op = "topup"
  <2>1. a = Funding /\ Rank(p) = 2
    BY <1>1, <1>3, <1>4, <1>7 DEF Lookups, Rank
  <2>2. req[q].op = "topup" /\ i = 2
    BY <1>2, <1>3, <1>4, <2>1
    DEF Lookups, Wallet, Earnings, Revenue, PlatformFee, Fuel, Funding
  <2>3. Rank(q) >= 3
    BY <1>2, <1>3, <2>2 DEF Passed, Rank, Shape
  <2> QED
    BY <1>1, <1>5, <2>1, <2>3 DEF Further
<1>8. CASE k[p] # 1 /\ req[p].op = "fare"
  <2>1. Rank(p) = 2 + k[p] /\ k[p] \in {2, 3, 4}
    BY <1>1, <1>3, <1>8 DEF Rank
  <2>2. ~ (req[q].op = "allocate" /\ i = 1)
    <3>1. SUFFICES ASSUME req[q].op = "allocate", i = 1 PROVE FALSE
      OBVIOUS
    <3>2. a = Revenue(req[q].user) /\ pc[q] \in KeyHeldPcs
      BY <1>2, <3>1 DEF Lookups, Passed, KeyHeldPcs
    <3> QED
      BY <1>1, <3>1, <3>2 DEF Rows, RowFits
  <2>3. req[q].op = "fare" /\ i = k[p]
    BY <1>1, <1>2, <1>3, <1>4, <1>8, <2>1, <2>2
    DEF Lookups, Wallet, Earnings, Revenue, PlatformFee, Fuel, Funding
  <2>4. Rank(q) > 2 + k[p]
    BY <1>2, <1>3, <2>1, <2>3 DEF Passed, Rank
  <2> QED
    BY <1>1, <1>5, <2>1, <2>4 DEF Further
<1>9. CASE k[p] # 1 /\ req[p].op = "allocate"
  <2>1. a = Fuel(req[p].user) /\ Locked(p)
    BY <1>1, <1>3, <1>4, <1>9 DEF Lookups, Locked
  <2>2. req[q].op = "allocate" /\ i = 2 /\ req[q].user = req[p].user
    BY <1>2, <1>3, <1>4, <2>1
    DEF Lookups, Wallet, Earnings, Revenue, PlatformFee, Fuel, Funding
  <2>3. Locked(q) /\ Source(q) = Source(p)
    BY <1>2, <1>3, <1>4, <1>9, <2>2 DEF Passed, Locked, Source
  <2> QED
    BY <1>1, <2>1, <2>3 DEF LockExclusion
<1> QED
  BY <1>3, <1>6, <1>7, <1>8, <1>9

(* LockAccount: the row is locked, or shared by postings, further on.         *)
LEMMA RowWaitsFurther ==
    ASSUME TypeOK, Shape, NEW p \in Requests, WaitsForRow(p)
    PROVE  Further(p)
<1>1. PICK q \in Requests : Locked(q) \/ Shares(q, Source(p))
  BY DEF WaitsForRow
<1>2. pc[p] = "lock" /\ Rank(p) = 3 /\ req[p].op # "topup"
  BY DEF WaitsForRow, Rank, Shape
<1>3. k[q] \in 1 .. 4 /\ req[q].op \in {"fare", "topup", "allocate"}
  BY RequestLemma DEF TypeOK
<1>4. CASE Locked(q)
  BY <1>2, <1>4, LockedRank DEF Further
<1>5. CASE Shares(q, Source(p))
  <2>1. InTx(q) /\ pc[q] \in {"post", "commit"}
    BY <1>5 DEF Shares, InTx, TxPcs, KeyHeldPcs
  <2>2. ~ (req[q].op = "topup" /\ pc[q] = "post")
    <3>1. SUFFICES ASSUME req[q].op = "topup", pc[q] = "post" PROVE FALSE
      OBVIOUS
    <3>2. k[q] \in {1, 2}
      BY <1>3, <3>1 DEF Shape
    <3>3. PICK i \in 1 .. k[q] - 1 : PostOrder(q)[i] = Source(p)
      BY <1>5, <3>1 DEF Shares
    <3>4. i = 1
      BY <3>2, <3>3
    <3>5. Source(p) = Funding
      BY <3>1, <3>3, <3>4 DEF PostOrder
    <3> QED
      BY <1>2, <3>5 DEF Source, Wallet, Revenue, Funding
  <2>3. Rank(q) > 3
    BY <1>3, <2>1, <2>2 DEF Rank
  <2> QED
    BY <1>2, <2>1, <2>3 DEF Further
<1> QED
  BY <1>1, <1>4, <1>5

(* InsertPosting: the credited account is the locked source of another.       *)
LEMMA ShareWaitsFurther ==
    ASSUME TypeOK, Shape, LockExclusion, NEW p \in Requests, WaitsForShare(p)
    PROVE  Further(p)
<1>1. PICK q \in Requests \ {p} : Locked(q) /\ Source(q) = PostOrder(p)[k[p]]
  BY DEF WaitsForShare
<1>2. /\ pc[p] = "post" /\ k[p] \in 1 .. 4
      /\ req[p].op \in {"fare", "topup", "allocate"}
      /\ req[q].op \in {"fare", "allocate"}
      /\ k[p] <= IF req[p].op = "fare" THEN 4 ELSE 2
  BY <1>1, RequestLemma DEF WaitsForShare, TypeOK, Locked, Shape
<1>3. CASE req[p].op = "topup"
  <2>1. Rank(p) = 3
    BY <1>2, <1>3 DEF Rank
  <2> QED
    BY <1>1, <2>1, LockedRank DEF Further
<1>4. CASE req[p].op = "fare"
  <2>1. Locked(p) /\ Rank(p) = 6 + k[p]
    BY <1>2, <1>4 DEF Locked, Rank
  <2>2. Source(q) # Source(p)
    BY <1>1, <2>1 DEF LockExclusion
  <2>3. k[p] = 3 /\ req[q].op = "allocate"
    BY <1>1, <1>2, <1>4, <2>2
    DEF PostOrder, Lookups, Source, Wallet, Earnings, Revenue, PlatformFee
  <2> QED
    BY <1>1, <2>1, <2>3, LockedRank DEF Further
<1>5. CASE req[p].op = "allocate"
  <2>1. Locked(p)
    BY <1>2, <1>5 DEF Locked
  <2>2. Source(q) # Source(p)
    BY <1>1, <2>1 DEF LockExclusion
  <2>3. FALSE
    BY <1>1, <1>2, <1>5, <2>2 DEF PostOrder, Lookups, Source, Wallet, Revenue, Fuel
  <2> QED
    BY <2>3
<1> QED
  BY <1>2, <1>3, <1>4, <1>5

(* Of the open transactions, one that is furthest waits for none.             *)
LEMMA FurthestRuns ==
    ASSUME TypeOK, Shape, LockExclusion, Rows
    PROVE  NoLockCycle
<1> SUFFICES ASSUME \E p \in Requests : InTx(p),
                    \A p \in Requests : InTx(p) => Waits(p)
             PROVE  FALSE
  BY DEF NoLockCycle
<1>1. \A p \in Requests : Rank(p) \in 0 .. 11
  BY DEF Rank, TypeOK
<1> DEFINE Left == {n \in Nat : \E p \in Requests : InTx(p) /\ n = 11 - Rank(p)}
<1>2. Left # {} /\ Left \subseteq Nat
  <2>1. PICK p \in Requests : InTx(p)
    OBVIOUS
  <2>2. PICK n \in Nat : n = 11 - Rank(p)
    BY <1>1
  <2>3. n \in Left
    BY <2>1, <2>2
  <2> QED
    BY <2>3
<1>3. PICK n \in Left : \A m \in Left : n <= m
  <2> HIDE DEF Left
  <2> QED
    BY <1>2, LeastNat
<1>4. PICK p \in Requests : InTx(p) /\ n = 11 - Rank(p)
  BY <1>3
<1>5. Further(p)
  BY <1>4, KeyWaitsFurther, InsertWaitsFurther, RowWaitsFurther, ShareWaitsFurther DEF Waits
<1>6. PICK q \in Requests : InTx(q) /\ Rank(q) > Rank(p)
  BY <1>5 DEF Further
<1>7. PICK m \in Nat : m = 11 - Rank(q)
  BY <1>1
<1>8. m \in Left
  BY <1>6, <1>7
<1>9. n <= m
  BY <1>3, <1>8
<1> QED
  BY <1>1, <1>4, <1>6, <1>7, <1>9

(* The statements of any number of fares, top-ups and withholdings, with rows *)
(* locked, shared, created and keyed in the order the code does, never wait   *)
(* for each other in a circle: PostgreSQL has no deadlock to break.           *)
THEOREM NeverDeadlocked ==
    Spec => []NoLockCycle
<1>1. Init => TypeOK /\ Shape /\ Funds /\ Rows
  BY TypeInit, FundsInit, RowsInit
<1>2. TypeOK /\ Shape /\ Funds /\ Rows /\ [Next]_vars => (TypeOK /\ Shape /\ Funds /\ Rows)'
  BY TypeStep, FundsStep, RowsStep
<1>3. TypeOK /\ Shape /\ Funds /\ Rows => NoLockCycle
  BY FurthestRuns DEF Funds
<1> QED
  BY <1>1, <1>2, <1>3, PTL DEF Spec
=============================================================================
