----------------------------- MODULE WalletLedger -----------------------------
(* The wallet repository at the granularity of its SQL statements:            *)
(* internal/wallet/repo.go (Topup, InternalTransfer, ChargeFare,              *)
(* GetOrCreateAccount) and fuel.Repo.Allocate, which moves money with it.     *)
(* Every request is one goroutine of the HTTP server and, from Begin to       *)
(* Commit or Rollback, one READ COMMITTED transaction on its own connection.  *)
(* Statements of different requests interleave; a request may be cancelled    *)
(* or its server may die between any two of them, and the answer of a COMMIT  *)
(* may be lost.  A retry is another request with the same key.                *)
EXTENDS Accounts, Sequences, FiniteSets

CONSTANTS
    Requests,       \* calls of the API, each made once
    Keys,           \* idempotency keys
    Amounts,        \* cents a caller may ask to move
    Calls,          \* what the callers ask for
    WithholdPct,    \* config.FuelWithholdPct
    MaxConns,       \* size of the pgx connection pool
    Opening,        \* balances the server starts from
    OpenAccounts    \* rows of accounts the server starts from

ASSUME AmountsAssumption ==
    Amounts \subseteq Nat \ {0}

ASSUME OpeningAssumption ==
    /\ Opening \in [Accounts -> Int]
    /\ \A a \in Accounts \ {Funding} : Opening[a] >= 0
    /\ OpenAccounts \subseteq Accounts
    /\ \A a \in Accounts \ OpenAccounts : Opening[a] = 0

ASSUME PctAssumption ==
    WithholdPct \in Int

VARIABLES
    pc,         \* the statement each request is about to run, or its answer
    req,        \* what each request asks for
    k,          \* the account it looks up, or the posting it makes, by number
    mine,       \* rows of accounts it inserted and has not committed
    posted,     \* SUM(amount_cents) of the postings it has made
    accounts,   \* committed rows of accounts
    bal,        \* SUM(amount_cents) of each account's committed postings
    committed   \* requests with a committed row in ledger_transactions

vars == <<pc, req, k, mine, posted, accounts, bal, committed>>

-----------------------------------------------------------------------------
(* Requests *)

FareReq(c, v, fare, key) ==
    [op |-> "fare", user |-> c, vehicle |-> v, amount |-> fare, key |-> key]
TopupReq(c, amount) ==
    [op |-> "topup", user |-> c, vehicle |-> NULL, amount |-> amount, key |-> NULL]
AllocateReq(o, amount) ==
    [op |-> "allocate", user |-> o, vehicle |-> NULL, amount |-> amount, key |-> NULL]

Request ==
    [op : {"fare"}, user : Commuters, vehicle : Vehicles, amount : Amounts, key : Keys]
    \cup [op : {"topup"}, user : Commuters, vehicle : {NULL}, amount : Amounts, key : {NULL}]
    \cup [op : {"allocate"}, user : Owners, vehicle : {NULL}, amount : Int, key : {NULL}]

ASSUME CallsAssumption == Calls \subseteq Request

(* The account the money of p comes from.                                     *)
Source(p) ==
    IF req[p].op = "fare" THEN Wallet(req[p].user)
    ELSE IF req[p].op = "topup" THEN Funding
    ELSE Revenue(req[p].user)

(* Mutant: the order of the credited accounts depends on the vehicle.         *)
LookupsByVehicle(p) ==
    IF req[p].op = "fare"
    THEN IF req[p].vehicle = CHOOSE v \in Vehicles : TRUE
         THEN <<Wallet(req[p].user), Earnings(VehicleDriver[req[p].vehicle]),
                Revenue(VehicleOwner[req[p].vehicle]), PlatformFee>>
         ELSE <<Wallet(req[p].user), Earnings(VehicleDriver[req[p].vehicle]),
                PlatformFee, Revenue(VehicleOwner[req[p].vehicle])>>
    ELSE IF req[p].op = "topup"
    THEN <<Wallet(req[p].user), Funding>>
    ELSE <<Revenue(req[p].user), Fuel(req[p].user)>>

(* The accounts p gets or creates, in the order of the calls.                 *)
Lookups(p) ==
    IF req[p].op = "fare"
    THEN <<Wallet(req[p].user), Earnings(VehicleDriver[req[p].vehicle]),
           Revenue(VehicleOwner[req[p].vehicle]), PlatformFee>>
    ELSE IF req[p].op = "topup"
    THEN <<Wallet(req[p].user), Funding>>
    ELSE <<Revenue(req[p].user), Fuel(req[p].user)>>

(* The accounts p posts to, in the order of the insertPosting calls.          *)
PostOrder(p) ==
    IF req[p].op = "topup" THEN <<Funding, Wallet(req[p].user)>> ELSE Lookups(p)

Entry(p, a) ==
    IF req[p].op = "fare"
    THEN FareEntry(req[p].user, req[p].vehicle, req[p].amount, a)
    ELSE IF req[p].op = "topup"
    THEN TopupEntry(req[p].user, req[p].amount, a)
    ELSE WithholdEntry(req[p].user, req[p].amount, a)

-----------------------------------------------------------------------------
(* Transactions, their locks and their connections *)

Answers ==
    {"created", "replayed", "insufficient", "no_driver", "nothing", "aborted",
     "failed"}

KeyHeldPcs == {"get", "insert", "lock", "balance", "post", "commit"}
TxPcs == KeyHeldPcs \cup {"assignment", "key", "replay"}
PoolPcs == {"open", "read", "begin", "report"}

InTx(p) == pc[p] \in TxPcs
Busy(p) == pc[p] \in TxPcs \cup PoolPcs

FreeConn == Cardinality({p \in Requests : InTx(p)}) < MaxConns

(* The row lock of lockAccount (SELECT ... FOR UPDATE), kept until the        *)
(* transaction ends.  Topup takes none.                                       *)
Locked(p) ==
    /\ req[p].op # "topup"
    /\ \/ pc[p] \in {"balance", "post", "commit"}
       \/ pc[p] \in {"get", "insert"} /\ k[p] > 1

(* The FOR KEY SHARE lock the foreign key of a posting takes on its account.  *)
Shares(p, a) ==
    \/ pc[p] = "post" /\ \E i \in 1 .. k[p] - 1 : PostOrder(p)[i] = a
    \/ pc[p] = "commit" /\ \E i \in 1 .. Len(PostOrder(p)) : PostOrder(p)[i] = a

(* Mutant: a refused or failed fare is not rolled back.                       *)
KeyHeldForever(p) ==
    req[p].op = "fare" /\ pc[p] \in KeyHeldPcs \cup {"insufficient", "failed"}

(* An uncommitted row of ledger_transactions with an idempotency key.         *)
KeyHeld(p) == req[p].op = "fare" /\ pc[p] \in KeyHeldPcs

Settled == {req[p].key : p \in {q \in committed : req[q].op = "fare"}}

(* What p's next statement waits for in the database.                         *)
WaitsForKey(p) ==
    pc[p] = "key" /\ \E q \in Requests \ {p} : KeyHeld(q) /\ req[q].key = req[p].key
WaitsForInsert(p) ==
    pc[p] = "insert" /\ \E q \in Requests \ {p} : Lookups(p)[k[p]] \in mine[q]
WaitsForRow(p) ==
    pc[p] = "lock" /\ \E q \in Requests \ {p} :
                          \/ Locked(q) /\ Source(q) = Source(p)
                          \/ Shares(q, Source(p))
WaitsForShare(p) ==
    pc[p] = "post" /\ \E q \in Requests \ {p} :
                          Locked(q) /\ Source(q) = PostOrder(p)[k[p]]

Waits(p) ==
    WaitsForKey(p) \/ WaitsForInsert(p) \/ WaitsForRow(p) \/ WaitsForShare(p)

-----------------------------------------------------------------------------
Init ==
    /\ pc = [p \in Requests |-> "idle"]
    /\ req \in [Requests -> Calls]
    /\ k = [p \in Requests |-> 1]
    /\ mine = [p \in Requests |-> {}]
    /\ posted = [p \in Requests |-> 0]
    /\ accounts = OpenAccounts
    /\ bal = Opening
    /\ committed = {}

Goto(p, label) == pc' = [pc EXCEPT ![p] = label]

(* The end of a transaction that leaves nothing behind: its Rollback.         *)
Rollback(p, answer) ==
    /\ Goto(p, answer)
    /\ mine' = [mine EXCEPT ![p] = {}]
    /\ UNCHANGED <<req, k, posted, accounts, bal, committed>>

(* A call of the API reaches its handler.                                     *)
Start(p) ==
    /\ pc[p] = "idle"
    /\ Goto(p, IF req[p].op = "allocate" THEN "open" ELSE "begin")
    /\ UNCHANGED <<req, k, mine, posted, accounts, bal, committed>>

(* Allocate, before its transaction: the revenue account is got or created    *)
(* by the pool, where losing the race to create it is recovered from ...      *)
AllocateOpen(p) ==
    /\ pc[p] = "open"
    /\ FreeConn
    /\ \A q \in Requests : Revenue(req[p].user) \notin mine[q]
    /\ accounts' = accounts \cup {Revenue(req[p].user)}
    /\ Goto(p, "read")
    /\ UNCHANGED <<req, k, mine, posted, bal, committed>>

(* ... and its balance is read there, which fixes the amount to withhold.     *)
AllocateRead(p) ==
    LET amount == (bal[Revenue(req[p].user)] * WithholdPct) \div 100
    IN  /\ pc[p] = "read"
        /\ FreeConn
        /\ req' = [req EXCEPT ![p] = AllocateReq(@.user, amount)]
        /\ Goto(p, IF amount <= 0 THEN "nothing" ELSE "begin")
        /\ UNCHANGED <<k, mine, posted, accounts, bal, committed>>

Begin(p) ==
    /\ pc[p] = "begin"
    /\ FreeConn
    /\ Goto(p, IF req[p].op = "fare" THEN "assignment" ELSE "get")
    /\ UNCHANGED <<req, k, mine, posted, accounts, bal, committed>>

(* Mutant: a vehicle with no active assignment is charged for.               *)
ResolveAssignmentOuter(p) ==
    /\ pc[p] = "assignment"
    /\ Goto(p, "key")
    /\ UNCHANGED <<req, k, mine, posted, accounts, bal, committed>>

(* ChargeFare: the vehicle's owner and driver, from its active assignment.    *)
ResolveAssignment(p) ==
    /\ pc[p] = "assignment"
    /\ Goto(p, IF VehicleDriver[req[p].vehicle] = NoDriver THEN "no_driver" ELSE "key")
    /\ UNCHANGED <<req, k, mine, posted, accounts, bal, committed>>

(* Mutant: the key is looked up and then inserted, with no unique index.      *)
TryInsertKeyUnguarded(p) ==
    /\ pc[p] = "key"
    /\ Goto(p, IF req[p].key \in Settled THEN "replay" ELSE "get")
    /\ UNCHANGED <<req, k, mine, posted, accounts, bal, committed>>

(* Mutant: an uncommitted row counts as a conflict at once.                   *)
TryInsertKeyEager(p) ==
    /\ pc[p] = "key"
    /\ Goto(p, IF req[p].key \in Settled \/ WaitsForKey(p) THEN "replay" ELSE "get")
    /\ UNCHANGED <<req, k, mine, posted, accounts, bal, committed>>

(* tryInsertTransaction: INSERT ... ON CONFLICT DO NOTHING waits for an       *)
(* uncommitted row with the same key to commit or roll back.                  *)
TryInsertKey(p) ==
    /\ pc[p] = "key"
    /\ ~ WaitsForKey(p)
    /\ Goto(p, IF req[p].key \in Settled THEN "replay" ELSE "get")
    /\ UNCHANGED <<req, k, mine, posted, accounts, bal, committed>>

(* The original transaction is fetched through the pool, on a second          *)
(* connection: the request's own transaction is still open.                   *)
Replay(p) ==
    /\ pc[p] = "replay"
    /\ FreeConn
    /\ Rollback(p, IF req[p].key \in Settled THEN "replayed" ELSE "failed")

(* Where a request goes once it has the k-th account it needs.                *)
AfterLookup(p) ==
    IF k[p] = 1 /\ req[p].op # "topup"
    THEN Goto(p, "lock") /\ UNCHANGED k
    ELSE IF k[p] < Len(Lookups(p))
    THEN Goto(p, "get") /\ k' = [k EXCEPT ![p] = @ + 1]
    ELSE Goto(p, "post") /\ k' = [k EXCEPT ![p] = 1]

(* GetOrCreateAccount, its SELECT ...                                         *)
GetAccount(p) ==
    /\ pc[p] = "get"
    /\ IF Lookups(p)[k[p]] \in accounts \cup mine[p]
       THEN AfterLookup(p)
       ELSE Goto(p, "insert") /\ UNCHANGED k
    /\ UNCHANGED <<req, mine, posted, accounts, bal, committed>>

(* ... and its INSERT, which waits for an uncommitted row of the same account *)
(* and then, if that row was committed, fails with a unique violation.  The   *)
(* violation aborts the transaction, so the SELECT that is to recover from it *)
(* fails too.                                                                 *)
InsertAccount(p) ==
    /\ pc[p] = "insert"
    /\ ~ WaitsForInsert(p)
    /\ IF Lookups(p)[k[p]] \in accounts
       THEN Rollback(p, "aborted")
       ELSE /\ mine' = [mine EXCEPT ![p] = @ \cup {Lookups(p)[k[p]]}]
            /\ AfterLookup(p)
            /\ UNCHANGED <<req, posted, accounts, bal, committed>>

(* Mutant: the row is read without FOR UPDATE.                                *)
LockAccountNoWait(p) ==
    /\ pc[p] = "lock"
    /\ Goto(p, "balance")
    /\ UNCHANGED <<req, k, mine, posted, accounts, bal, committed>>

LockAccount(p) ==
    /\ pc[p] = "lock"
    /\ ~ WaitsForRow(p)
    /\ Goto(p, "balance")
    /\ UNCHANGED <<req, k, mine, posted, accounts, bal, committed>>

(* Mutant: the balance is not compared with the amount.                       *)
CheckBalanceSkipped(p) ==
    /\ pc[p] = "balance"
    /\ Goto(p, "get")
    /\ k' = [k EXCEPT ![p] = 2]
    /\ UNCHANGED <<req, mine, posted, accounts, bal, committed>>

CheckBalance(p) ==
    /\ pc[p] = "balance"
    /\ IF bal[Source(p)] < req[p].amount
       THEN Rollback(p, "insufficient")
       ELSE /\ Goto(p, "get")
            /\ k' = [k EXCEPT ![p] = 2]
            /\ UNCHANGED <<req, mine, posted, accounts, bal, committed>>

InsertPosting(p) ==
    /\ pc[p] = "post"
    /\ ~ WaitsForShare(p)
    /\ posted' = [posted EXCEPT ![p] = @ + Entry(p, PostOrder(p)[k[p]])]
    /\ IF k[p] < Len(PostOrder(p))
       THEN k' = [k EXCEPT ![p] = @ + 1] /\ UNCHANGED pc
       ELSE Goto(p, "commit") /\ UNCHANGED k
    /\ UNCHANGED <<req, mine, accounts, bal, committed>>

(* COMMIT: the deferred trigger refuses postings that do not sum to zero;     *)
(* otherwise rows and postings become visible at once.                        *)
Apply(p) ==
    /\ posted[p] = 0
    /\ accounts' = accounts \cup mine[p]
    /\ mine' = [mine EXCEPT ![p] = {}]
    /\ bal' = [a \in Accounts |-> bal[a] + Entry(p, a)]
    /\ committed' = committed \cup {p}
    /\ UNCHANGED <<req, k, posted>>

Commit(p) ==
    /\ pc[p] = "commit"
    /\ \/ Apply(p) /\ Goto(p, IF req[p].op = "topup" THEN "report" ELSE "created")
       \/ posted[p] # 0 /\ Rollback(p, "failed")

(* Topup reads the new balance after its COMMIT, through the pool.            *)
Report(p) ==
    /\ pc[p] = "report"
    /\ FreeConn
    /\ Goto(p, "created")
    /\ UNCHANGED <<req, k, mine, posted, accounts, bal, committed>>

-----------------------------------------------------------------------------
(* The client goes away, a statement fails or the server dies: the deferred   *)
(* Rollback, or the database itself, undoes what was not committed.           *)
Cancel(p) ==
    /\ Busy(p)
    /\ Rollback(p, "failed")

(* The COMMIT took effect and its answer was lost.                            *)
CommitLost(p) ==
    /\ pc[p] = "commit"
    /\ Apply(p)
    /\ Goto(p, "failed")

(* GetOrCreateAccount on the pool, one autocommitted row: EnsureSystemAccounts *)
(* at startup, and the balance and transaction handlers of wallet and fuel.   *)
OpenAccount(a) ==
    /\ a \notin accounts
    /\ \A q \in Requests : a \notin mine[q]
    /\ accounts' = accounts \cup {a}
    /\ UNCHANGED <<pc, req, k, mine, posted, bal, committed>>

ServerStep(p) ==
    \/ AllocateOpen(p)
    \/ AllocateRead(p)
    \/ Begin(p)
    \/ ResolveAssignment(p)
    \/ TryInsertKey(p)
    \/ Replay(p)
    \/ GetAccount(p)
    \/ InsertAccount(p)
    \/ LockAccount(p)
    \/ CheckBalance(p)
    \/ InsertPosting(p)
    \/ Commit(p)
    \/ Report(p)

(* Every call has been answered.                                              *)
Quiesced ==
    /\ \A p \in Requests : pc[p] \in Answers
    /\ UNCHANGED vars

Next ==
    \/ \E p \in Requests :
           Start(p) \/ ServerStep(p) \/ Cancel(p) \/ CommitLost(p)
    \/ \E a \in Accounts : OpenAccount(a)
    \/ Quiesced

Spec == Init /\ [][Next]_vars

(* The server keeps running the statements of a request it has accepted.  No  *)
(* fairness for the callers, for failures or for unrelated handlers.          *)
FairSpec == Spec /\ \A p \in Requests : WF_vars(ServerStep(p))

-----------------------------------------------------------------------------
(* Every variable has its type: in particular the rows a request creates are  *)
(* accounts of the chart, whatever the state of the vehicle's assignment.     *)
TypeOK ==
    /\ pc \in [Requests -> Answers \cup TxPcs \cup PoolPcs \cup {"idle"}]
    /\ req \in [Requests -> Request]
    /\ k \in [Requests -> 1 .. 4]
    /\ mine \in [Requests -> SUBSET Accounts]
    /\ posted \in [Requests -> Int]
    /\ accounts \in SUBSET Accounts
    /\ bal \in [Accounts -> Int]
    /\ committed \in SUBSET Requests

(* No account but funding_source is ever overdrawn, whatever charges and      *)
(* withholdings run concurrently against it: lockAccount serializes the       *)
(* balance check with the commit of the debit it allows.                      *)
NoOverdraft ==
    \A a \in Accounts \ {Funding} : bal[a] >= 0

(* At most one fare is ever charged for one idempotency key, however often a  *)
(* scan is retried and whatever became of the earlier attempts.               *)
ChargedOncePerKey ==
    \A p, q \in committed :
        (p # q /\ req[p].op = "fare" /\ req[q].op = "fare") => req[p].key # req[q].key

(* The deferred trigger on ledger_postings never has to refuse a COMMIT:      *)
(* rounding in splitFare loses and invents no cent.                           *)
BalancedAtCommit ==
    \A p \in Requests : pc[p] = "commit" => posted[p] = 0

(* A fare that is told its key was used finds the original: ON CONFLICT       *)
(* waited, so the row it saw is committed and was not rolled back since.      *)
ReplayFindsOriginal ==
    \A p \in Requests : pc[p] = "replay" => req[p].key \in Settled

(* The transactions never wait for each other in a circle: whenever some are  *)
(* open, one of them is not waiting for a lock, a row or a key of another.    *)
NoLockCycle ==
    (\E p \in Requests : InTx(p)) => \E p \in Requests : InTx(p) /\ ~ Waits(p)

(* A balance that was checked stays sufficient until the transaction that     *)
(* checked it has ended: no other request spends the money in between.        *)
CheckedStaysFunded ==
    \A p \in Requests :
        Locked(p) /\ pc[p] # "balance" => bal[Source(p)] >= req[p].amount

(* Money withheld for fuel never leaves fuel_account (fuel/repo.go,           *)
(* anti-bypass).                                                              *)
OneWayMoney ==
    [][\A o \in Owners : bal'[Fuel(o)] >= bal[Fuel(o)]]_vars

(* The wallet implements the atomic ledger.                                   *)
Abstract == INSTANCE Ledger WITH settled <- Settled
ImplementsLedger == Abstract!Spec

(* Every call that reaches the server is answered.                            *)
EveryRequestAnswered ==
    \A p \in Requests : Busy(p) ~> pc[p] \in Answers
=============================================================================
