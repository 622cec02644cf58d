-------------------------- MODULE StopRequestsProofs --------------------------
(* Proofs, for any number of drivers, connections, requests and acks, that    *)
(* requests to stop keep their types, that what a commuter is told agrees     *)
(* with who was alerted, and that an acknowledgement is final.                *)
EXTENDS StopRequests, Inductions, TLAPS

(* The route of stops that the fold makes: what its recursive function does   *)
(* at a set of legs.                                                          *)
Walk(g, T, legs) ==
    IF T = {} THEN <<legs[1][1]>>
    ELSE LET x == Max(T)
         IN  IF Contains(g[T \ {x}], legs[x][2]) THEN g[T \ {x}]
             ELSE Append(g[T \ {x}], legs[x][2])

(* g walks every set of legs.                                                 *)
IsWalk(g, D, legs) == g = [T \in SUBSET D |-> Walk(g, T, legs)]

(* loadRouteStops is the fold of all legs.                                    *)
LEMMA WalkOfLegs ==
    ASSUME NEW legs
    PROVE  loadRouteStops(legs) = (CHOOSE g : IsWalk(g, DOMAIN legs, legs))[DOMAIN legs]
BY Zenon DEF loadRouteStops, FoldLeft, MapThenFoldSet, Walk, IsWalk

(* The last of the first k is the k-th.                                       *)
LEMMA MaxOfFirst ==
    ASSUME NEW k \in Nat, NEW T, T \subseteq 1 .. k, k \in T
    PROVE  Max(T) = k
<1>1. k \in T /\ \A y \in T : k >= y
  OBVIOUS
<1>2. \A x \in T : (\A y \in T : x >= y) => x = k
  OBVIOUS
<1> QED
  BY <1>1, <1>2 DEF Max

(* There is such a function, ...                                              *)
LEMMA WalkExists ==
    ASSUME NEW legs, NEW n \in Nat
    PROVE  \E g : IsWalk(g, 1 .. n, legs)
<1> DEFINE P == {k \in Nat : \E g : IsWalk(g, 1 .. k, legs)}
<1>1. 0 \in P
  <2> DEFINE g == [T \in SUBSET (1 .. 0) |-> <<legs[1][1]>>]
  <2>1. IsWalk(g, 1 .. 0, legs)
    BY DEF IsWalk, Walk
  <2> QED
    BY <2>1
<1>2. ASSUME NEW k \in Nat, k \in P PROVE k + 1 \in P
  <2>1. PICK g : g = [T \in SUBSET (1 .. k) |-> Walk(g, T, legs)]
    BY <1>2 DEF IsWalk
  <2> DEFINE h == [T \in SUBSET (1 .. k + 1) |-> IF k + 1 \in T THEN Walk(g, T, legs) ELSE g[T]]
  <2>2. ASSUME NEW T \in SUBSET (1 .. k + 1) PROVE h[T] = Walk(h, T, legs)
    <3>1. \A R \in SUBSET (1 .. k) : R \in SUBSET (1 .. k + 1) /\ k + 1 \notin R /\ h[R] = g[R]
      OBVIOUS
    <3>2. CASE k + 1 \in T
      <4>1. Max(T) = k + 1
        <5>1. k + 1 \in Nat /\ T \subseteq 1 .. (k + 1)
          OBVIOUS
        <5> QED
          BY <3>2, <5>1, MaxOfFirst
      <4>2. T \ {k + 1} \in SUBSET (1 .. k)
        BY <3>2
      <4>3. h[T \ {k + 1}] = g[T \ {k + 1}]
        BY <3>1, <4>2
      <4>4. h[T] = Walk(g, T, legs)
        BY <3>2
      <4> HIDE DEF h
      <4> QED
        BY <4>1, <4>3, <4>4 DEF Walk
    <3>3. CASE k + 1 \notin T
      <4>1. T \in SUBSET (1 .. k) /\ \A x : T \ {x} \in SUBSET (1 .. k)
        <5>1. \A i \in T : i \in 1 .. (k + 1) /\ i # k + 1
          BY <3>3
        <5>2. \A i \in T : i \in 1 .. k
          BY <5>1
        <5> QED
          BY <5>2
      <4>2. h[T] = g[T] /\ \A x : h[T \ {x}] = g[T \ {x}]
        BY <3>1, <4>1
      <4>3. g[T] = Walk(g, T, legs)
        BY <2>1, <4>1
      <4> HIDE DEF h
      <4> QED
        BY <4>2, <4>3 DEF Walk
    <3> QED
      BY <3>2, <3>3
  <2>3. IsWalk(h, 1 .. k + 1, legs)
    BY <2>2 DEF IsWalk
  <2>4. \E f : IsWalk(f, 1 .. k + 1, legs)
    <3> HIDE DEF h
    <3> QED
      BY <2>3
  <2> QED
    BY <2>4
<1>3. Nat \subseteq P
  <2> HIDE DEF P
  <2> QED
    BY <1>1, <1>2, NatSetInduction
<1> QED
  BY <1>3

(* ... so a route walks each of its stops once.                               *)
Distinct(ids) == \A i, j \in DOMAIN ids : ids[i] = ids[j] => i = j

(* The stops of a route: at least one, and each once.                         *)
LEMMA RouteStops ==
    ASSUME NEW legs \in Seq(Stops \X Stops), legs # <<>>
    PROVE  /\ loadRouteStops(legs) \in Seq(Stops)
           /\ loadRouteStops(legs) # <<>>
           /\ Distinct(loadRouteStops(legs))
<1> DEFINE n == Len(legs)
           Good(ids) == ids \in Seq(Stops) /\ ids # <<>> /\ Distinct(ids)
<1>1. n \in Nat /\ n > 0 /\ DOMAIN legs = 1 .. n /\ \A i \in 1 .. n : legs[i] \in Stops \X Stops
  OBVIOUS
<1>2. PICK g : /\ g = [T \in SUBSET (1 .. n) |-> Walk(g, T, legs)]
               /\ loadRouteStops(legs) = g[1 .. n]
  <2> DEFINE f == CHOOSE f : IsWalk(f, 1 .. n, legs)
  <2>1. IsWalk(f, 1 .. n, legs)
    BY <1>1, WalkExists
  <2>2. loadRouteStops(legs) = f[1 .. n]
    BY <1>1, WalkOfLegs
  <2> QED
    BY <2>1, <2>2 DEF IsWalk
<1> DEFINE P == {k \in Nat : k <= n => Good(g[1 .. k])}
<1>3. 0 \in P
  <2>1. 1 .. 0 = {} /\ {} \in SUBSET (1 .. n)
    OBVIOUS
  <2>2. g[1 .. 0] = <<legs[1][1]>>
    BY <1>2, <2>1 DEF Walk
  <2>3. legs[1][1] \in Stops
    BY <1>1
  <2>4. Good(<<legs[1][1]>>)
    BY <2>3 DEF Distinct
  <2> QED
    BY <2>2, <2>4
<1>4. ASSUME NEW k \in Nat, k \in P PROVE k + 1 \in P
  <2> SUFFICES ASSUME k + 1 <= n PROVE Good(g[1 .. k + 1])
    OBVIOUS
  <2> DEFINE ids == g[1 .. k]
             s == legs[k + 1][2]
  <2>1. k <= n /\ Good(ids) /\ s \in Stops
    BY <1>1, <1>4
  <2>2. g[1 .. k + 1] = IF Contains(ids, s) THEN ids ELSE Append(ids, s)
    <3>1. 1 .. k + 1 \in SUBSET (1 .. n) /\ 1 .. k + 1 # {} /\ k + 1 \in 1 .. k + 1
      <4>1. \A i \in 1 .. (k + 1) : i \in 1 .. n
        BY <1>1
      <4>2. k + 1 \in 1 .. (k + 1)
        OBVIOUS
      <4> QED
        BY <4>1, <4>2
    <3>2. Max(1 .. k + 1) = k + 1
      <4>1. k + 1 \in Nat /\ 1 .. (k + 1) \subseteq 1 .. (k + 1)
        OBVIOUS
      <4> QED
        BY <3>1, <4>1, MaxOfFirst
    <3>3. (1 .. k + 1) \ {k + 1} = 1 .. k
      OBVIOUS
    <3>4. g[1 .. k + 1] = Walk(g, 1 .. k + 1, legs)
      BY <1>2, <3>1
    <3> QED
      BY <3>1, <3>2, <3>3, <3>4 DEF Walk
  <2>3. ASSUME ~ Contains(ids, s) PROVE Good(Append(ids, s))
    <3> HIDE DEF ids, s
    <3> DEFINE m == Len(ids)
               more == Append(ids, s)
    <3>1. /\ m \in Nat /\ DOMAIN ids = 1 .. m /\ DOMAIN more = 1 .. (m + 1)
          /\ more \in Seq(Stops) /\ more # <<>>
          /\ \A i \in 1 .. m : more[i] = ids[i]
          /\ more[m + 1] = s
      BY <2>1
    <3>2. \A i \in 1 .. m : ids[i] # s
      BY <2>3 DEF Contains
    <3> HIDE DEF m, more
    <3>3. \A i \in 1 .. (m + 1) : i \in 1 .. m \/ i = m + 1
      BY <3>1
    <3>4. Distinct(more)
      BY <2>1, <3>1, <3>2, <3>3 DEF Distinct
    <3> QED
      BY <3>1, <3>4 DEF more
  <2> HIDE DEF ids, s, Good
  <2> QED
    BY <2>1, <2>2, <2>3
<1>5. Nat \subseteq P
  <2> HIDE DEF P
  <2> QED
    BY <1>3, <1>4, NatSetInduction
<1>6. Good(g[1 .. n])
  BY <1>1, <1>5
<1> QED
  BY <1>2, <1>6

(* Distances can be compared, and some stop is the first of the nearest.      *)
LEMMA Distance ==
    ASSUME NEW x \in Int, NEW y \in Int PROVE haversine(x, y) \in Nat
BY DEF haversine

(* nearestStopIndex finds a stop, and none is nearer.                         *)
LEMMA NearestStop ==
    ASSUME NEW ids \in Seq(Stops), ids # <<>>, \A i \in DOMAIN ids : At[ids[i]] \in Int,
           NEW x \in Int
    PROVE  /\ nearestStopIndex(ids, x) \in DOMAIN ids
           /\ \A j \in DOMAIN ids :
                  haversine(x, At[ids[nearestStopIndex(ids, x)]]) <= haversine(x, At[ids[j]])
           /\ \A j \in 1 .. nearestStopIndex(ids, x) - 1 :
                  haversine(x, At[ids[nearestStopIndex(ids, x)]]) < haversine(x, At[ids[j]])
<1> DEFINE n == Len(ids)
           far == [i \in DOMAIN ids |-> haversine(x, At[ids[i]])]
           Nearest == {i \in DOMAIN ids : \A j \in DOMAIN ids : far[i] <= far[j]}
<1>1. n \in Nat /\ n > 0 /\ DOMAIN ids = 1 .. n
  OBVIOUS
<1>2. \A i \in DOMAIN ids : far[i] \in Nat
  BY Distance
<1>3. Nearest # {}
  <2> DEFINE S == {far[i] : i \in DOMAIN ids}
  <2>1. S \subseteq Nat /\ S # {}
    BY <1>1, <1>2
  <2>2. PICK m \in S : \A k \in S : m <= k
    <3> HIDE DEF S
    <3> QED
      BY <2>1, LeastNat
  <2>3. PICK i \in DOMAIN ids : m = far[i]
    BY <2>2
  <2> QED
    BY <2>2, <2>3
<1>4. PICK i \in Nearest : \A k \in Nearest : i <= k
  <2>1. Nearest \subseteq Nat
    BY <1>1
  <2> HIDE DEF Nearest
  <2> QED
    BY <1>3, <2>1, LeastNat
<1>5. /\ i \in DOMAIN ids /\ \A j \in DOMAIN ids : far[i] <= far[j]
      /\ \A j \in 1 .. i - 1 : far[i] < far[j]
  <2>1. i \in 1 .. n /\ \A j \in 1 .. n : far[i] <= far[j]
    BY <1>1, <1>4
  <2>2. ASSUME NEW j \in 1 .. i - 1 PROVE far[i] < far[j]
    <3>1. j \in 1 .. n /\ ~ (i <= j)
      BY <1>1, <2>1, <2>2
    <3>2. PICK k \in 1 .. n : ~ (far[j] <= far[k])
      BY <1>1, <1>4, <3>1
    <3>3. far[i] <= far[k] /\ far[i] \in Nat /\ far[j] \in Nat /\ far[k] \in Nat
      BY <1>1, <1>2, <2>1, <3>1, <3>2
    <3> QED
      BY <3>2, <3>3
  <2> QED
    BY <1>1, <2>1, <2>2
<1>6. /\ i \in DOMAIN ids
      /\ \A j \in DOMAIN ids : haversine(x, At[ids[i]]) <= haversine(x, At[ids[j]])
      /\ \A j \in 1 .. i - 1 : haversine(x, At[ids[i]]) < haversine(x, At[ids[j]])
  <2>1. \A j \in 1 .. i - 1 : j \in DOMAIN ids
    BY <1>1, <1>5
  <2> QED
    BY <1>5, <2>1
<1> HIDE DEF far, Nearest, n
<1> QED
  BY <1>6 DEF nearestStopIndex

-----------------------------------------------------------------------------
(* What is known of a request at each place of RequestStop.                   *)
RequestFits(q) ==
    /\ request[q] \notin {"idle", "refused"} => Servable(q)
    /\ request[q] # "answered" => requests[q] = NULL
    /\ request[q] \in {"idle", "refused", "match"} => matched[q] = NULL
    /\ request[q] = "send" => matched[q] \in Drivers
    /\ request[q] \in {"idle", "refused", "match", "send"} => alerted[q] = {}
    /\ request[q] = "put" => alerted[q] = IF matched[q] = NULL THEN {} ELSE {matched[q]}
    /\ request[q] = "answered" =>
           /\ requests[q] # NULL
           /\ requests[q].driver = NULL <=> requests[q].status = "unmatched"
           /\ alerted[q] = IF requests[q].driver = NULL THEN {} ELSE {requests[q].driver}

(* An ack that is about to be applied is the request's driver's.              *)
AckFits(a) ==
    /\ ack[a].at # "idle" => ack[a].driver \in Drivers /\ ack[a].request \in Requests
    /\ ack[a].at = "acknowledge" =>
           requests[ack[a].request] # NULL /\ requests[ack[a].request].driver = ack[a].driver

(* The inductive invariant.                                                   *)
StopInv ==
    /\ TypeOK
    /\ \A q \in Requests : RequestFits(q)
    /\ \A a \in Acks : AckFits(a)

(* The start satisfies the invariant.                                         *)
LEMMA StopInit == Init => StopInv
<1> SUFFICES ASSUME Init PROVE StopInv
  OBVIOUS
<1> USE StopsAssumption DEF Init
<1>1. TypeOK
  <2>1. /\ <<>> \in Seq(Positions \cup {NULL}) /\ <<>> \in Seq(Requests) /\ Len(<<>>) = 0
        /\ 0 \in 0 .. MaxMessages
    OBVIOUS
  <2> QED
    BY <2>1 DEF TypeOK
<1>2. \A q \in Requests : RequestFits(q)
  BY DEF RequestFits
<1>3. \A a \in Acks : AckFits(a)
  BY DEF AckFits
<1> QED
  BY <1>1, <1>2, <1>3 DEF StopInv

-----------------------------------------------------------------------------
(* A step of a session leaves requests and acks as they are.                  *)
LEMMA SessionStep ==
    ASSUME StopInv, TypeOK', UNCHANGED <<callVars, requests, ack>> PROVE StopInv'
<1>1. \A q \in Requests : RequestFits(q)'
  BY DEF StopInv, RequestFits, callVars
<1>2. \A a \in Acks : AckFits(a)'
  BY DEF StopInv, AckFits
<1> QED
  BY <1>1, <1>2 DEF StopInv

(* The start of a connection, ...                                             *)
LEMMA GoOnlineStep ==
    ASSUME StopInv, NEW s \in Sessions, NEW r \in Routes, GoOnline(s, r) PROVE StopInv'
<1> DEFINE d == DriverOf[s]
<1>1. TypeOK /\ d \in Drivers
  BY StopsAssumption DEF StopInv
<1>2. (IF online[d] = NULL THEN Zero ELSE online[d].at) \in Positions \cup {Zero}
  BY <1>1 DEF TypeOK, VehicleState
<1>3. online' \in [Drivers -> VehicleState \cup {NULL}]
  BY <1>1, <1>2 DEF TypeOK, GoOnline, VehicleState
<1>4. TypeOK'
  BY <1>1, <1>3 DEF TypeOK, GoOnline, callVars
<1> QED
  BY <1>4, SessionStep DEF GoOnline

(* ... its messages, ...                                                      *)
LEMMA ReadStep ==
    ASSUME StopInv, NEW s \in Sessions, NEW msg \in Positions \cup {NULL}, Read(s, msg)
    PROVE  StopInv'
<1>1. TypeOK
  BY DEF StopInv
<1>2. sent' \in [Sessions -> 0 .. MaxMessages]
  BY <1>1, StopsAssumption DEF TypeOK, Read
<1>3. TypeOK'
  BY <1>1, <1>2 DEF TypeOK, Read, callVars
<1> QED
  BY <1>3, SessionStep DEF Read

(* The reader hands a message to the session.                                 *)
LEMMA PushStep ==
    ASSUME StopInv, NEW s \in Sessions, Push(s) PROVE StopInv'
<1>1. TypeOK
  BY DEF StopInv
<1>2. <<held[s]>> \in Seq(Positions \cup {NULL}) /\ Len(<<held[s]>>) = 1
  BY <1>1 DEF TypeOK
<1>3. TypeOK'
  BY <1>1, <1>2 DEF TypeOK, Push, callVars
<1> QED
  BY <1>3, SessionStep DEF Push

(* The session applies a message to the vehicle store.                        *)
LEMMA HandleMessageStep ==
    ASSUME StopInv, NEW s \in Sessions, HandleMessage(s) PROVE StopInv'
<1> DEFINE d == DriverOf[s]
           msg == Head(incoming[s])
<1>1. TypeOK /\ d \in Drivers /\ incoming[s] # <<>>
  BY StopsAssumption DEF StopInv, HandleMessage
<1>2. msg \in Positions \cup {NULL}
  BY <1>1 DEF TypeOK
<1>3. online' \in [Drivers -> VehicleState \cup {NULL}]
  <2>1. CASE msg # NULL /\ online[d] # NULL
    <3>1. [online[d] EXCEPT !.at = msg] \in VehicleState
      <4>1. online[d] \in VehicleState /\ msg \in Positions
        BY <1>1, <1>2, <2>1 DEF TypeOK
      <4> HIDE DEF msg
      <4> QED
        BY <4>1 DEF VehicleState
    <3>2. online' = [online EXCEPT ![d] = [online[d] EXCEPT !.at = msg]]
      BY <2>1 DEF HandleMessage
    <3> QED
      BY <1>1, <3>1, <3>2 DEF TypeOK
  <2>2. CASE ~ (msg # NULL /\ online[d] # NULL)
    BY <1>1, <2>2 DEF TypeOK, HandleMessage
  <2> QED
    BY <2>1, <2>2
<1>4. <<>> \in Seq(Positions \cup {NULL}) /\ Len(<<>>) <= 1
  OBVIOUS
<1>5. TypeOK'
  BY <1>1, <1>3, <1>4 DEF TypeOK, HandleMessage, callVars
<1> QED
  BY <1>5, SessionStep DEF HandleMessage

(* ... its alerts, ...                                                        *)
LEMMA TakeAlertStep ==
    ASSUME StopInv, NEW s \in Sessions, TakeAlert(s) PROVE StopInv'
<1>1. TypeOK /\ mailbox[s] \in Seq(Requests) /\ mailbox[s] # <<>>
  BY DEF StopInv, TypeOK, TakeAlert
<1>2. /\ Tail(mailbox[s]) \in Seq(Requests) /\ Len(mailbox[s]) \in Nat
      /\ Len(Tail(mailbox[s])) = Len(mailbox[s]) - 1
  BY <1>1
<1>3. Len(Tail(mailbox[s])) <= alertBuffer
  BY <1>1, <1>2, StopsAssumption DEF TypeOK
<1>4. mailbox' = [mailbox EXCEPT ![s] = Tail(mailbox[s])]
  BY DEF TakeAlert
<1>5. /\ mailbox' \in [Sessions -> Seq(Requests)]
      /\ \A x \in Sessions : Len(mailbox'[x]) <= alertBuffer
  BY <1>1, <1>2, <1>3, <1>4 DEF TypeOK
<1>6. TypeOK'
  BY <1>1, <1>5 DEF TypeOK, TakeAlert, callVars
<1> QED
  BY <1>6, SessionStep DEF TakeAlert

(* ... and its end.                                                           *)
LEMMA ServeStep ==
    ASSUME StopInv, NEW s \in Sessions,
           \/ Subscribe(s) \/ ReadFails(s) \/ WriteAlert(s) \/ ReaderGone(s)
           \/ Unsubscribe(s) \/ GoOffline(s) \/ Break(s)
    PROVE  StopInv'
<1>1. TypeOK /\ DriverOf[s] \in Drivers
  BY StopsAssumption DEF StopInv
<1>2. <<>> \in Seq(Requests) /\ Len(<<>>) = 0
  OBVIOUS
<1>3. CASE Subscribe(s)
  <2>1. TypeOK'
    BY <1>1, <1>3 DEF TypeOK, Subscribe, callVars
  <2> QED
    BY <1>3, <2>1, SessionStep DEF Subscribe
<1>4. CASE ReadFails(s)
  <2>1. TypeOK'
    BY <1>1, <1>4 DEF TypeOK, ReadFails, callVars
  <2> QED
    BY <1>4, <2>1, SessionStep DEF ReadFails
<1>5. CASE WriteAlert(s)
  <2>1. TypeOK'
    BY <1>1, <1>5 DEF TypeOK, WriteAlert, callVars
  <2> QED
    BY <1>5, <2>1, SessionStep DEF WriteAlert
<1>6. CASE ReaderGone(s)
  <2>1. TypeOK'
    BY <1>1, <1>6 DEF TypeOK, ReaderGone, callVars
  <2> QED
    BY <1>6, <2>1, SessionStep DEF ReaderGone
<1>7. CASE Unsubscribe(s)
  <2>1. /\ mailbox' \in [Sessions -> Seq(Requests)]
        /\ \A x \in Sessions : Len(mailbox'[x]) <= alertBuffer
    BY <1>1, <1>2, <1>7, StopsAssumption DEF TypeOK, Unsubscribe
  <2>2. TypeOK'
    BY <1>1, <1>7, <2>1 DEF TypeOK, Unsubscribe, callVars
  <2> QED
    BY <1>7, <2>2, SessionStep DEF Unsubscribe
<1>8. CASE GoOffline(s)
  <2>1. TypeOK'
    BY <1>1, <1>8 DEF TypeOK, GoOffline, callVars
  <2> QED
    BY <1>8, <2>1, SessionStep DEF GoOffline
<1>9. CASE Break(s)
  <2>1. TypeOK'
    BY <1>1, <1>9 DEF TypeOK, Break, callVars
  <2> QED
    BY <1>9, <2>1, SessionStep DEF Break
<1> QED
  BY <1>3, <1>4, <1>5, <1>6, <1>7, <1>8, <1>9

-----------------------------------------------------------------------------
(* A request moves on; the others, and the acks, are as they were.            *)
LEMMA RequestStep ==
    ASSUME StopInv, TypeOK', NEW q \in Requests, RequestFits(q)',
           \A p \in Requests : p # q => /\ request'[p] = request[p] /\ matched'[p] = matched[p]
                                        /\ alerted'[p] = alerted[p] /\ requests'[p] = requests[p],
           requests[q] # NULL => requests'[q] = requests[q],
           UNCHANGED ack
    PROVE  StopInv'
<1>1. ASSUME NEW p \in Requests, p # q PROVE RequestFits(p)'
  BY <1>1 DEF StopInv, RequestFits
<1>2. ASSUME NEW a \in Acks PROVE AckFits(a)'
  <2>1. AckFits(a) /\ ack'[a] = ack[a]
    BY DEF StopInv
  <2>2. \A p \in Requests : requests[p] # NULL => requests'[p] = requests[p]
    OBVIOUS
  <2> QED
    BY <2>1, <2>2 DEF AckFits
<1> QED
  BY <1>1, <1>2 DEF StopInv

(* RequestStop accepts a request or refuses it.                               *)
LEMMA AcceptStep ==
    ASSUME StopInv, NEW q \in Requests, Accept(q) PROVE StopInv'
<1>1. /\ TypeOK /\ RequestFits(q) /\ request[q] = "idle"
      /\ UNCHANGED <<online, wsVars, mailbox, matched, alerted, requests, ack>>
  BY DEF StopInv, Accept
<1>2. PICK to \in {"match", "refused"} :
          request' = [request EXCEPT ![q] = to] /\ (to = "match" => Servable(q))
  BY DEF Accept
<1>3. TypeOK'
  BY <1>1, <1>2 DEF TypeOK, wsVars
<1>4. request'[q] = to /\ \A p \in Requests : p # q => request'[p] = request[p]
  BY <1>1, <1>2 DEF TypeOK
<1>5. RequestFits(q)'
  <2>1. UNCHANGED <<matched, alerted, requests>>
    BY <1>1
  <2> QED
    BY <1>1, <1>2, <1>4, <2>1 DEF RequestFits, Servable
<1> QED
  BY <1>1, <1>3, <1>4, <1>5, RequestStep

(* RequestStop chooses a driver.                                              *)
LEMMA MatchStep ==
    ASSUME StopInv, NEW q \in Requests, Match(q) PROVE StopInv'
<1> DEFINE found == FindApproachingDriver(OnRoute(RouteOf[q]),
                                          loadRouteStops(LegsOf[RouteOf[q]]), StopOf[q])
<1>1. /\ TypeOK /\ RequestFits(q) /\ request[q] = "match"
      /\ UNCHANGED <<online, wsVars, mailbox, alerted, requests, ack>>
  BY DEF StopInv, Match
<1>2. found \subseteq Drivers
  BY DEF FindApproachingDriver, OnRoute
<1>3. \/ request' = [request EXCEPT ![q] = "put"] /\ UNCHANGED matched
      \/ /\ request' = [request EXCEPT ![q] = "send"]
         /\ \E d \in found : matched' = [matched EXCEPT ![q] = d]
  BY DEF Match
<1> HIDE DEF found
<1>4. TypeOK'
  BY <1>1, <1>2, <1>3 DEF TypeOK, wsVars
<1>5. /\ \/ request'[q] = "put" /\ matched'[q] = NULL
         \/ request'[q] = "send" /\ matched'[q] \in Drivers
      /\ \A p \in Requests : p # q => request'[p] = request[p] /\ matched'[p] = matched[p]
  BY <1>1, <1>2, <1>3 DEF TypeOK, RequestFits
<1>6. RequestFits(q)'
  BY <1>1, <1>5, NullAssumption DEF RequestFits
<1> QED
  BY <1>1, <1>4, <1>5, <1>6, RequestStep

(* RequestStop alerts the driver's mailboxes that have room.                  *)
LEMMA SendStep ==
    ASSUME StopInv, NEW q \in Requests, Send(q) PROVE StopInv'
<1> DEFINE room == Room(q)
<1>1. /\ TypeOK /\ RequestFits(q) /\ request[q] = "send"
      /\ mailbox' = [s \in Sessions |-> IF s \in room THEN Append(mailbox[s], q) ELSE mailbox[s]]
      /\ alerted' = [alerted EXCEPT ![q] = {DriverOf[s] : s \in room}]
      /\ matched' = [matched EXCEPT ![q] = IF room # {} THEN matched[q] ELSE NULL]
      /\ request' = [request EXCEPT ![q] = "put"]
      /\ UNCHANGED <<online, wsVars, requests, ack>>
  BY DEF StopInv, Send, Delivered
<1>2. /\ room \subseteq Sessions /\ \A s \in room : DriverOf[s] = matched[q]
      /\ \A s \in room : Len(mailbox[s]) < alertBuffer
  BY DEF Room, MailboxesOf
<1> HIDE DEF room
<1>3. matched[q] \in Drivers /\ matched[q] # NULL
  BY <1>1, NullAssumption DEF RequestFits
<1>4. {DriverOf[s] : s \in room} = IF room # {} THEN {matched[q]} ELSE {}
  BY <1>2
<1>5. /\ mailbox' \in [Sessions -> Seq(Requests)]
      /\ \A s \in Sessions : Len(mailbox'[s]) <= alertBuffer
  <2>1. ASSUME NEW s \in Sessions
        PROVE  mailbox'[s] \in Seq(Requests) /\ Len(mailbox'[s]) <= alertBuffer
    <3>1. /\ mailbox[s] \in Seq(Requests) /\ Len(mailbox[s]) <= alertBuffer
          /\ mailbox'[s] = IF s \in room THEN Append(mailbox[s], q) ELSE mailbox[s]
      BY <1>1 DEF TypeOK
    <3>2. /\ Append(mailbox[s], q) \in Seq(Requests) /\ Len(mailbox[s]) \in Nat
          /\ Len(Append(mailbox[s], q)) = Len(mailbox[s]) + 1
      BY <3>1
    <3>3. s \in room => Len(Append(mailbox[s], q)) <= alertBuffer
      BY <1>2, <3>2, StopsAssumption
    <3> QED
      BY <3>1, <3>2, <3>3
  <2>2. mailbox' = [s \in Sessions |-> mailbox'[s]]
    BY <1>1
  <2> QED
    BY <2>1, <2>2
<1>6. TypeOK'
  BY <1>1, <1>3, <1>4, <1>5 DEF TypeOK, wsVars
<1>7. /\ request'[q] = "put" /\ alerted'[q] = {DriverOf[s] : s \in room}
      /\ matched'[q] = IF room # {} THEN matched[q] ELSE NULL
      /\ \A p \in Requests : p # q => /\ request'[p] = request[p] /\ matched'[p] = matched[p]
                                      /\ alerted'[p] = alerted[p]
  BY <1>1 DEF TypeOK
<1>8. RequestFits(q)'
  <2>1. /\ Servable(q) /\ requests[q] = NULL
        /\ requests' = requests
    BY <1>1 DEF RequestFits
  <2>2. alerted'[q] = IF matched'[q] = NULL THEN {} ELSE {matched'[q]}
    BY <1>3, <1>4, <1>7
  <2> QED
    BY <1>7, <2>1, <2>2 DEF RequestFits
<1> QED
  BY <1>1, <1>6, <1>7, <1>8, RequestStep

(* RequestStop stores the request.                                            *)
LEMMA PutStep ==
    ASSUME StopInv, NEW q \in Requests, Put(q) PROVE StopInv'
<1> DEFINE new == [status |-> IF matched[q] = NULL THEN "unmatched" ELSE "pending",
                   driver |-> matched[q]]
<1>1. /\ TypeOK /\ RequestFits(q) /\ request[q] = "put" /\ requests[q] = NULL
      /\ requests' = [requests EXCEPT ![q] = new]
      /\ request' = [request EXCEPT ![q] = "answered"]
      /\ UNCHANGED <<online, wsVars, mailbox, matched, alerted, ack>>
  BY DEF StopInv, RequestFits, Put
<1>2. /\ new \in Request /\ new.driver = matched[q]
      /\ new.driver = NULL <=> new.status = "unmatched"
  BY <1>1 DEF TypeOK, Request
<1>3. new # NULL
  BY <1>2, NullAssumption
<1> HIDE DEF new
<1>4. TypeOK'
  BY <1>1, <1>2 DEF TypeOK, wsVars
<1>5. /\ request'[q] = "answered" /\ requests'[q] = new
      /\ \A p \in Requests : p # q => request'[p] = request[p] /\ requests'[p] = requests[p]
  BY <1>1 DEF TypeOK
<1>6. RequestFits(q)'
  BY <1>1, <1>2, <1>3, <1>5 DEF RequestFits
<1> QED
  BY <1>1, <1>4, <1>5, <1>6, RequestStep

-----------------------------------------------------------------------------
(* An ack reads the request, ...                                              *)
LEMMA AckStep ==
    ASSUME StopInv, NEW a \in Acks,
           (\E d \in Drivers, q \in Requests : StartAck(a, d, q)) \/ GetRequest(a)
    PROVE  StopInv'
<1>1. TypeOK /\ AckFits(a) /\ ack[a] \in [at : {"idle", "get", "not_found", "forbidden", "acknowledge", "ok"},
                         driver : Drivers \cup {NULL}, request : Requests \cup {NULL}]
  BY DEF StopInv, TypeOK
<1>2. UNCHANGED <<online, wsVars, mailbox, callVars, requests>>
  BY DEF StartAck, GetRequest
<1>3. \A q \in Requests : RequestFits(q)'
  BY <1>2 DEF StopInv, RequestFits, callVars
<1>4. CASE \E d \in Drivers, q \in Requests : StartAck(a, d, q)
  <2>1. PICK d \in Drivers, q \in Requests :
            ack' = [ack EXCEPT ![a] = [at |-> "get", driver |-> d, request |-> q]]
    BY <1>4 DEF StartAck
  <2>2. TypeOK'
    BY <1>1, <1>2, <2>1 DEF TypeOK, wsVars, callVars
  <2>3. ack'[a] = [at |-> "get", driver |-> d, request |-> q] /\ \A b \in Acks : b # a => ack'[b] = ack[b]
    BY <1>1, <2>1 DEF TypeOK
  <2>4. \A b \in Acks : AckFits(b)'
    BY <1>2, <2>1, <2>3 DEF StopInv, AckFits
  <2> QED
    BY <1>3, <2>2, <2>4 DEF StopInv
<1>5. CASE GetRequest(a)
  <2> DEFINE found == requests[ack[a].request]
             at == IF found = NULL THEN "not_found"
                   ELSE IF found.driver # ack[a].driver THEN "forbidden" ELSE "acknowledge"
  <2>1. ack[a].at = "get" /\ ack' = [ack EXCEPT ![a] = [ack[a] EXCEPT !.at = at]]
    BY <1>5 DEF GetRequest
  <2>2. /\ ack'[a] = [ack[a] EXCEPT !.at = at] /\ \A b \in Acks : b # a => ack'[b] = ack[b]
        /\ ack'[a].at = at /\ ack'[a].driver = ack[a].driver /\ ack'[a].request = ack[a].request
        /\ ack'[a] \in [at : {"idle", "get", "not_found", "forbidden", "acknowledge", "ok"},
                         driver : Drivers \cup {NULL}, request : Requests \cup {NULL}]
    BY <1>1, <2>1 DEF TypeOK
  <2>3. TypeOK'
    BY <1>1, <1>2, <2>1, <2>2 DEF TypeOK, wsVars, callVars
  <2>4. AckFits(a)'
    BY <1>1, <1>2, <2>1, <2>2 DEF AckFits
  <2>5. \A b \in Acks : b # a => AckFits(b)'
    BY <1>2, <2>2 DEF StopInv, AckFits
  <2> QED
    BY <1>3, <2>3, <2>4, <2>5 DEF StopInv
<1> QED
  BY <1>4, <1>5

(* ... and its driver's acknowledges it.                                      *)
LEMMA AcknowledgeStep ==
    ASSUME StopInv, NEW a \in Acks, Acknowledge(a) PROVE StopInv'
<1>1. /\ TypeOK /\ AckFits(a) /\ ack[a].at = "acknowledge"
      /\ ack[a].request \in Requests /\ ack[a].driver \in Drivers
      /\ requests[ack[a].request] # NULL /\ requests[ack[a].request].driver = ack[a].driver
  BY DEF StopInv, AckFits, Acknowledge
<1>2. PICK q \in Requests : q = ack[a].request
  BY <1>1
<1> DEFINE new == [requests[q] EXCEPT !.status = "acknowledged"]
           done == [ack[a] EXCEPT !.at = "ok"]
<1>3. /\ requests' = [requests EXCEPT ![q] = new] /\ ack' = [ack EXCEPT ![a] = done]
      /\ UNCHANGED <<online, wsVars, mailbox, callVars>>
  BY <1>2 DEF Acknowledge
<1>4. /\ requests[q] \in Request /\ new \in Request /\ new # NULL
      /\ new.driver = requests[q].driver /\ new.status = "acknowledged"
  <2>1. requests[q] \in Request
    BY <1>1, <1>2 DEF TypeOK
  <2>2. /\ new \in Request /\ new.driver = requests[q].driver
        /\ new.status = "acknowledged"
    BY <2>1 DEF Request
  <2> QED
    BY <2>1, <2>2, NullAssumption
<1>5. /\ done \in [at : {"idle", "get", "not_found", "forbidden", "acknowledge", "ok"},
                   driver : Drivers \cup {NULL}, request : Requests \cup {NULL}]
      /\ done.at = "ok" /\ done.driver = ack[a].driver /\ done.request = ack[a].request
  BY <1>1 DEF TypeOK
<1> HIDE DEF new, done
<1>6. TypeOK'
  BY <1>1, <1>3, <1>4, <1>5 DEF TypeOK, wsVars, callVars
<1>7. /\ requests'[q] = new /\ \A p \in Requests : p # q => requests'[p] = requests[p]
      /\ ack'[a] = done /\ \A b \in Acks : b # a => ack'[b] = ack[b]
  BY <1>1, <1>3 DEF TypeOK
<1>8. RequestFits(q)'
  <2>1. requests[q] # NULL /\ requests[q].driver # NULL /\ RequestFits(q)
    BY <1>1, <1>2, NullAssumption DEF StopInv
  <2>2. request'[q] = request[q] /\ matched'[q] = matched[q] /\ alerted'[q] = alerted[q]
    BY <1>3 DEF callVars
  <2>3. /\ requests'[q] # NULL /\ requests'[q].driver = requests[q].driver
        /\ requests'[q].driver # NULL /\ requests'[q].status # "unmatched"
    BY <1>4, <1>7, <2>1
  <2> QED
    BY <2>1, <2>2, <2>3 DEF RequestFits
<1>9. ASSUME NEW p \in Requests, p # q PROVE RequestFits(p)'
  <2>1. RequestFits(p) /\ requests'[p] = requests[p]
    BY <1>7, <1>9 DEF StopInv
  <2>2. request' = request /\ matched' = matched /\ alerted' = alerted
    BY <1>3 DEF callVars
  <2> QED
    BY <2>1, <2>2 DEF RequestFits
<1>10. ASSUME NEW b \in Acks PROVE AckFits(b)'
  <2>1. AckFits(b)
    BY DEF StopInv
  <2>2. \A p \in Requests : requests[p] # NULL =>
            requests'[p] # NULL /\ requests'[p].driver = requests[p].driver
    BY <1>4, <1>7
  <2>3. b = a \/ ack'[b] = ack[b]
    BY <1>7
  <2> QED
    BY <1>1, <1>5, <1>7, <2>1, <2>2, <2>3 DEF AckFits
<1> QED
  BY <1>6, <1>8, <1>9, <1>10 DEF StopInv

-----------------------------------------------------------------------------
(* Every step keeps the invariant.                                            *)
LEMMA StopNext == StopInv /\ [Next]_vars => StopInv'
<1> SUFFICES ASSUME StopInv, [Next]_vars PROVE StopInv'
  OBVIOUS
<1>1. CASE UNCHANGED vars
  <2>1. TypeOK'
    BY <1>1 DEF vars, wsVars, callVars, StopInv, TypeOK
  <2> QED
    BY <1>1, <2>1, SessionStep DEF vars
<1>2. ASSUME NEW q \in Requests, Accept(q) \/ Match(q) \/ Send(q) \/ Put(q) PROVE StopInv'
  BY <1>2, AcceptStep, MatchStep, SendStep, PutStep
<1>3. ASSUME NEW a \in Acks,
             \/ \E d \in Drivers, q \in Requests : StartAck(a, d, q)
             \/ GetRequest(a) \/ Acknowledge(a)
      PROVE  StopInv'
  BY <1>3, AckStep, AcknowledgeStep
<1>4. ASSUME NEW s \in Sessions, NEW r \in Routes, GoOnline(s, r) PROVE StopInv'
  BY <1>4, GoOnlineStep
<1>5. ASSUME NEW s \in Sessions, NEW msg \in Positions \cup {NULL}, Read(s, msg) PROVE StopInv'
  BY <1>5, ReadStep
<1>6. ASSUME NEW s \in Sessions, Serve(s) \/ Break(s) PROVE StopInv'
  BY <1>6, ServeStep, PushStep, HandleMessageStep, TakeAlertStep DEF Serve, Loop
<1> HIDE DEF StopInv
<1> QED
  BY <1>1, <1>2, <1>3, <1>4, <1>5, <1>6 DEF Next

(* The inductive invariant holds in every state.                              *)
LEMMA StopSafe == Spec => []StopInv
BY StopInit, StopNext, PTL DEF Spec

(* Requests, connections and channels have their types.                       *)
THEOREM TypeCorrect == Spec => []TypeOK
<1>1. StopInv => TypeOK
  BY DEF StopInv
<1> QED
  BY <1>1, StopSafe, PTL

(* What a commuter is told agrees with who was alerted.                       *)
THEOREM AnswersAgree == Spec => []AnswerMatchesAlert
<1>1. StopInv => AnswerMatchesAlert
  BY NullAssumption DEF StopInv, RequestFits, AnswerMatchesAlert
<1> QED
  BY <1>1, StopSafe, PTL

(* An acknowledged request stays acknowledged, by the same driver.            *)
THEOREM AckStays == Spec => AckIsFinal
<1>1. StopInv /\ [Next]_vars =>
        [\A q \in Requests :
            requests[q] # NULL /\ requests[q].status = "acknowledged" =>
                requests'[q] = requests[q]]_vars
  <2> SUFFICES ASSUME StopInv, [Next]_vars, NEW q \in Requests,
                      requests[q] # NULL, requests[q].status = "acknowledged"
               PROVE  requests'[q] = requests[q]
    OBVIOUS
  <2>1. TypeOK /\ RequestFits(q)
    BY DEF StopInv
  <2>2. CASE UNCHANGED requests
    BY <2>2
  <2>3. ASSUME NEW p \in Requests, Put(p) PROVE requests'[q] = requests[q]
    <3>1. p # q
      BY <2>1, <2>3 DEF Put, RequestFits
    <3> QED
      BY <2>1, <2>3, <3>1 DEF Put, TypeOK
  <2>4. ASSUME NEW a \in Acks, Acknowledge(a) PROVE requests'[q] = requests[q]
    <3>1. requests' = [requests EXCEPT ![ack[a].request] =
                          [requests[ack[a].request] EXCEPT !.status = "acknowledged"]]
      BY <2>4 DEF Acknowledge
    <3>2. requests[q] \in Request
      BY <2>1 DEF TypeOK
    <3>3. [requests[q] EXCEPT !.status = "acknowledged"] = requests[q]
      BY <3>2 DEF Request
    <3> QED
      BY <2>1, <3>1, <3>3 DEF TypeOK
  <2>5. UNCHANGED requests \/ (\E p \in Requests : Put(p)) \/ (\E a \in Acks : Acknowledge(a))
    BY DEF Next, vars, Accept, Match, Send, StartAck, GetRequest, GoOnline, Read, Serve, Break,
           Subscribe, Push, ReadFails, Loop, HandleMessage, TakeAlert, WriteAlert, ReaderGone,
           Unsubscribe, GoOffline
  <2> QED
    BY <2>2, <2>3, <2>4, <2>5
<1> QED
  BY <1>1, StopSafe, PTL DEF Spec, AckIsFinal

-----------------------------------------------------------------------------
(* A servable request is for a stop of its route, and the position of every   *)
(* stop of the route is known.                                                *)
LEMMA ServableRoute ==
    ASSUME NEW q \in Requests, Servable(q),
           NEW ids, ids = loadRouteStops(LegsOf[RouteOf[q]])
    PROVE  /\ ids \in Seq(Stops) /\ ids # <<>> /\ Distinct(ids)
           /\ \A i \in DOMAIN ids : At[ids[i]] \in Int
           /\ StopSequenceIndex(ids, StopOf[q]) \in DOMAIN ids
           /\ ids[StopSequenceIndex(ids, StopOf[q])] = StopOf[q]
           /\ At[StopOf[q]] \in Int
<1>1. LegsOf[RouteOf[q]] \in Seq(Stops \X Stops) /\ LegsOf[RouteOf[q]] # <<>>
  BY StopsAssumption DEF Servable
<1>2. ids \in Seq(Stops) /\ ids # <<>> /\ Distinct(ids)
  BY <1>1, RouteStops
<1>3. /\ \A i \in DOMAIN ids : At[ids[i]] # NULL
      /\ \E i \in 1 .. Len(ids) : ids[i] = StopOf[q]
  BY DEF Servable, Contains
<1>4. \A i \in DOMAIN ids : ids[i] \in Stops
  BY <1>2
<1>5. \A i \in DOMAIN ids : At[ids[i]] \in Int
  BY <1>3, <1>4, StopsAssumption
<1>6. \E i \in DOMAIN ids : ids[i] = StopOf[q]
  BY <1>2, <1>3
<1>7. /\ StopSequenceIndex(ids, StopOf[q]) \in DOMAIN ids
      /\ ids[StopSequenceIndex(ids, StopOf[q])] = StopOf[q]
  BY <1>6 DEF StopSequenceIndex
<1> QED
  BY <1>2, <1>5, <1>7

(* Comparing indexes tells whether a driver has passed the stop.              *)
LEMMA IndexesTell ==
    ASSUME TypeOK, NEW q \in Requests, Servable(q),
           NEW ids, ids = loadRouteStops(LegsOf[RouteOf[q]]),
           NEW d \in Drivers, online[d] # NULL
    PROVE  NotPassed(d, ids, StopOf[q]) <=>
               nearestStopIndex(ids, online[d].at) <= StopSequenceIndex(ids, StopOf[q])
<1>1. PICK x \in Int : x = online[d].at
  BY StopsAssumption DEF TypeOK, VehicleState
<1>2. /\ ids \in Seq(Stops) /\ ids # <<>> /\ Distinct(ids)
      /\ \A i \in DOMAIN ids : At[ids[i]] \in Int
  BY ServableRoute
<1> DEFINE far(i) == haversine(x, At[ids[i]])
<1>3. PICK m \in DOMAIN ids :
          /\ m = nearestStopIndex(ids, x)
          /\ \A j \in DOMAIN ids : far(m) <= far(j)
          /\ \A j \in 1 .. m - 1 : far(m) < far(j)
  BY <1>2, NearestStop
<1>4. PICK p \in DOMAIN ids : p = StopSequenceIndex(ids, StopOf[q]) /\ ids[p] = StopOf[q]
  BY ServableRoute
<1>5. DOMAIN ids = 1 .. Len(ids) /\ Len(ids) \in Nat
  BY <1>2
<1>6. \A k \in DOMAIN ids : ids[k] = StopOf[q] <=> k = p
  BY <1>2, <1>4 DEF Distinct
<1>7. \A i \in DOMAIN ids : far(i) \in Nat
  BY <1>2, Distance
<1>8. \A i \in DOMAIN ids : (\E k \in i .. Len(ids) : ids[k] = StopOf[q]) <=> i <= p
  <2> TAKE i \in DOMAIN ids
  <2>1. \A k \in i .. Len(ids) : k \in DOMAIN ids
    BY <1>5
  <2>2. i <= p => p \in i .. Len(ids)
    BY <1>5
  <2>3. \A k \in i .. Len(ids) : k = p => i <= p
    BY <1>5
  <2> QED
    BY <1>6, <2>1, <2>2, <2>3
<1>9. \A j \in DOMAIN ids : (\E k \in 1 .. j - 1 : ids[k] = StopOf[q]) <=> p < j
  <2> TAKE j \in DOMAIN ids
  <2>1. \A k \in 1 .. j - 1 : k \in DOMAIN ids
    BY <1>5
  <2>2. p < j => p \in 1 .. j - 1
    BY <1>5
  <2>3. \A k \in 1 .. j - 1 : k = p => p < j
    BY <1>5
  <2> QED
    BY <1>6, <2>1, <2>2, <2>3
<1>10. NotPassed(d, ids, StopOf[q]) <=>
           \E i \in DOMAIN ids : i <= p /\ \A j \in DOMAIN ids : p < j => far(i) <= far(j)
  <2>1. NotPassed(d, ids, StopOf[q]) <=>
            \E i \in DOMAIN ids :
                /\ \E k \in i .. Len(ids) : ids[k] = StopOf[q]
                /\ \A j \in DOMAIN ids :
                       (\E k \in 1 .. j - 1 : ids[k] = StopOf[q]) => far(i) <= far(j)
    BY <1>1, Zenon DEF NotPassed
  <2> HIDE DEF far
  <2> QED
    BY <1>8, <1>9, <2>1, Zenon
<1> HIDE DEF far
<1>11. ASSUME NEW i \in DOMAIN ids, i <= p, \A j \in DOMAIN ids : p < j => far(i) <= far(j)
       PROVE  m <= p
  <2> SUFFICES ASSUME p < m PROVE FALSE
    BY <1>5
  <2>1. i \in 1 .. m - 1
    BY <1>5, <1>11
  <2>2. far(i) <= far(m) /\ far(m) < far(i)
    BY <1>3, <1>11, <2>1
  <2> QED
    BY <1>7, <2>2
<1>12. m <= p => \E i \in DOMAIN ids : i <= p /\ \A j \in DOMAIN ids : p < j => far(i) <= far(j)
  BY <1>3
<1> QED
  BY <1>1, <1>3, <1>4, <1>10, <1>11, <1>12

(* Some driver of those who may come is a nearest one.                        *)
LEMMA NearestDriver ==
    ASSUME NEW able, able # {}, NEW far, \A d \in able : far[d] \in Nat
    PROVE  \E d \in able : \A e \in able : far[d] <= far[e]
<1> DEFINE S == {far[d] : d \in able}
<1>1. S \subseteq Nat /\ S # {}
  OBVIOUS
<1>2. PICK m \in S : \A k \in S : m <= k
  <2> HIDE DEF S
  <2> QED
    BY <1>1, LeastNat
<1>3. PICK d \in able : m = far[d]
  BY <1>2
<1> QED
  BY <1>2, <1>3

(* RequestStop picks a driver exactly when one of the route has not passed    *)
(* the stop, and then one of the nearest of those: the comparison of indexes  *)
(* and the two minima of match.go compute what they are for, on every route   *)
(* and wherever the drivers are.                                              *)
THEOREM DriverIsNearest == Spec => NearestNotPassed
<1> DEFINE Picks(q) ==
        request[q] = "match" /\ request'[q] # "match" =>
            LET ids == loadRouteStops(LegsOf[RouteOf[q]])
                able == {d \in OnRoute(RouteOf[q]) : NotPassed(d, ids, StopOf[q])}
                near(d) == haversine(online[d].at, At[StopOf[q]])
            IN  IF able = {} THEN matched'[q] = NULL
                ELSE /\ matched'[q] \in able
                     /\ \A d \in able : near(matched'[q]) <= near(d)
<1>1. ASSUME StopInv, NEW q \in Requests, Match(q) PROVE Picks(q)
  <2>1. TypeOK /\ RequestFits(q) /\ request[q] = "match" /\ Servable(q) /\ matched[q] = NULL
    BY <1>1 DEF StopInv, RequestFits, Match
  <2>2. PICK ids : ids = loadRouteStops(LegsOf[RouteOf[q]])
    OBVIOUS
  <2> DEFINE able == {d \in OnRoute(RouteOf[q]) : NotPassed(d, ids, StopOf[q])}
             near(d) == haversine(online[d].at, At[StopOf[q]])
             found == FindApproachingDriver(OnRoute(RouteOf[q]), ids, StopOf[q])
  <2>3. able = {d \in OnRoute(RouteOf[q]) :
                   nearestStopIndex(ids, online[d].at) <= StopSequenceIndex(ids, StopOf[q])}
    BY <2>1, <2>2, IndexesTell DEF OnRoute
  <2>4. found = {d \in able : \A e \in able : near(d) <= near(e)}
    BY <2>3 DEF FindApproachingDriver
  <2>5. \A d \in able : d \in Drivers /\ near(d) \in Nat
    <3>1. At[StopOf[q]] \in Int
      BY <2>1, <2>2, ServableRoute
    <3>2. \A d \in able : d \in Drivers /\ online[d] # NULL
      BY DEF OnRoute
    <3>3. \A d \in able : online[d].at \in Int
      BY <2>1, <3>2, StopsAssumption DEF TypeOK, VehicleState
    <3> QED
      BY <3>1, <3>2, <3>3, Distance
  <2> HIDE DEF able, near, found
  <2>6. able # {} => found # {}
    <3> SUFFICES ASSUME able # {} PROVE found # {}
      OBVIOUS
    <3>1. \E far : far = [d \in able |-> near(d)]
      OBVIOUS
    <3>2. PICK far : far = [d \in able |-> near(d)]
      BY <3>1
    <3>3. \A d \in able : far[d] = near(d) /\ far[d] \in Nat
      BY <2>5, <3>2
    <3>4. \E d \in able : \A e \in able : far[d] <= far[e]
      BY <3>3, NearestDriver
    <3> QED
      BY <2>4, <3>3, <3>4
  <2>7. IF found = {} THEN matched' = matched
        ELSE \E d \in found : matched' = [matched EXCEPT ![q] = d]
    BY <1>1, <2>2 DEF Match, found
  <2>8. CASE able = {}
    <3>1. found = {} /\ matched'[q] = NULL
      BY <2>1, <2>4, <2>7, <2>8
    <3> QED
      BY <2>2, <2>8, <3>1 DEF able
  <2>9. CASE able # {}
    <3>1. matched'[q] \in found
      BY <2>1, <2>6, <2>7, <2>9 DEF TypeOK
    <3>2. matched'[q] \in able /\ \A d \in able : near(matched'[q]) <= near(d)
      BY <2>4, <3>1
    <3> QED
      BY <2>2, <2>9, <3>2 DEF able, near
  <2> QED
    BY <2>8, <2>9
<1>2. ASSUME StopInv, [Next]_vars, NEW q \in Requests, request[q] = "match", request'[q] # "match"
      PROVE  Match(q)
  <2>1. TypeOK
    BY <1>2 DEF StopInv
  <2>2. \/ UNCHANGED request
        \/ \E p \in Requests : Accept(p) \/ Match(p) \/ Send(p) \/ Put(p)
    BY <1>2 DEF Next, vars, callVars, StartAck, GetRequest, Acknowledge, GoOnline, Read, Serve,
           Break, Subscribe, Push, ReadFails, Loop, HandleMessage, TakeAlert, WriteAlert,
           ReaderGone, Unsubscribe, GoOffline
  <2>3. PICK p \in Requests : Accept(p) \/ Match(p) \/ Send(p) \/ Put(p)
    BY <1>2, <2>2
  <2>4. \A x \in Requests : x # p => request'[x] = request[x]
    BY <2>1, <2>3 DEF TypeOK, Accept, Match, Send, Put
  <2>5. p = q
    BY <1>2, <2>4
  <2> QED
    BY <1>2, <2>3, <2>5 DEF Accept, Send, Put
<1>3. StopInv /\ [Next]_vars => [\A q \in Requests : Picks(q)]_vars
  <2> HIDE DEF StopInv
  <2> SUFFICES ASSUME StopInv, [Next]_vars, NEW q \in Requests PROVE Picks(q)
    OBVIOUS
  <2>1. CASE request[q] = "match" /\ request'[q] # "match"
    BY <1>1, <1>2, <2>1
  <2>2. CASE ~ (request[q] = "match" /\ request'[q] # "match")
    BY <2>2
  <2> QED
    BY <2>1, <2>2
<1> QED
  BY <1>3, StopSafe, PTL DEF Spec, NearestNotPassed
=============================================================================
