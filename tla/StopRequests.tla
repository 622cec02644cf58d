---------------------------- MODULE StopRequests ----------------------------
(* Request-a-stop: RequestStop and AckRequest of internal/stops, its store of *)
(* requests and matching rule, and the way an alert takes to the driver's     *)
(* app: DriverAlertHub and the two goroutines of DriverWS in                  *)
(* internal/telemetry.  A driver has one vehicle; routes are straight lines   *)
(* and a position is a point of the line.                                     *)
EXTENDS Integers, Sequences, SequencesExt

CONSTANTS
    Drivers,
    Sessions,       \* connections to /ws/driver, each opened once
    DriverOf,       \* the driver of each session
    Requests,       \* calls of RequestStop
    Acks,           \* calls of AckRequest
    Stops, Routes,
    Catalogue,      \* routes imported by the catalogue
    LegsOf,         \* the legs of each route, <<from, to>> in sequence order
    At,             \* the position of each stop, NULL if not known
    RouteOf, StopOf,    \* what each request asks for
    Positions,      \* positions a driver's app reports
    Zero,           \* the position of a vehicle that has reported none
    alertBuffer,    \* size of a driver's mailbox
    MaxMessages,    \* bound on the messages of one session
    NULL

ASSUME StopsAssumption ==
    /\ DriverOf \in [Sessions -> Drivers]
    /\ Catalogue \subseteq Routes
    /\ LegsOf \in [Routes -> Seq(Stops \X Stops)]
    /\ At \in [Stops -> Int \cup {NULL}]
    /\ RouteOf \in [Requests -> Routes] /\ StopOf \in [Requests -> Stops]
    /\ Positions \subseteq Int /\ Zero \in Int
    /\ alertBuffer \in Nat /\ MaxMessages \in Nat

VehicleState == [route : Routes, at : Positions \cup {Zero}]
Request == [status : {"pending", "unmatched", "acknowledged"}, driver : Drivers \cup {NULL}]

ASSUME NullAssumption ==
    /\ NULL \notin Drivers /\ NULL \notin Positions
    /\ NULL \notin VehicleState /\ NULL \notin Request

VARIABLES
    online,     \* route and position of every driver's vehicle, NULL if offline
    session,    \* where the main goroutine of each session is
    reader,     \* where its reader goroutine is
    held,       \* the message the reader has read
    incoming,   \* the channel between them
    mailbox,    \* the channel of the session's subscription to alerts
    broken,     \* sessions whose connection is gone
    sent,       \* messages received from each session
    request,    \* where each RequestStop is
    matched,    \* the driver it has found, NULL if none
    alerted,    \* drivers a mailbox of which has taken its alert
    requests,   \* the store: status and driver of each request, NULL if none
    ack         \* where each AckRequest is, whose it is and for what

wsVars == <<session, reader, held, incoming, broken, sent>>
callVars == <<request, matched, alerted>>
vars == <<online, wsVars, mailbox, callVars, requests, ack>>

Init ==
    /\ online = [d \in Drivers |-> NULL]
    /\ session = [s \in Sessions |-> "idle"]
    /\ reader = [s \in Sessions |-> "none"]
    /\ held = [s \in Sessions |-> NULL]
    /\ incoming = [s \in Sessions |-> <<>>]
    /\ mailbox = [s \in Sessions |-> <<>>]
    /\ broken = [s \in Sessions |-> FALSE]
    /\ sent = [s \in Sessions |-> 0]
    /\ request = [q \in Requests |-> "idle"]
    /\ matched = [q \in Requests |-> NULL]
    /\ alerted = [q \in Requests |-> {}]
    /\ requests = [q \in Requests |-> NULL]
    /\ ack = [a \in Acks |-> [at |-> "idle", driver |-> NULL, request |-> NULL]]

-----------------------------------------------------------------------------
(* match.go *)

haversine(x, y) == IF x >= y THEN x - y ELSE y - x

(* loadRouteStops: the stops of the legs in order, each once.                 *)
loadRouteStops(legs) ==
    FoldLeft(LAMBDA stops, leg : IF Contains(stops, leg[2]) THEN stops
                                 ELSE Append(stops, leg[2]),
             <<legs[1][1]>>, legs)

(* Mutant: of equally near stops the last one is taken.                       *)
nearestStopIndexLast(stops, x) ==
    CHOOSE i \in DOMAIN stops :
        /\ \A j \in DOMAIN stops : haversine(x, At[stops[i]]) <= haversine(x, At[stops[j]])
        /\ \A j \in i + 1 .. Len(stops) :
               haversine(x, At[stops[i]]) < haversine(x, At[stops[j]])

(* nearestStopIndex: the first of the nearest stops.                          *)
nearestStopIndex(stops, x) ==
    CHOOSE i \in DOMAIN stops :
        /\ \A j \in DOMAIN stops : haversine(x, At[stops[i]]) <= haversine(x, At[stops[j]])
        /\ \A j \in 1 .. i - 1 : haversine(x, At[stops[i]]) < haversine(x, At[stops[j]])

StopSequenceIndex(stops, stop) == CHOOSE i \in DOMAIN stops : stops[i] = stop

OnRoute(r) == {d \in Drivers : online[d] # NULL /\ online[d].route = r}

(* FindApproachingDriver: the drivers it may return.  Of equally near ones it *)
(* takes the first of ListByRoute, which walks a map in no fixed order.       *)
FindApproachingDriver(drivers, stops, stop) ==
    LET approaching == {d \in drivers : nearestStopIndex(stops, online[d].at)
                                            <= StopSequenceIndex(stops, stop)}
        dist(d) == haversine(online[d].at, At[stop])
    IN  {d \in approaching : \A e \in approaching : dist(d) <= dist(e)}

-----------------------------------------------------------------------------
(* RequestStop: a request for a catalogue route, a route without legs or with *)
(* a stop of unknown position, or for a stop elsewhere is refused ...         *)
Servable(q) ==
    LET legs == LegsOf[RouteOf[q]]
    IN  /\ RouteOf[q] \notin Catalogue
        /\ legs # <<>>
        /\ \A i \in DOMAIN loadRouteStops(legs) : At[loadRouteStops(legs)[i]] # NULL
        /\ Contains(loadRouteStops(legs), StopOf[q])

(* ... and so is one whose queries fail.                                      *)
Accept(q) ==
    /\ request[q] = "idle"
    /\ \/ Servable(q) /\ request' = [request EXCEPT ![q] = "match"]
       \/ request' = [request EXCEPT ![q] = "refused"]
    /\ UNCHANGED <<online, wsVars, mailbox, matched, alerted, requests, ack>>

Match(q) ==
    LET found == FindApproachingDriver(OnRoute(RouteOf[q]),
                                       loadRouteStops(LegsOf[RouteOf[q]]), StopOf[q])
    IN  /\ request[q] = "match"
        /\ IF found = {}
           THEN /\ request' = [request EXCEPT ![q] = "put"]
                /\ UNCHANGED matched
           ELSE /\ request' = [request EXCEPT ![q] = "send"]
                /\ \E d \in found : matched' = [matched EXCEPT ![q] = d]
        /\ UNCHANGED <<online, wsVars, mailbox, alerted, requests, ack>>

Subscribed(s) == session[s] \in {"loop", "write", "unsubscribe"}

MailboxesOf(d) == {s \in Sessions : Subscribed(s) /\ DriverOf[s] = d}

(* Mutant: mailboxes grow without bound.                                      *)
RoomUnbounded(q) == MailboxesOf(matched[q])

(* DriverAlertHub.Send, to every mailbox of the driver that has room ...      *)
Room(q) == {s \in MailboxesOf(matched[q]) : Len(mailbox[s]) < alertBuffer}

(* Mutant: a full mailbox counts as delivered.                                *)
DeliveredOptimistic(q) == MailboxesOf(matched[q]) # {}

Delivered(q) == Room(q) # {}

(* Mutant: the request is already stored, as pending, before its alert is     *)
(* sent.                                                                      *)
SendStored(q) ==
    /\ request[q] = "send"
    /\ requests' = [requests EXCEPT ![q] = [status |-> "pending", driver |-> matched[q]]]
    /\ mailbox' = [s \in Sessions |-> IF s \in Room(q) THEN Append(mailbox[s], q) ELSE mailbox[s]]
    /\ alerted' = [alerted EXCEPT ![q] = {DriverOf[s] : s \in Room(q)}]
    /\ matched' = [matched EXCEPT ![q] = IF Delivered(q) THEN @ ELSE NULL]
    /\ request' = [request EXCEPT ![q] = "put"]
    /\ UNCHANGED <<online, wsVars, ack>>

(* ... and unless one has taken it the request is not matched.                *)
Send(q) ==
    /\ request[q] = "send"
    /\ mailbox' = [s \in Sessions |-> IF s \in Room(q) THEN Append(mailbox[s], q) ELSE mailbox[s]]
    /\ alerted' = [alerted EXCEPT ![q] = {DriverOf[s] : s \in Room(q)}]
    /\ matched' = [matched EXCEPT ![q] = IF Delivered(q) THEN @ ELSE NULL]
    /\ request' = [request EXCEPT ![q] = "put"]
    /\ UNCHANGED <<online, wsVars, requests, ack>>

(* Store.Put and the answer.                                                  *)
Put(q) ==
    /\ request[q] = "put"
    /\ requests' = [requests EXCEPT ![q] =
                       [status |-> IF matched[q] = NULL THEN "unmatched" ELSE "pending",
                        driver |-> matched[q]]]
    /\ request' = [request EXCEPT ![q] = "answered"]
    /\ UNCHANGED <<online, wsVars, mailbox, matched, alerted, ack>>

-----------------------------------------------------------------------------
(* AckRequest, by a driver who has the alert or was told the id.              *)
StartAck(a, d, q) ==
    /\ ack[a].at = "idle"
    /\ request[q] \notin {"idle", "refused"}
    /\ ack' = [ack EXCEPT ![a] = [at |-> "get", driver |-> d, request |-> q]]
    /\ UNCHANGED <<online, wsVars, mailbox, callVars, requests>>

GetRequest(a) ==
    LET found == requests[ack[a].request]
    IN  /\ ack[a].at = "get"
        /\ ack' = [ack EXCEPT ![a].at = IF found = NULL THEN "not_found"
                                        ELSE IF found.driver # ack[a].driver THEN "forbidden"
                                        ELSE "acknowledge"]
        /\ UNCHANGED <<online, wsVars, mailbox, callVars, requests>>

Acknowledge(a) ==
    /\ ack[a].at = "acknowledge"
    /\ requests' = [requests EXCEPT ![ack[a].request].status = "acknowledged"]
    /\ ack' = [ack EXCEPT ![a].at = "ok"]
    /\ UNCHANGED <<online, wsVars, mailbox, callVars>>

-----------------------------------------------------------------------------
(* DriverWS.  The vehicle goes online where it was last seen, if it still is; *)
(* then the connection subscribes to alerts and its reader starts.            *)
GoOnline(s, r) ==
    /\ session[s] = "idle"
    /\ online' = [online EXCEPT ![DriverOf[s]] =
                     [route |-> r, at |-> IF @ = NULL THEN Zero ELSE @.at]]
    /\ session' = [session EXCEPT ![s] = "subscribe"]
    /\ UNCHANGED <<reader, held, incoming, broken, sent, mailbox, callVars,
                   requests, ack>>

Subscribe(s) ==
    /\ session[s] = "subscribe"
    /\ session' = [session EXCEPT ![s] = "loop"]
    /\ reader' = [reader EXCEPT ![s] = "read"]
    /\ UNCHANGED <<online, held, incoming, broken, sent, mailbox, callVars,
                   requests, ack>>

(* The reader goroutine: a message is a position or, NULL, about seats.       *)
Read(s, msg) ==
    /\ reader[s] = "read" /\ ~broken[s]
    /\ sent[s] < MaxMessages
    /\ sent' = [sent EXCEPT ![s] = @ + 1]
    /\ held' = [held EXCEPT ![s] = msg]
    /\ reader' = [reader EXCEPT ![s] = "push"]
    /\ UNCHANGED <<online, session, incoming, broken, mailbox, callVars, requests,
                   ack>>

Push(s) ==
    /\ reader[s] = "push" /\ incoming[s] = <<>>
    /\ incoming' = [incoming EXCEPT ![s] = <<held[s]>>]
    /\ held' = [held EXCEPT ![s] = NULL]
    /\ reader' = [reader EXCEPT ![s] = "read"]
    /\ UNCHANGED <<online, session, broken, sent, mailbox, callVars, requests, ack>>

(* Mutant: the reader returns without closing readDone.                       *)
ReadFailsSilently(s) ==
    /\ reader[s] = "read" /\ broken[s]
    /\ reader' = [reader EXCEPT ![s] = "none"]
    /\ UNCHANGED <<online, session, held, incoming, broken, sent, mailbox, callVars,
                   requests, ack>>

ReadFails(s) ==
    /\ reader[s] = "read" /\ broken[s]
    /\ reader' = [reader EXCEPT ![s] = "done"]
    /\ UNCHANGED <<online, session, held, incoming, broken, sent, mailbox, callVars,
                   requests, ack>>

(* The main goroutine's select: a message of the driver's, ...                *)
HandleMessage(s) ==
    LET msg == Head(incoming[s])
        d == DriverOf[s]
    IN  /\ session[s] = "loop" /\ incoming[s] # <<>>
        /\ incoming' = [incoming EXCEPT ![s] = <<>>]
        /\ IF msg # NULL /\ online[d] # NULL
           THEN online' = [online EXCEPT ![d].at = msg]
           ELSE UNCHANGED online
        /\ UNCHANGED <<session, reader, held, broken, sent, mailbox, callVars,
                       requests, ack>>

(* ... an alert, ...                                                          *)
TakeAlert(s) ==
    /\ session[s] = "loop" /\ mailbox[s] # <<>>
    /\ session' = [session EXCEPT ![s] = "write"]
    /\ mailbox' = [mailbox EXCEPT ![s] = Tail(@)]
    /\ UNCHANGED <<online, reader, held, incoming, broken, sent, callVars, requests, ack>>

(* ... which is written, perhaps into a connection that is gone, or fails,    *)
(* and with it the session, ...                                               *)
WriteAlert(s) ==
    /\ session[s] = "write"
    /\ \E next \in {"loop", "unsubscribe"} : session' = [session EXCEPT ![s] = next]
    /\ UNCHANGED <<online, reader, held, incoming, broken, sent, mailbox, callVars, requests, ack>>

(* ... or the end of the reader.                                              *)
ReaderGone(s) ==
    /\ session[s] = "loop" /\ reader[s] = "done"
    /\ session' = [session EXCEPT ![s] = "unsubscribe"]
    /\ UNCHANGED <<online, reader, held, incoming, broken, sent, mailbox, callVars,
                   requests, ack>>

(* The deferred calls, last first: Unsubscribe, GoOffline and Close.          *)
Unsubscribe(s) ==
    /\ session[s] = "unsubscribe"
    /\ session' = [session EXCEPT ![s] = "offline"]
    /\ mailbox' = [mailbox EXCEPT ![s] = <<>>]
    /\ UNCHANGED <<online, reader, held, incoming, broken, sent, callVars, requests,
                   ack>>

GoOffline(s) ==
    /\ session[s] = "offline"
    /\ session' = [session EXCEPT ![s] = "closed"]
    /\ online' = [online EXCEPT ![DriverOf[s]] = NULL]
    /\ broken' = [broken EXCEPT ![s] = TRUE]
    /\ UNCHANGED <<reader, held, incoming, sent, mailbox, callVars, requests, ack>>

(* The driver's app, or the network, ends the connection.                     *)
Break(s) ==
    /\ session[s] \notin {"idle", "closed"} /\ ~broken[s]
    /\ broken' = [broken EXCEPT ![s] = TRUE]
    /\ UNCHANGED <<online, session, reader, held, incoming, sent, mailbox, callVars,
                   requests, ack>>

-----------------------------------------------------------------------------
(* What the server does by itself.                                            *)
Loop(s) ==
    HandleMessage(s) \/ TakeAlert(s) \/ WriteAlert(s) \/ ReaderGone(s)
Serve(s) ==
    \/ Subscribe(s) \/ Push(s) \/ ReadFails(s)
    \/ Loop(s)
    \/ Unsubscribe(s) \/ GoOffline(s)

Next ==
    \/ \E q \in Requests : Accept(q) \/ Match(q) \/ Send(q) \/ Put(q)
    \/ \E a \in Acks :
           \/ \E d \in Drivers, q \in Requests : StartAck(a, d, q)
           \/ GetRequest(a) \/ Acknowledge(a)
    \/ \E s \in Sessions :
           \/ \E r \in Routes : GoOnline(s, r)
           \/ \E msg \in Positions \cup {NULL} : Read(s, msg)
           \/ Serve(s) \/ Break(s)

Spec == Init /\ [][Next]_vars

(* Goroutines that can run do: the main one, its deferred calls included, and *)
(* the reader, whose Read fails once the connection is gone.  Nothing is      *)
(* assumed of drivers, commuters and the network.                             *)
FairSpec ==
    /\ Spec
    /\ \A s \in Sessions :
           /\ WF_vars(Subscribe(s)) /\ WF_vars(Loop(s))
           /\ WF_vars(Unsubscribe(s)) /\ WF_vars(GoOffline(s))
           /\ WF_vars(Push(s)) /\ WF_vars(ReadFails(s))

-----------------------------------------------------------------------------
(* Every variable has its type; channels hold what they were made for.        *)
TypeOK ==
    /\ online \in [Drivers -> VehicleState \cup {NULL}]
    /\ session \in [Sessions -> {"idle", "subscribe", "loop", "write", "unsubscribe", "offline",
                                 "closed"}]
    /\ reader \in [Sessions -> {"none", "read", "push", "done"}]
    /\ held \in [Sessions -> Positions \cup {NULL}]
    /\ incoming \in [Sessions -> Seq(Positions \cup {NULL})]
    /\ mailbox \in [Sessions -> Seq(Requests)]
    /\ \A s \in Sessions : Len(incoming[s]) <= 1 /\ Len(mailbox[s]) <= alertBuffer
    /\ broken \in [Sessions -> BOOLEAN]
    /\ sent \in [Sessions -> 0 .. MaxMessages]
    /\ request \in [Requests -> {"idle", "refused", "match", "send", "put", "answered"}]
    /\ matched \in [Requests -> Drivers \cup {NULL}]
    /\ alerted \in [Requests -> SUBSET Drivers]
    /\ requests \in [Requests -> Request \cup {NULL}]
    /\ ack \in [Acks -> [at : {"idle", "get", "not_found", "forbidden", "acknowledge", "ok"},
                         driver : Drivers \cup {NULL}, request : Requests \cup {NULL}]]

(* The matching rule without indexes: a driver has not passed a stop if one   *)
(* of the stops up to it is as near as every stop after it.                   *)
NotPassed(d, stops, stop) ==
    \E i \in DOMAIN stops :
        /\ \E k \in i .. Len(stops) : stops[k] = stop
        /\ \A j \in DOMAIN stops :
               (\E k \in 1 .. j - 1 : stops[k] = stop) =>
                   haversine(online[d].at, At[stops[i]]) <= haversine(online[d].at, At[stops[j]])

(* RequestStop picks a driver exactly when one of the route has not passed    *)
(* the stop, and then one of the nearest of those, at the position each of    *)
(* them had last reported.                                                    *)
NearestNotPassed ==
    [][\A q \in Requests :
           request[q] = "match" /\ request'[q] # "match" =>
               LET stops == loadRouteStops(LegsOf[RouteOf[q]])
                   able == {d \in OnRoute(RouteOf[q]) : NotPassed(d, stops, StopOf[q])}
                   near(d) == haversine(online[d].at, At[StopOf[q]])
               IN  IF able = {} THEN matched'[q] = NULL
                   ELSE /\ matched'[q] \in able
                        /\ \A d \in able : near(matched'[q]) <= near(d)]_vars

(* A commuter who is told that no driver is available has alerted nobody, and *)
(* the driver a request waits for is the one whose mailbox took its alert.    *)
AnswerMatchesAlert ==
    \A q \in Requests :
        requests[q] # NULL =>
            alerted[q] = IF requests[q].status = "unmatched" THEN {} ELSE {requests[q].driver}

(* An acknowledged request stays acknowledged, by the same driver.            *)
AckIsFinal ==
    [][\A q \in Requests :
           requests[q] # NULL /\ requests[q].status = "acknowledged" =>
               requests'[q] = requests[q]]_vars

(* "The vehicle is marked ... offline the moment it closes": a session whose  *)
(* connection is gone ends, unsubscribes and takes its vehicle offline,       *)
(* whatever messages and alerts are in its channels.                          *)
SessionEnds ==
    \A s \in Sessions : broken[s] ~> session[s] = "closed"
=============================================================================
