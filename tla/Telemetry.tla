------------------------------ MODULE Telemetry ------------------------------
(* Live vehicle state: VehicleStateStore, Hub and the WebSocket handlers of   *)
(* internal/telemetry, with the map a commuter's app builds from what it      *)
(* receives (apps/commuter/src/hooks/useRouteVehicles.ts).  A driver's        *)
(* connection is a session; REST seat updates and boarding scans are callers. *)
(* Store methods and Publish are each atomic (their mutexes); a handler that  *)
(* calls one and then the other is two steps.  Positions are left out: a      *)
(* position message is an update that changes no seat.                        *)
EXTENDS Integers, Sequences, FiniteSets

CONSTANTS
    Sessions,       \* connections to /ws/driver, each opened once
    Callers,        \* calls of POST /telemetry/seats or POST /boarding/scan
    Watchers,       \* commuter apps on /ws/commuter
    Vehicles, Routes,
    RouteOf,        \* the route each watcher looks at
    Capacity,       \* seats_total of a vehicle
    eventBuffer,    \* size of a subscriber's channel
    MaxMessages,    \* bound on the messages of one session
    NULL

ASSUME ActorsAssumption ==
    /\ IsFiniteSet(Sessions) /\ IsFiniteSet(Callers)
    /\ Sessions \cap Callers = {}

ASSUME TelemetryAssumption ==
    /\ RouteOf \in [Watchers -> Routes]
    /\ Capacity \in Nat /\ eventBuffer \in Nat \ {0} /\ MaxMessages \in Nat

Seats == 0 .. Capacity
VehicleState == [route : Routes, seats : Seats]
Event == [type : {"update", "offline"}, vehicle : Vehicles, seats : Seats]

ASSUME NullAssumption ==
    /\ NULL \notin Vehicles \cup Routes \cup Seats
    /\ NULL \notin VehicleState /\ NULL \notin [route : Routes, event : Event]

VARIABLES
    store,      \* route and seats of every online vehicle, NULL if offline
    session,    \* where each session's handler is
    vehicle,    \* the vehicle of each session's or caller's driver, NULL at first
    route,      \* the route each session went online on
    call,       \* where each caller's handler is
    out,        \* the event a handler is about to publish, NULL if none
    sent,       \* messages received from each session
    watch,      \* where each watcher's handler is
    mailbox,    \* the channel of each watcher's subscription
    view,       \* the seats each watcher's app shows, NULL for no vehicle
    dropped     \* watchers that had an event dropped since they subscribed

vars == <<store, session, vehicle, route, call, out, sent, watch, mailbox, view, dropped>>

-----------------------------------------------------------------------------
(* Mutant: the upper bound is forgotten.                                      *)
clampBelow(n, min, max) == IF n < min THEN min ELSE n

clamp(n, min, max) == IF n < min THEN min ELSE IF n > max THEN max ELSE n

State(r, n) == [route |-> r, seats |-> n]
Update(v, n) == [type |-> "update", vehicle |-> v, seats |-> n]
Offline(v) == [type |-> "offline", vehicle |-> v, seats |-> 0]
Pending(r, event) == [route |-> r, event |-> event]

(* What a seat or position message asks for: SetSeatsAbsolute, AdjustSeats    *)
(* and UpdatePosition.                                                        *)
Messages ==
    {[kind |-> "set", n |-> n] : n \in {0, Capacity + 1}}
    \cup {[kind |-> "adjust", n |-> -1], [kind |-> "move", n |-> 0]}

SeatsAfter(msg, seats) ==
    IF msg.kind = "set" THEN clamp(msg.n, 0, Capacity)
    ELSE clamp(seats + msg.n, 0, Capacity)

Init ==
    /\ store = [v \in Vehicles |-> NULL]
    /\ session = [s \in Sessions |-> "idle"]
    /\ vehicle = [a \in Sessions \cup Callers |-> NULL]
    /\ route = [s \in Sessions |-> NULL]
    /\ call = [c \in Callers |-> "idle"]
    /\ out = [a \in Sessions \cup Callers |-> NULL]
    /\ sent = [s \in Sessions |-> 0]
    /\ watch = [w \in Watchers |-> "idle"]
    /\ mailbox = [w \in Watchers |-> <<>>]
    /\ view = [w \in Watchers |-> [v \in Vehicles |-> NULL]]
    /\ dropped = {}

-----------------------------------------------------------------------------
(* DriverWS, for the vehicle of the driver's assignment: GoOnline keeps the   *)
(* seats of a vehicle that is already online.                                 *)
GoOnline(s, v, r) ==
    LET seats == IF store[v] = NULL THEN Capacity
                 ELSE clamp(store[v].seats, 0, Capacity)
    IN  /\ session[s] = "idle"
        /\ session' = [session EXCEPT ![s] = "online"]
        /\ vehicle' = [vehicle EXCEPT ![s] = v]
        /\ route' = [route EXCEPT ![s] = r]
        /\ store' = [store EXCEPT ![v] = State(r, seats)]
        /\ out' = [out EXCEPT ![s] = Pending(r, Update(v, seats))]
        /\ UNCHANGED <<call, sent, watch, mailbox, view, dropped>>

(* Mutant: a message brings a vehicle that is not tracked back.               *)
ApplyMessageUpsert(a, v, msg) ==
    LET seats == IF store[v] = NULL THEN Capacity ELSE SeatsAfter(msg, store[v].seats)
        r == IF store[v] = NULL THEN CHOOSE r \in Routes : TRUE ELSE store[v].route
    IN  /\ store' = [store EXCEPT ![v] = State(r, seats)]
        /\ out' = [out EXCEPT ![a] =
                      Pending(IF a \in Sessions THEN route[a] ELSE r, Update(v, seats))]

(* A message changes a tracked vehicle and is then published: by a session on *)
(* the route it went online on, by a caller on the route in the store.        *)
ApplyMessage(a, v, msg) ==
    IF store[v] = NULL
    THEN UNCHANGED <<store, out>>
    ELSE LET seats == SeatsAfter(msg, store[v].seats)
         IN  /\ store' = [store EXCEPT ![v] = State(@.route, seats)]
             /\ out' = [out EXCEPT ![a] =
                           Pending(IF a \in Sessions THEN route[a] ELSE store[v].route,
                                   Update(v, seats))]

Receive(s, msg) ==
    /\ session[s] = "open" /\ out[s] = NULL
    /\ sent[s] < MaxMessages
    /\ sent' = [sent EXCEPT ![s] = @ + 1]
    /\ ApplyMessage(s, vehicle[s], msg)
    /\ UNCHANGED <<session, vehicle, route, call, watch, mailbox, view, dropped>>

(* The connection ends: the deferred GoOffline, whoever put the vehicle       *)
(* online, and then its offline event.                                        *)
GoOffline(s) ==
    /\ session[s] = "open" /\ out[s] = NULL
    /\ session' = [session EXCEPT ![s] = "offline"]
    /\ store' = [store EXCEPT ![vehicle[s]] = NULL]
    /\ out' = [out EXCEPT ![s] = Pending(route[s], Offline(vehicle[s]))]
    /\ UNCHANGED <<vehicle, route, call, sent, watch, mailbox, view, dropped>>

(* UpdateSeats, and the seat a boarding scan takes.                           *)
UpdateSeats(c, v, msg) ==
    /\ call[c] = "idle"
    /\ msg.kind # "move"
    /\ vehicle' = [vehicle EXCEPT ![c] = v]
    /\ ApplyMessage(c, v, msg)
    /\ call' = [call EXCEPT ![c] = IF store[v] = NULL THEN "conflict" ELSE "publish"]
    /\ UNCHANGED <<session, route, sent, watch, mailbox, view, dropped>>

-----------------------------------------------------------------------------
(* Mutant: the handler subscribes after it has written the snapshot.          *)
SubscribedLate(w, r) == RouteOf[w] = r /\ watch[w] = "open"

Subscribed(w, r) == RouteOf[w] = r /\ watch[w] # "idle"

(* Mutant: a full mailbox makes the publisher wait.                           *)
PublishWaits(r, event) ==
    /\ \A w \in Watchers : Subscribed(w, r) => Len(mailbox[w]) < eventBuffer
    /\ mailbox' = [w \in Watchers |->
                      IF Subscribed(w, r) THEN Append(mailbox[w], event) ELSE mailbox[w]]
    /\ UNCHANGED dropped

(* Hub.Publish: a subscriber whose mailbox is full loses the event.           *)
Publish(r, event) ==
    LET fits(w) == Len(mailbox[w]) < eventBuffer
    IN  /\ mailbox' = [w \in Watchers |->
                          IF Subscribed(w, r) /\ fits(w)
                          THEN Append(mailbox[w], event) ELSE mailbox[w]]
        /\ dropped' = dropped \cup {w \in Watchers : Subscribed(w, r) /\ ~ fits(w)}

PublishSession(s) ==
    /\ out[s] # NULL
    /\ Publish(out[s].route, out[s].event)
    /\ out' = [out EXCEPT ![s] = NULL]
    /\ session' = [session EXCEPT ![s] =
                      IF @ = "online" THEN "open" ELSE IF @ = "offline" THEN "done" ELSE @]
    /\ UNCHANGED <<store, vehicle, route, call, sent, watch, view>>

PublishCall(c) ==
    /\ out[c] # NULL
    /\ Publish(out[c].route, out[c].event)
    /\ out' = [out EXCEPT ![c] = NULL]
    /\ call' = [call EXCEPT ![c] = "done"]
    /\ UNCHANGED <<store, session, vehicle, route, sent, watch, view>>

-----------------------------------------------------------------------------
(* CommuterWS: subscribe, read the snapshot, write it, then forward events.   *)
Subscribe(w) ==
    /\ watch[w] = "idle"
    /\ watch' = [watch EXCEPT ![w] = "subscribed"]
    /\ UNCHANGED <<store, session, vehicle, route, call, out, sent, mailbox, view, dropped>>

(* ListByRoute.                                                               *)
OnRoute(r) ==
    [v \in Vehicles |->
        IF store[v] # NULL /\ store[v].route = r THEN store[v].seats ELSE NULL]

Snapshot(w) ==
    /\ watch[w] = "subscribed"
    /\ watch' = [watch EXCEPT ![w] = "snapshot"]
    /\ view' = [view EXCEPT ![w] = OnRoute(RouteOf[w])]
    /\ UNCHANGED <<store, session, vehicle, route, call, out, sent, mailbox, dropped>>

WriteSnapshot(w) ==
    /\ watch[w] = "snapshot"
    /\ watch' = [watch EXCEPT ![w] = "open"]
    /\ UNCHANGED <<store, session, vehicle, route, call, out, sent, mailbox, view, dropped>>

(* An event is written to the socket and applied by the app.                  *)
Deliver(w) ==
    /\ watch[w] = "open" /\ mailbox[w] # <<>>
    /\ LET event == Head(mailbox[w])
       IN  view' = [view EXCEPT ![w][event.vehicle] =
                       IF event.type = "update" THEN event.seats ELSE NULL]
    /\ mailbox' = [mailbox EXCEPT ![w] = Tail(@)]
    /\ UNCHANGED <<store, session, vehicle, route, call, out, sent, watch, dropped>>

(* The socket closes; the app forgets what it showed and will reconnect.      *)
Disconnect(w) ==
    /\ watch[w] # "idle"
    /\ watch' = [watch EXCEPT ![w] = "idle"]
    /\ mailbox' = [mailbox EXCEPT ![w] = <<>>]
    /\ view' = [view EXCEPT ![w] = [v \in Vehicles |-> NULL]]
    /\ dropped' = dropped \ {w}
    /\ UNCHANGED <<store, session, vehicle, route, call, out, sent>>

Next ==
    \/ \E s \in Sessions :
           \/ \E v \in Vehicles, r \in Routes : GoOnline(s, v, r)
           \/ \E msg \in Messages : Receive(s, msg)
           \/ GoOffline(s)
           \/ PublishSession(s)
    \/ \E c \in Callers :
           \/ \E v \in Vehicles, msg \in Messages : UpdateSeats(c, v, msg)
           \/ PublishCall(c)
    \/ \E w \in Watchers :
           \/ Subscribe(w)
           \/ Snapshot(w)
           \/ WriteSnapshot(w)
           \/ Deliver(w)
           \/ Disconnect(w)

Spec == Init /\ [][Next]_vars

(* A handler that has something to publish goes on.  Nothing is assumed of    *)
(* the drivers, who may stay connected, nor of the commuters, who may never   *)
(* read another event.                                                        *)
FairSpec ==
    /\ Spec
    /\ \A s \in Sessions : WF_vars(PublishSession(s))
    /\ \A c \in Callers : WF_vars(PublishCall(c))

-----------------------------------------------------------------------------
(* Types; seat counts stay within the vehicle wherever they are shown, and a  *)
(* mailbox within its channel.                                                *)
TypeOK ==
    /\ store \in [Vehicles -> VehicleState \cup {NULL}]
    /\ vehicle \in [Sessions \cup Callers -> Vehicles \cup {NULL}]
    /\ session \in [Sessions -> {"idle", "online", "open", "offline", "done"}]
    /\ call \in [Callers -> {"idle", "publish", "conflict", "done"}]
    /\ watch \in [Watchers -> {"idle", "subscribed", "snapshot", "open"}]
    /\ route \in [Sessions -> Routes \cup {NULL}]
    /\ out \in [Sessions \cup Callers -> [route : Routes, event : Event] \cup {NULL}]
    /\ sent \in [Sessions -> 0 .. MaxMessages]
    /\ mailbox \in [Watchers -> Seq(Event)]
    /\ \A w \in Watchers : Len(mailbox[w]) <= eventBuffer
    /\ view \in [Watchers -> [Vehicles -> Seats \cup {NULL}]]
    /\ dropped \subseteq Watchers

(* No vehicle stays on the map when every connection of its driver is gone,   *)
(* however messages, scans and reconnections overlapped.                      *)
NoGhostVehicle ==
    \A v \in Vehicles :
        (\A s \in Sessions : vehicle[s] = v => session[s] \in {"idle", "done"})
            => store[v] = NULL

(* A watcher that has caught up and lost nothing shows a vehicle with one     *)
(* writer exactly as it is: subscribing before the snapshot leaves no gap.    *)
(* (Several writers may publish their updates out of order: see README.)      *)
CaughtUpViewIsCurrent ==
    \A w \in Watchers, v \in Vehicles :
        LET writers == {a \in Sessions \cup Callers : vehicle[a] = v}
        IN  (/\ watch[w] = "open" /\ mailbox[w] = <<>> /\ w \notin dropped
             /\ Cardinality(writers) <= 1 /\ \A a \in writers : out[a] = NULL)
                => view[w][v] = OnRoute(RouteOf[w])[v]

(* Driver ingestion never waits for a commuter: what a handler has to publish *)
(* gets published though no watcher ever reads its mailbox.                   *)
PublisherNeverWaits ==
    \A a \in Sessions \cup Callers : out[a] # NULL ~> out[a] = NULL

(* "The vehicle is marked online for the duration of the connection"          *)
OnlineWhileConnected ==
    \A s \in Sessions : session[s] \in {"online", "open"} => store[vehicle[s]] # NULL
=============================================================================
