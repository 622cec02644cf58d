--------------------------- MODULE TelemetryProofs ---------------------------
(* Proofs, for any number of drivers' connections, seat updates, commuters,   *)
(* vehicles and routes and channels of any size, that live vehicle state      *)
(* keeps its types, that no vehicle stays on the map without a connection,    *)
(* and that a commuter who has caught up sees a vehicle as it is.             *)
EXTENDS Telemetry, FiniteSetTheorems, TLAPS

(* Who writes to the vehicle store.                                           *)
Actors == Sessions \cup Callers

(* An actor has a vehicle, and a session a route, from its first step on, and *)
(* what it publishes is about that vehicle.                                   *)
ActorsFit ==
    /\ \A s \in Sessions : IF session[s] = "idle" THEN vehicle[s] = NULL /\ out[s] = NULL
                           ELSE vehicle[s] \in Vehicles /\ route[s] \in Routes
    /\ \A c \in Callers : call[c] = "idle" => vehicle[c] = NULL /\ out[c] = NULL
    /\ \A a \in Actors : out[a] # NULL => out[a].event.vehicle = vehicle[a]

(* A vehicle that is online has a connection that will take it offline.       *)
Connected ==
    \A v \in Vehicles : store[v] # NULL =>
        \E s \in Sessions : vehicle[s] = v /\ session[s] \in {"online", "open"}

(* Mailboxes hold events of vehicles somebody has written to, and nothing     *)
(* when nobody reads them.                                                    *)
MailboxesFit ==
    \A w \in Watchers :
        /\ watch[w] = "idle" => mailbox[w] = <<>>
        /\ \A i \in DOMAIN mailbox[w] :
               \E a \in Actors : vehicle[a] = mailbox[w][i].vehicle

(* What the app shows of a vehicle after an event, and what it should show.   *)
Shows(event) == IF event.type = "update" THEN event.seats ELSE NULL
(* What a map of route r should show of v.                                    *)
Current(r, v) == IF store[v] # NULL /\ store[v].route = r THEN store[v].seats ELSE NULL

(* A vehicle with one writer at most.                                         *)
Lone(v) == \A a, b \in Actors : vehicle[a] = v /\ vehicle[b] = v => a = b

(* Nothing about v is about to be published on r.                             *)
Quiet(r, v) == \A a \in Actors : vehicle[a] = v /\ out[a] # NULL => out[a].route # r

(* The events of a mailbox about v, and the last of them.                     *)
IsAbout(box, v, i) == i \in DOMAIN box /\ box[i].vehicle = v
IsLastAbout(box, v, i) == IsAbout(box, v, i) /\ \A j \in DOMAIN box : j > i => box[j].vehicle # v

(* The writer of a lone vehicle is a session; the vehicle is on its route,    *)
(* and what it is about to publish is how the vehicle is.                     *)
WriterFits(v) ==
    \A a \in Actors : vehicle[a] = v =>
        /\ out[a] # NULL => /\ a \in Sessions /\ out[a].route = route[a]
                            /\ Shows(out[a].event) = Current(route[a], v)
        /\ store[v] # NULL => a \in Sessions /\ store[v].route = route[a]

(* A watcher that has lost nothing shows a lone vehicle as it is, or else the *)
(* last event about it in the mailbox says how it is, or else that is about   *)
(* to be published.                                                           *)
WatcherFits(w, v) ==
    Quiet(RouteOf[w], v) =>
        /\ \A i \in Nat : IsLastAbout(mailbox[w], v, i) =>
               Shows(mailbox[w][i]) = Current(RouteOf[w], v)
        /\ watch[w] \in {"snapshot", "open"} /\ (\A i \in Nat : ~ IsAbout(mailbox[w], v, i)) =>
               view[w][v] = Current(RouteOf[w], v)

(* What holds of a vehicle with one writer.                                   *)
LoneFits ==
    \A v \in Vehicles : Lone(v) =>
        /\ WriterFits(v)
        /\ \A w \in Watchers \ dropped : WatcherFits(w, v)

(* The inductive invariant.                                                   *)
TelemetryInv ==
    /\ TypeOK
    /\ ActorsFit
    /\ Connected
    /\ MailboxesFit
    /\ LoneFits

-----------------------------------------------------------------------------
(* Seat counts are clamped to the vehicle.                                    *)
LEMMA ClampSeats ==
    ASSUME NEW n \in Int PROVE clamp(n, 0, Capacity) \in Seats
BY TelemetryAssumption DEF clamp, Seats

(* A message leaves the seats within the vehicle.                             *)
LEMMA MessageSeats ==
    ASSUME NEW msg \in Messages, NEW n \in Seats PROVE SeatsAfter(msg, n) \in Seats
<1>1. msg.n \in Int /\ n \in Int /\ n + msg.n \in Int
  BY TelemetryAssumption DEF Messages, Seats
<1> QED
  BY <1>1, ClampSeats DEF SeatsAfter

(* What the constructors make.                                                *)
LEMMA Constructors ==
    ASSUME NEW r \in Routes, NEW v \in Vehicles, NEW n \in Seats
    PROVE  /\ State(r, n) \in VehicleState
           /\ State(r, n) # NULL /\ State(r, n).route = r /\ State(r, n).seats = n
           /\ Update(v, n) \in Event /\ Update(v, n).vehicle = v
           /\ Shows(Update(v, n)) = n
           /\ Offline(v) \in Event /\ Offline(v).vehicle = v /\ Shows(Offline(v)) = NULL
<1>1. 0 \in Seats
  BY TelemetryAssumption DEF Seats
<1> QED
  BY <1>1, NullAssumption DEF State, Update, Offline, Shows, Event, Seats, VehicleState

(* An event to be published is not NULL and keeps its route.                  *)
LEMMA PendingEvent ==
    ASSUME NEW r \in Routes, NEW e \in Event
    PROVE  /\ Pending(r, e) \in [route : Routes, event : Event]
           /\ Pending(r, e) # NULL /\ Pending(r, e).route = r /\ Pending(r, e).event = e
BY NullAssumption DEF Pending

-----------------------------------------------------------------------------
(* What a mailbox holds are events, ...                                       *)
LEMMA MailEvent ==
    ASSUME TypeOK, NEW w \in Watchers, NEW i \in DOMAIN mailbox[w]
    PROVE  mailbox[w] \in Seq(Event) /\ mailbox[w][i] \in Event
<1>1. mailbox[w] \in Seq(Event)
  BY DEF TypeOK
<1> QED
  BY <1>1

(* ... one more at its end takes nothing back about another vehicle, ...      *)
LEMMA AppendOther ==
    ASSUME NEW box \in Seq(Event), NEW e \in Event, NEW u, e.vehicle # u
    PROVE  \A i \in Nat :
               /\ IsAbout(Append(box, e), u, i) <=> IsAbout(box, u, i)
               /\ IsLastAbout(Append(box, e), u, i) => IsLastAbout(box, u, i)
               /\ IsAbout(box, u, i) => Append(box, e)[i] = box[i]
<1> DEFINE n == Len(box)
           more == Append(box, e)
<1>1. /\ n \in Nat /\ DOMAIN box = 1 .. n /\ DOMAIN more = 1 .. (n + 1)
      /\ \A j \in 1 .. n : more[j] = box[j]
      /\ more[n + 1] = e
  OBVIOUS
<1> HIDE DEF n, more
<1> TAKE i \in Nat
<1>2. /\ IsAbout(more, u, i) <=> IsAbout(box, u, i)
      /\ IsAbout(box, u, i) => more[i] = box[i]
  BY <1>1 DEF IsAbout
<1>3. ASSUME IsLastAbout(more, u, i) PROVE IsLastAbout(box, u, i)
  <2>1. \A j \in DOMAIN box : j \in DOMAIN more /\ more[j] = box[j]
    BY <1>1
  <2> QED
    BY <1>2, <1>3, <2>1 DEF IsLastAbout
<1> QED
  BY <1>2, <1>3 DEF more

(* ... and is the last about its own, ...                                     *)
LEMMA AppendSame ==
    ASSUME NEW box \in Seq(Event), NEW e \in Event, NEW u, e.vehicle = u
    PROVE  /\ \A i \in Nat : IsLastAbout(Append(box, e), u, i) => Append(box, e)[i] = e
           /\ \E i \in Nat : IsAbout(Append(box, e), u, i)
<1> DEFINE n == Len(box)
           more == Append(box, e)
<1>1. n \in Nat /\ DOMAIN more = 1 .. (n + 1) /\ more[n + 1] = e
  OBVIOUS
<1> HIDE DEF n, more
<1>2. n + 1 \in Nat /\ IsAbout(more, u, n + 1)
  BY <1>1 DEF IsAbout
<1>3. ASSUME NEW i \in Nat, IsLastAbout(more, u, i) PROVE more[i] = e
  <2>1. ~ (n + 1 > i) /\ i \in 1 .. (n + 1)
    BY <1>1, <1>2, <1>3 DEF IsLastAbout, IsAbout
  <2>2. i = n + 1
    BY <1>1, <2>1
  <2> QED
    BY <1>1, <2>2
<1> QED
  BY <1>2, <1>3 DEF more

(* ... and without its first one it says what it said of every vehicle but,   *)
(* perhaps, the first one's.                                                  *)
LEMMA TailAbout ==
    ASSUME NEW box \in Seq(Event), box # <<>>, NEW u
    PROVE  /\ \A i \in Nat : IsLastAbout(Tail(box), u, i) =>
                  IsLastAbout(box, u, i + 1) /\ Tail(box)[i] = box[i + 1]
           /\ (\A i \in Nat : ~ IsAbout(Tail(box), u, i)) =>
                  IF Head(box).vehicle = u THEN IsLastAbout(box, u, 1) /\ box[1] = Head(box)
                  ELSE \A i \in Nat : ~ IsAbout(box, u, i)
<1> DEFINE n == Len(box)
           rest == Tail(box)
<1>1. /\ n \in Nat /\ n > 0 /\ DOMAIN box = 1 .. n /\ DOMAIN rest = 1 .. (n - 1)
      /\ \A j \in 1 .. (n - 1) : rest[j] = box[j + 1]
      /\ box[1] = Head(box)
  OBVIOUS
<1> HIDE DEF n, rest
<1>2. \A j \in 1 .. n : j # 1 => j - 1 \in 1 .. (n - 1) /\ rest[j - 1] = box[j]
  <2> TAKE j \in 1 .. n
  <2>1. j # 1 => j - 1 \in 1 .. (n - 1) /\ (j - 1) + 1 = j
    BY <1>1
  <2> QED
    BY <1>1, <2>1
<1>3. ASSUME NEW i \in Nat, IsLastAbout(rest, u, i)
      PROVE  IsLastAbout(box, u, i + 1) /\ rest[i] = box[i + 1]
  <2>1. i \in 1 .. (n - 1) /\ rest[i].vehicle = u /\ rest[i] = box[i + 1] /\ i + 1 \in 1 .. n
    BY <1>1, <1>3 DEF IsLastAbout, IsAbout
  <2>2. ASSUME NEW j \in 1 .. n, j > i + 1 PROVE box[j].vehicle # u
    <3>1. j # 1 /\ j - 1 > i
      BY <2>1, <2>2
    <3> QED
      BY <1>1, <1>2, <1>3, <3>1 DEF IsLastAbout
  <2> QED
    BY <1>1, <2>1, <2>2 DEF IsLastAbout, IsAbout
<1>4. ASSUME \A i \in Nat : ~ IsAbout(rest, u, i)
      PROVE  \A j \in 1 .. n : j # 1 => box[j].vehicle # u
  <2> TAKE j \in 1 .. n
  <2> HAVE j # 1
  <2>1. j - 1 \in Nat /\ j - 1 \in DOMAIN rest /\ rest[j - 1] = box[j]
    BY <1>1, <1>2
  <2> QED
    BY <1>4, <2>1 DEF IsAbout
<1>5. ASSUME \A i \in Nat : ~ IsAbout(rest, u, i)
      PROVE  IF Head(box).vehicle = u THEN IsLastAbout(box, u, 1) /\ box[1] = Head(box)
             ELSE \A i \in Nat : ~ IsAbout(box, u, i)
  <2>1. \A j \in DOMAIN box : j # 1 => box[j].vehicle # u
    BY <1>1, <1>4, <1>5
  <2>2. 1 \in DOMAIN box /\ \A j \in DOMAIN box : j > 1 => j # 1
    BY <1>1
  <2>3. CASE Head(box).vehicle = u
    BY <1>1, <2>1, <2>2, <2>3 DEF IsLastAbout, IsAbout
  <2>4. CASE Head(box).vehicle # u
    BY <1>1, <2>1, <2>4 DEF IsAbout
  <2> QED
    BY <2>3, <2>4
<1> QED
  BY <1>3, <1>5 DEF rest

-----------------------------------------------------------------------------
(* The start satisfies the invariant.                                         *)
LEMMA TelemetryInit == Init => TelemetryInv
<1> SUFFICES ASSUME Init PROVE TelemetryInv
  OBVIOUS
<1> USE TelemetryAssumption DEF Init
<1>1. TypeOK
  BY DEF TypeOK, Actors, Event, Seats, VehicleState
<1>2. ActorsFit /\ Connected /\ MailboxesFit
  BY DEF ActorsFit, Connected, MailboxesFit, Actors
<1>3. LoneFits
  BY NullAssumption
     DEF LoneFits, WriterFits, WatcherFits, Current, IsLastAbout, IsAbout, Actors
<1> QED
  BY <1>1, <1>2, <1>3 DEF TelemetryInv

-----------------------------------------------------------------------------
(* A step that does not concern vehicle u, ...                                *)
Spares(u) ==
    /\ store'[u] = store[u]
    /\ \A a \in Actors : /\ vehicle'[a] = u <=> vehicle[a] = u
                         /\ vehicle[a] = u => /\ out'[a] = out[a]
                                              /\ a \in Sessions => route'[a] = route[a]

(* ... leaves its writers as they were.                                       *)
LEMMA SparedWriter ==
    ASSUME LoneFits, NEW u \in Vehicles, Spares(u), Lone(u)'
    PROVE  /\ Lone(u) /\ WriterFits(u)'
           /\ \A r : (Quiet(r, u)' <=> Quiet(r, u)) /\ Current(r, u)' = Current(r, u)
<1>1. Lone(u)
  BY DEF Lone, Spares
<1>2. \A r : (Quiet(r, u)' <=> Quiet(r, u)) /\ Current(r, u)' = Current(r, u)
  BY DEF Quiet, Current, Spares
<1>3. WriterFits(u)
  BY <1>1 DEF LoneFits
<1>4. WriterFits(u)'
  <2> SUFFICES ASSUME NEW a \in Actors, vehicle'[a] = u
               PROVE  /\ out'[a] # NULL =>
                             /\ a \in Sessions /\ out'[a].route = route'[a]
                             /\ Shows(out'[a].event) = Current(route[a], u)'
                      /\ store'[u] # NULL => a \in Sessions /\ store'[u].route = route'[a]
    BY DEF WriterFits, Shows
  <2>1. /\ vehicle[a] = u /\ out'[a] = out[a] /\ (a \in Sessions => route'[a] = route[a])
        /\ store'[u] = store[u]
    BY DEF Spares
  <2>2. a \in Sessions => Current(route[a], u)' = Current(route[a], u)
    BY <2>1 DEF Current
  <2> QED
    BY <1>3, <2>1, <2>2 DEF WriterFits
<1> QED
  BY <1>1, <1>2, <1>4

(* Its watchers too, if their mailboxes and views stay as they are.           *)
LEMMA SparedWatcher ==
    ASSUME LoneFits, NEW u \in Vehicles, Spares(u), Lone(u)',
           NEW w \in Watchers \ dropped,
           mailbox'[w] = mailbox[w], view'[w] = view[w], watch'[w] = watch[w]
    PROVE  WatcherFits(w, u)'
<1>1. WatcherFits(w, u)
  BY SparedWriter DEF LoneFits
<1>2. /\ Quiet(RouteOf[w], u)' <=> Quiet(RouteOf[w], u)
      /\ Current(RouteOf[w], u)' = Current(RouteOf[w], u)
  BY SparedWriter
<1> QED
  BY <1>1, <1>2 DEF WatcherFits, IsLastAbout, IsAbout, Shows

(* Mailboxes stay fit when nobody leaves the vehicle it writes to.            *)
LEMMA StillMail ==
    ASSUME TypeOK, MailboxesFit, UNCHANGED <<watch, mailbox>>,
           \A a \in Actors : vehicle[a] # NULL => vehicle'[a] = vehicle[a]
    PROVE  MailboxesFit'
<1> SUFFICES ASSUME NEW w \in Watchers, NEW i \in DOMAIN mailbox[w]
             PROVE  \E a \in Actors : vehicle'[a] = mailbox[w][i].vehicle
  BY DEF MailboxesFit
<1>1. PICK a \in Actors : vehicle[a] = mailbox[w][i].vehicle
  BY DEF MailboxesFit
<1>2. mailbox[w][i] \in Event
  BY MailEvent
<1>3. vehicle[a] # NULL
  BY <1>1, <1>2, NullAssumption DEF Event
<1> QED
  BY <1>1, <1>3

(* An actor changes its vehicle in the store and has its event to publish.    *)
LEMMA WriteFits ==
    ASSUME TelemetryInv, NEW a \in Actors, NEW v \in Vehicles,
           NEW r \in Routes, NEW e \in Event,
           vehicle[a] \in {v, NULL}, out[a] = NULL,
           vehicle' = [vehicle EXCEPT ![a] = v],
           out' = [out EXCEPT ![a] = Pending(r, e)],
           NEW x, store' = [store EXCEPT ![v] = x],
           \A s \in Sessions : s # a => route'[s] = route[s],
           vehicle[a] = v /\ a \in Sessions => route'[a] = route[a],
           Lone(v)' => /\ a \in Sessions /\ route'[a] = r
                       /\ x # NULL => x.route = r
                       /\ Shows(e) = Current(r, v)',
           UNCHANGED <<watch, mailbox, view, dropped>>
    PROVE  LoneFits'
<1>1. /\ TypeOK /\ LoneFits /\ Connected
      /\ \A b \in Actors : b # a => vehicle'[b] = vehicle[b] /\ out'[b] = out[b]
      /\ vehicle'[a] = v /\ out'[a] = Pending(r, e)
      /\ store'[v] = x
      /\ \A u \in Vehicles : u # v => store'[u] = store[u]
  BY DEF TelemetryInv, TypeOK, Actors
<1>2. ASSUME NEW u \in Vehicles, u # v PROVE Spares(u)
  BY <1>1, <1>2, NullAssumption DEF Spares
<1>3. ASSUME NEW u \in Vehicles, u # v, Lone(u)'
      PROVE  WriterFits(u)' /\ \A w \in Watchers \ dropped' : WatcherFits(w, u)'
  BY <1>1, <1>2, <1>3, SparedWriter, SparedWatcher
<1>4. ASSUME Lone(v)'
      PROVE  WriterFits(v)' /\ \A w \in Watchers \ dropped' : WatcherFits(w, v)'
  <2>1. \A b \in Actors : vehicle'[b] = v <=> b = a
    BY <1>1, <1>4 DEF Lone
  <2>2. Lone(v)
    BY <1>1, <2>1 DEF Lone
  <2>3. WriterFits(v)'
    <3>1. Shows(Pending(r, e).event) = Shows(e)
      BY PendingEvent
    <3> QED
      BY <1>1, <1>4, <2>1, <3>1, PendingEvent DEF WriterFits, Shows
  <2>4. ASSUME NEW w \in Watchers \ dropped', Quiet(RouteOf[w], v)'
        PROVE  WatcherFits(w, v)'
    <3>1. RouteOf[w] # r
      BY <1>1, <2>1, <2>4, PendingEvent DEF Quiet
    <3>2. Current(RouteOf[w], v)' = NULL
      BY <1>1, <1>4, <3>1 DEF Current
    <3>3. Current(RouteOf[w], v) = NULL
      <4>1. ASSUME store[v] # NULL PROVE store[v].route = r
        <5>1. PICK s \in Sessions : vehicle[s] = v
          BY <1>1, <4>1 DEF Connected
        <5>2. s = a
          BY <1>1, <2>1, <5>1 DEF Actors
        <5> QED
          BY <1>1, <1>4, <2>2, <4>1, <5>1, <5>2 DEF LoneFits, WriterFits, Actors
      <4> QED
        BY <3>1, <4>1 DEF Current
    <3>4. Quiet(RouteOf[w], v)
      BY <1>1, <2>1 DEF Quiet
    <3>5. WatcherFits(w, v)
      BY <1>1, <2>2 DEF LoneFits
    <3> QED
      BY <3>2, <3>3, <3>4, <3>5 DEF WatcherFits, IsLastAbout, IsAbout, Shows
  <2> QED
    BY <2>3, <2>4 DEF WatcherFits
<1> QED
  BY <1>3, <1>4 DEF LoneFits

-----------------------------------------------------------------------------
(* GoOnline keeps the invariant, ...                                          *)
LEMMA OnlineStep ==
    ASSUME TelemetryInv, NEW s \in Sessions, NEW v \in Vehicles, NEW r \in Routes,
           GoOnline(s, v, r)
    PROVE  TelemetryInv'
<1> DEFINE n == IF store[v] = NULL THEN Capacity ELSE clamp(store[v].seats, 0, Capacity)
<1>1. /\ TypeOK /\ session[s] = "idle" /\ s \in Actors /\ s \notin Callers
      /\ vehicle[s] = NULL /\ out[s] = NULL
  BY ActorsAssumption DEF TelemetryInv, ActorsFit, GoOnline, Actors
<1>2. n \in Seats
  <2>1. Capacity \in Seats
    BY TelemetryAssumption DEF Seats
  <2>2. store[v] # NULL => store[v].seats \in Int
    BY <1>1 DEF TypeOK, VehicleState, Seats
  <2> QED
    BY <2>1, <2>2, ClampSeats
<1>3. /\ store' = [store EXCEPT ![v] = State(r, n)]
      /\ out' = [out EXCEPT ![s] = Pending(r, Update(v, n))]
      /\ vehicle' = [vehicle EXCEPT ![s] = v]
      /\ route' = [route EXCEPT ![s] = r]
      /\ session' = [session EXCEPT ![s] = "online"]
      /\ UNCHANGED <<call, sent, watch, mailbox, view, dropped>>
  BY DEF GoOnline
<1> HIDE DEF n
<1>4. /\ State(r, n) \in VehicleState /\ State(r, n) # NULL /\ State(r, n).route = r
      /\ State(r, n).seats = n /\ Update(v, n) \in Event
      /\ Update(v, n).vehicle = v /\ Shows(Update(v, n)) = n
  BY <1>2, Constructors
<1>5. /\ Pending(r, Update(v, n)) \in [route : Routes, event : Event]
      /\ Pending(r, Update(v, n)) # NULL /\ Pending(r, Update(v, n)).event = Update(v, n)
  BY <1>4, PendingEvent
<1>6. TypeOK'
  BY <1>1, <1>3, <1>4, <1>5 DEF TypeOK, Actors
<1>7. /\ \A q \in Sessions : q # s => /\ session'[q] = session[q] /\ route'[q] = route[q]
      /\ \A a \in Actors : a # s => vehicle'[a] = vehicle[a] /\ out'[a] = out[a]
      /\ session'[s] = "online" /\ vehicle'[s] = v /\ route'[s] = r
      /\ out'[s] = Pending(r, Update(v, n))
      /\ store'[v] = State(r, n) /\ \A u \in Vehicles : u # v => store'[u] = store[u]
  BY <1>1, <1>3 DEF TypeOK, Actors
<1>8. ActorsFit'
  BY <1>1, <1>3, <1>4, <1>5, <1>7 DEF TelemetryInv, ActorsFit, Actors
<1>9. Connected'
  BY <1>1, <1>7, NullAssumption DEF TelemetryInv, Connected, Actors
<1>10. MailboxesFit'
  BY <1>1, <1>3, <1>7, StillMail DEF TelemetryInv
<1>11. LoneFits'
  <2>1. Shows(Update(v, n)) = Current(r, v)'
    BY <1>4, <1>7 DEF Current
  <2>2. /\ vehicle[s] \in {v, NULL} /\ vehicle[s] # v
        /\ \A q \in Sessions : q # s => route'[q] = route[q]
        /\ route'[s] = r /\ State(r, n).route = r
    BY <1>1, <1>4, <1>7, NullAssumption
  <2> HIDE DEF TelemetryInv
  <2> QED
    BY <1>1, <1>3, <1>4, <2>1, <2>2, WriteFits
<1> QED
  BY <1>6, <1>8, <1>9, <1>10, <1>11 DEF TelemetryInv

(* ... a message for a vehicle nobody tracks changes nothing, ...             *)
LEMMA IgnoredStep ==
    ASSUME TelemetryInv, NEW s \in Sessions, NEW msg \in Messages,
           Receive(s, msg), store[vehicle[s]] = NULL
    PROVE  TelemetryInv'
<1>1. /\ TypeOK /\ sent' = [sent EXCEPT ![s] = @ + 1] /\ sent[s] < MaxMessages
      /\ UNCHANGED <<store, out, session, vehicle, route, call, watch, mailbox, view, dropped>>
  BY DEF TelemetryInv, Receive, ApplyMessage
<1>2. sent' \in [Sessions -> 0 .. MaxMessages]
  BY <1>1, TelemetryAssumption DEF TypeOK
<1>3. TypeOK'
  BY <1>1, <1>2 DEF TypeOK
<1>4. ActorsFit' /\ Connected' /\ MailboxesFit'
  BY <1>1 DEF TelemetryInv, ActorsFit, Connected, MailboxesFit
<1>5. LoneFits'
  <2>1. \A u \in Vehicles : Spares(u)
    BY <1>1 DEF Spares
  <2> QED
    BY <1>1, <2>1, SparedWriter, SparedWatcher DEF TelemetryInv, LoneFits
<1> QED
  BY <1>3, <1>4, <1>5 DEF TelemetryInv

(* ... a session's message changes its vehicle, ...                           *)
LEMMA ReceiveStep ==
    ASSUME TelemetryInv, NEW s \in Sessions, NEW msg \in Messages,
           Receive(s, msg), store[vehicle[s]] # NULL
    PROVE  TelemetryInv'
<1>1. /\ TypeOK /\ session[s] = "open" /\ s \in Actors /\ s \notin Callers
      /\ vehicle[s] \in Vehicles /\ route[s] \in Routes /\ out[s] = NULL
      /\ vehicle \in [Actors -> Vehicles \cup {NULL}]
  BY ActorsAssumption DEF TelemetryInv, ActorsFit, Receive, Actors, TypeOK
<1>2. /\ store[vehicle[s]] \in VehicleState
      /\ store[vehicle[s]].route \in Routes /\ store[vehicle[s]].seats \in Seats
  BY <1>1 DEF TypeOK, VehicleState
<1>3. PICK v \in Vehicles, r \in Routes, q \in Routes, n \in Seats :
          /\ v = vehicle[s] /\ r = route[s]
          /\ q = store[vehicle[s]].route /\ n = SeatsAfter(msg, store[vehicle[s]].seats)
  BY <1>1, <1>2, MessageSeats
<1>4. /\ store' = [store EXCEPT ![v] = State(@.route, n)]
      /\ out' = [out EXCEPT ![s] = Pending(r, Update(v, n))]
      /\ sent' = [sent EXCEPT ![s] = @ + 1] /\ sent[s] < MaxMessages
      /\ UNCHANGED <<session, vehicle, route, call, watch, mailbox, view, dropped>>
  BY <1>1, <1>3 DEF Receive, ApplyMessage
<1>5. store' = [store EXCEPT ![v] = State(q, n)]
  BY <1>3, <1>4
<1>6. /\ State(q, n) \in VehicleState /\ State(q, n) # NULL /\ State(q, n).route = q
      /\ State(q, n).seats = n /\ Update(v, n) \in Event
      /\ Update(v, n).vehicle = v /\ Shows(Update(v, n)) = n
  BY <1>1, <1>2, <1>3, Constructors
<1>7. /\ Pending(r, Update(v, n)) \in [route : Routes, event : Event]
      /\ Pending(r, Update(v, n)) # NULL /\ Pending(r, Update(v, n)).event = Update(v, n)
  BY <1>1, <1>6, PendingEvent
<1>8. TypeOK'
  <2>1. sent' \in [Sessions -> 0 .. MaxMessages]
    BY <1>1, <1>4, TelemetryAssumption DEF TypeOK
  <2>2. store' \in [Vehicles -> VehicleState \cup {NULL}]
    BY <1>1, <1>5, <1>6 DEF TypeOK
  <2>3. out' \in [Sessions \cup Callers -> [route : Routes, event : Event] \cup {NULL}]
    BY <1>1, <1>4, <1>7 DEF TypeOK
  <2> QED
    BY <1>1, <1>4, <2>1, <2>2, <2>3 DEF TypeOK
<1>9. /\ \A a \in Actors : a # s => out'[a] = out[a]
      /\ out'[s] = Pending(r, Update(v, n))
      /\ store'[v] = State(q, n) /\ \A u \in Vehicles : u # v => store'[u] = store[u]
  BY <1>1, <1>4, <1>5 DEF TypeOK, Actors
<1>10. ActorsFit'
  <2>1. ActorsFit /\ out'[s] # NULL /\ out'[s].event.vehicle = vehicle'[s]
    BY <1>3, <1>4, <1>6, <1>7, <1>9 DEF TelemetryInv
  <2>2. ASSUME NEW u \in Sessions
        PROVE  IF session'[u] = "idle" THEN vehicle'[u] = NULL /\ out'[u] = NULL
               ELSE vehicle'[u] \in Vehicles /\ route'[u] \in Routes
    BY <1>1, <1>4, <1>9, <2>1 DEF ActorsFit, Actors
  <2>3. ASSUME NEW c \in Callers, call'[c] = "idle" PROVE vehicle'[c] = NULL /\ out'[c] = NULL
    BY <1>1, <1>4, <1>9, <2>1, <2>3 DEF ActorsFit, Actors
  <2>4. ASSUME NEW a \in Actors, out'[a] # NULL PROVE out'[a].event.vehicle = vehicle'[a]
    BY <1>4, <1>9, <2>1, <2>4 DEF ActorsFit
  <2> QED
    BY <2>2, <2>3, <2>4 DEF ActorsFit
<1>11. Connected'
  BY <1>1, <1>3, <1>4, <1>9 DEF TelemetryInv, Connected
<1>12. MailboxesFit'
  BY <1>4 DEF TelemetryInv, MailboxesFit
<1>13. LoneFits'
  <2>1. Lone(v)' => q = r
    BY <1>1, <1>3, <1>4, NullAssumption DEF TelemetryInv, LoneFits, WriterFits, Lone
  <2>2. Lone(v)' => Shows(Update(v, n)) = Current(r, v)'
    BY <1>6, <1>9, <2>1 DEF Current
  <2>3. /\ vehicle[s] \in {v, NULL} /\ vehicle' = [vehicle EXCEPT ![s] = v]
        /\ \A p \in Sessions : p # s => route'[p] = route[p]
        /\ route'[s] = r /\ route'[s] = route[s]
    BY <1>1, <1>3, <1>4
  <2>4. Lone(v)' => State(q, n).route = r
    BY <1>6, <2>1
  <2>5. /\ out' = [out EXCEPT ![s] = Pending(r, Update(v, n))]
        /\ UNCHANGED <<watch, mailbox, view, dropped>>
    BY <1>4
  <2> HIDE DEF TelemetryInv
  <2> QED
    BY <1>1, <1>5, <1>6, <2>2, <2>3, <2>4, <2>5, WriteFits
<1> QED
  BY <1>8, <1>10, <1>11, <1>12, <1>13 DEF TelemetryInv

(* ... and its end takes it offline.                                          *)
LEMMA OfflineStep ==
    ASSUME TelemetryInv, NEW s \in Sessions, GoOffline(s) PROVE TelemetryInv'
<1>1. /\ TypeOK /\ session[s] = "open" /\ s \in Actors /\ s \notin Callers
      /\ vehicle[s] \in Vehicles /\ route[s] \in Routes /\ out[s] = NULL
      /\ vehicle \in [Actors -> Vehicles \cup {NULL}]
  BY ActorsAssumption DEF TelemetryInv, ActorsFit, GoOffline, Actors, TypeOK
<1>0. PICK v \in Vehicles, r \in Routes : v = vehicle[s] /\ r = route[s]
  BY <1>1
<1>2. /\ store' = [store EXCEPT ![v] = NULL]
      /\ out' = [out EXCEPT ![s] = Pending(r, Offline(v))]
      /\ session' = [session EXCEPT ![s] = "offline"]
      /\ UNCHANGED <<vehicle, route, call, sent, watch, mailbox, view, dropped>>
  BY <1>0 DEF GoOffline
<1>3. Offline(v) \in Event /\ Offline(v).vehicle = v /\ Shows(Offline(v)) = NULL
  <2>1. 0 \in Seats
    BY TelemetryAssumption DEF Seats
  <2> QED
    BY <1>1, <2>1, Constructors
<1>4. /\ Pending(r, Offline(v)) \in [route : Routes, event : Event]
      /\ Pending(r, Offline(v)) # NULL /\ Pending(r, Offline(v)).event = Offline(v)
  BY <1>1, <1>3, PendingEvent
<1>5. TypeOK'
  <2>1. out' \in [Sessions \cup Callers -> [route : Routes, event : Event] \cup {NULL}]
    BY <1>1, <1>2, <1>4 DEF TypeOK
  <2> QED
    BY <1>1, <1>2, <2>1 DEF TypeOK
<1>6. /\ \A a \in Actors : a # s => out'[a] = out[a]
      /\ \A p \in Sessions : p # s => session'[p] = session[p]
      /\ session'[s] = "offline" /\ out'[s] = Pending(r, Offline(v))
      /\ store'[v] = NULL /\ \A u \in Vehicles : u # v => store'[u] = store[u]
  BY <1>1, <1>2 DEF TypeOK, Actors
<1>7. ActorsFit'
  BY <1>0, <1>1, <1>2, <1>3, <1>4, <1>6 DEF TelemetryInv, ActorsFit, Actors
<1>8. Connected'
  BY <1>0, <1>1, <1>2, <1>6 DEF TelemetryInv, Connected
<1>9. MailboxesFit'
  BY <1>2 DEF TelemetryInv, MailboxesFit
<1>10. LoneFits'
  <2>1. Shows(Offline(v)) = Current(r, v)'
    BY <1>3, <1>6 DEF Current
  <2>2. /\ vehicle[s] \in {v, NULL} /\ vehicle' = [vehicle EXCEPT ![s] = v]
        /\ \A p \in Sessions : p # s => route'[p] = route[p]
        /\ route'[s] = r /\ route'[s] = route[s]
    BY <1>0, <1>1, <1>2
  <2> HIDE DEF TelemetryInv
  <2> QED
    BY <1>1, <1>2, <1>3, <2>1, <2>2, WriteFits
<1> QED
  BY <1>5, <1>7, <1>8, <1>9, <1>10 DEF TelemetryInv

(* A seat update of a tracked vehicle writes beside its session: the vehicle  *)
(* is not lone.                                                               *)
LEMMA SeatsStep ==
    ASSUME TelemetryInv, NEW c \in Callers, NEW v \in Vehicles, NEW msg \in Messages,
           UpdateSeats(c, v, msg), store[v] # NULL
    PROVE  TelemetryInv'
<1>1. /\ TypeOK /\ call[c] = "idle" /\ c \in Actors /\ c \notin Sessions
      /\ vehicle[c] = NULL /\ out[c] = NULL
      /\ vehicle \in [Actors -> Vehicles \cup {NULL}]
  BY ActorsAssumption DEF TelemetryInv, ActorsFit, UpdateSeats, Actors, TypeOK
<1>2. /\ store[v] \in VehicleState
      /\ store[v].route \in Routes /\ store[v].seats \in Seats
  BY <1>1 DEF TypeOK, VehicleState
<1>3. PICK r \in Routes, n \in Seats :
          r = store[v].route /\ n = SeatsAfter(msg, store[v].seats)
  BY <1>2, MessageSeats
<1>4. /\ store' = [store EXCEPT ![v] = State(@.route, n)]
      /\ out' = [out EXCEPT ![c] = Pending(r, Update(v, n))]
      /\ vehicle' = [vehicle EXCEPT ![c] = v]
      /\ call' = [call EXCEPT ![c] = "publish"]
      /\ UNCHANGED <<session, route, sent, watch, mailbox, view, dropped>>
  BY <1>1, <1>3 DEF UpdateSeats, ApplyMessage
<1>5. store' = [store EXCEPT ![v] = State(r, n)]
  BY <1>3, <1>4
<1>6. /\ State(r, n) \in VehicleState /\ State(r, n) # NULL
      /\ Update(v, n) \in Event /\ Update(v, n).vehicle = v
  BY <1>2, <1>3, Constructors
<1>7. /\ Pending(r, Update(v, n)) \in [route : Routes, event : Event]
      /\ Pending(r, Update(v, n)) # NULL /\ Pending(r, Update(v, n)).event = Update(v, n)
  BY <1>2, <1>6, PendingEvent
<1>8. TypeOK'
  <2>1. store' \in [Vehicles -> VehicleState \cup {NULL}]
    BY <1>1, <1>5, <1>6 DEF TypeOK
  <2>2. out' \in [Sessions \cup Callers -> [route : Routes, event : Event] \cup {NULL}]
    BY <1>1, <1>4, <1>7 DEF TypeOK
  <2> QED
    BY <1>1, <1>4, <2>1, <2>2 DEF TypeOK
<1>9. /\ \A a \in Actors : a # c => out'[a] = out[a] /\ vehicle'[a] = vehicle[a]
      /\ \A d \in Callers : d # c => call'[d] = call[d]
      /\ call'[c] = "publish" /\ vehicle'[c] = v /\ out'[c] = Pending(r, Update(v, n))
      /\ store'[v] # NULL /\ \A u \in Vehicles : u # v => store'[u] = store[u]
      /\ \A q \in Sessions : q # c /\ q \in Actors
  BY <1>1, <1>4, <1>5, <1>6 DEF TypeOK, Actors
<1>10. ActorsFit'
  BY <1>1, <1>4, <1>6, <1>7, <1>9 DEF TelemetryInv, ActorsFit, Actors
<1>11. Connected'
  BY <1>1, <1>4, <1>9 DEF TelemetryInv, Connected
<1>12. MailboxesFit'
  BY <1>1, <1>4, <1>9, StillMail DEF TelemetryInv
<1>13. LoneFits'
  <2>1. ~ Lone(v)'
    <3>1. PICK s \in Sessions : vehicle[s] = v
      BY DEF TelemetryInv, Connected
    <3> QED
      BY <1>1, <1>9, <3>1 DEF Lone
  <2>2. /\ vehicle[c] \in {v, NULL}
        /\ \A p \in Sessions : p # c => route'[p] = route[p]
    BY <1>1, <1>4
  <2>3. /\ out' = [out EXCEPT ![c] = Pending(r, Update(v, n))]
        /\ vehicle' = [vehicle EXCEPT ![c] = v]
        /\ UNCHANGED <<watch, mailbox, view, dropped>>
    BY <1>4
  <2> HIDE DEF TelemetryInv
  <2> QED
    BY <1>1, <1>5, <1>6, <2>1, <2>2, <2>3, WriteFits
<1> QED
  BY <1>8, <1>10, <1>11, <1>12, <1>13 DEF TelemetryInv

(* A seat update of a vehicle nobody tracks is refused.                       *)
LEMMA ConflictStep ==
    ASSUME TelemetryInv, NEW c \in Callers, NEW v \in Vehicles, NEW msg \in Messages,
           UpdateSeats(c, v, msg), store[v] = NULL
    PROVE  TelemetryInv'
<1>1. /\ TypeOK /\ call[c] = "idle" /\ c \in Actors /\ c \notin Sessions
      /\ vehicle[c] = NULL /\ out[c] = NULL
      /\ vehicle \in [Actors -> Vehicles \cup {NULL}]
  BY ActorsAssumption DEF TelemetryInv, ActorsFit, UpdateSeats, Actors, TypeOK
<1>2. /\ vehicle' = [vehicle EXCEPT ![c] = v]
      /\ call' = [call EXCEPT ![c] = "conflict"]
      /\ UNCHANGED <<store, out, session, route, sent, watch, mailbox, view, dropped>>
  BY DEF UpdateSeats, ApplyMessage
<1>3. TypeOK'
  BY <1>1, <1>2 DEF TypeOK
<1>4. /\ \A a \in Actors : a # c => vehicle'[a] = vehicle[a]
      /\ \A d \in Callers : d # c => call'[d] = call[d]
      /\ call'[c] = "conflict" /\ vehicle'[c] = v
      /\ \A q \in Sessions : q # c /\ q \in Actors
  BY <1>1, <1>2 DEF TypeOK, Actors
<1>5. ActorsFit'
  BY <1>1, <1>2, <1>4 DEF TelemetryInv, ActorsFit, Actors
<1>6. Connected'
  BY <1>1, <1>2, <1>4 DEF TelemetryInv, Connected
<1>7. MailboxesFit'
  BY <1>1, <1>2, <1>4, StillMail DEF TelemetryInv
<1>8. LoneFits'
  <2>1. ASSUME NEW u \in Vehicles, u # v PROVE Spares(u)
    BY <1>1, <1>2, <1>4, <2>1, NullAssumption DEF Spares
  <2>2. ASSUME NEW u \in Vehicles, u # v, Lone(u)'
        PROVE  WriterFits(u)' /\ \A w \in Watchers \ dropped' : WatcherFits(w, u)'
    BY <1>2, <2>1, <2>2, SparedWriter, SparedWatcher DEF TelemetryInv
  <2>3. ASSUME Lone(v)'
        PROVE  WriterFits(v)' /\ \A w \in Watchers \ dropped' : WatcherFits(w, v)'
    <3>1. \A a \in Actors : vehicle'[a] = v => a = c
      BY <1>1, <1>4, <2>3 DEF Lone
    <3>2. Lone(v)
      BY <1>4, <2>3, <3>1 DEF Lone
    <3>3. WriterFits(v)'
      BY <1>1, <1>2, <3>1 DEF WriterFits
    <3>4. ASSUME NEW w \in Watchers \ dropped' PROVE WatcherFits(w, v)'
      <4>1. Quiet(RouteOf[w], v)
        BY <1>1, <1>4, <3>1 DEF Quiet
      <4>2. WatcherFits(w, v)
        BY <1>2, <3>2 DEF TelemetryInv, LoneFits
      <4> QED
        BY <1>2, <4>1, <4>2 DEF WatcherFits, IsLastAbout, IsAbout, Shows, Current
    <3> QED
      BY <3>3, <3>4
  <2> QED
    BY <2>2, <2>3 DEF LoneFits
<1> QED
  BY <1>3, <1>5, <1>6, <1>7, <1>8 DEF TelemetryInv

-----------------------------------------------------------------------------
(* Publishing: the event is the last one of its vehicle for those it reaches. *)
LEMMA PublishKeeps ==
    ASSUME TelemetryInv, NEW a \in Actors, out[a] # NULL,
           Publish(out[a].route, out[a].event),
           out' = [out EXCEPT ![a] = NULL],
           UNCHANGED <<store, vehicle, route, watch, view>>
    PROVE  /\ out' \in [Sessions \cup Callers -> [route : Routes, event : Event] \cup {NULL}]
           /\ mailbox' \in [Watchers -> Seq(Event)]
           /\ \A w \in Watchers : Len(mailbox'[w]) <= eventBuffer
           /\ dropped' \subseteq Watchers
           /\ MailboxesFit' /\ LoneFits'
<1>1. /\ TypeOK /\ vehicle \in [Actors -> Vehicles \cup {NULL}]
      /\ out \in [Actors -> [route : Routes, event : Event] \cup {NULL}]
      /\ mailbox \in [Watchers -> Seq(Event)]
  BY DEF TelemetryInv, TypeOK, Actors
<1>2. /\ out[a] \in [route : Routes, event : Event]
      /\ out[a].route \in Routes /\ out[a].event \in Event
      /\ out[a].event.vehicle \in Vehicles
  BY <1>1 DEF Event
<1>3. PICK r \in Routes, e \in Event, v \in Vehicles :
          r = out[a].route /\ e = out[a].event /\ v = e.vehicle
  BY <1>2
<1>4. vehicle[a] = v
  BY <1>3 DEF TelemetryInv, ActorsFit
<1>5. /\ \A b \in Actors : b # a => out'[b] = out[b]
      /\ out'[a] = NULL
  BY <1>1
<1>6. \A w \in Watchers :
          /\ Subscribed(w, r) /\ Len(mailbox[w]) < eventBuffer =>
                 mailbox'[w] = Append(mailbox[w], e)
          /\ ~ (Subscribed(w, r) /\ Len(mailbox[w]) < eventBuffer) => mailbox'[w] = mailbox[w]
  BY <1>3 DEF Publish
<1>7. /\ dropped' \subseteq Watchers /\ dropped \subseteq dropped'
      /\ \A w \in Watchers \ dropped' : Subscribed(w, r) => Len(mailbox[w]) < eventBuffer
  BY <1>1, <1>3 DEF Publish, TypeOK
<1>8. mailbox' \in [Watchers -> Seq(Event)]
  <2>1. ASSUME NEW w \in Watchers PROVE mailbox'[w] \in Seq(Event)
    <3>1. mailbox[w] \in Seq(Event)
      BY <1>1
    <3>2. Append(mailbox[w], e) \in Seq(Event)
      BY <3>1
    <3> QED
      BY <1>6, <3>1, <3>2
  <2>2. mailbox' = [w \in Watchers |-> mailbox'[w]]
    BY DEF Publish
  <2> QED
    BY <2>1, <2>2
<1>9. ASSUME NEW w \in Watchers PROVE Len(mailbox'[w]) <= eventBuffer
  <2>1. /\ Len(mailbox[w]) \in Nat /\ eventBuffer \in Nat /\ Len(mailbox[w]) <= eventBuffer
        /\ Len(Append(mailbox[w], e)) = Len(mailbox[w]) + 1
    BY <1>1, TelemetryAssumption DEF TypeOK
  <2> QED
    BY <1>6, <2>1
<1>10. MailboxesFit'
  <2>1. ASSUME NEW w \in Watchers, watch[w] = "idle" PROVE mailbox'[w] = <<>>
    BY <1>6, <2>1 DEF TelemetryInv, MailboxesFit, Subscribed
  <2>2. ASSUME NEW w \in Watchers, NEW i \in DOMAIN mailbox'[w]
        PROVE  \E b \in Actors : vehicle[b] = mailbox'[w][i].vehicle
    <3>1. CASE mailbox'[w] = mailbox[w]
      BY <2>2, <3>1 DEF TelemetryInv, MailboxesFit
    <3>2. CASE mailbox'[w] = Append(mailbox[w], e)
      <4>1. CASE i \in DOMAIN mailbox[w]
        <5>1. mailbox'[w][i] = mailbox[w][i]
          BY <1>1, <3>2, <4>1
        <5> QED
          BY <4>1, <5>1 DEF TelemetryInv, MailboxesFit
      <4>2. CASE i \notin DOMAIN mailbox[w]
        <5>1. mailbox[w] \in Seq(Event)
          BY <1>1
        <5>2. mailbox'[w][i] = e
          BY <2>2, <3>2, <4>2, <5>1
        <5> QED
          BY <1>3, <1>4, <5>2
      <4> QED
        BY <4>1, <4>2
    <3> QED
      BY <1>6, <3>1, <3>2
  <2> QED
    BY <2>1, <2>2 DEF MailboxesFit
<1>11. LoneFits'
  <2> SUFFICES ASSUME NEW u \in Vehicles, Lone(u)'
               PROVE  WriterFits(u)' /\ \A w \in Watchers \ dropped' : WatcherFits(w, u)'
    BY DEF LoneFits
  <2>1. Lone(u) /\ WriterFits(u)
    BY DEF TelemetryInv, LoneFits, Lone
  <2>2. \A q : Current(q, u)' = Current(q, u)
    BY DEF Current
  <2>3. WriterFits(u)'
    BY <1>5, <2>1 DEF WriterFits, Shows, Current
  <2>4. ASSUME NEW w \in Watchers \ dropped', Quiet(RouteOf[w], u)'
        PROVE  WatcherFits(w, u)'
    <3> DEFINE box == mailbox[w]
    <3>1. WatcherFits(w, u) /\ box \in Seq(Event) /\ w \in Watchers
      BY <1>1, <1>7, <2>1 DEF TelemetryInv, LoneFits
    <3>2. mailbox'[w] = box \/ mailbox'[w] = Append(box, e)
      BY <1>6
    <3>3. CASE u # v
      <4>1. Quiet(RouteOf[w], u)
        BY <1>4, <1>5, <2>4, <3>3 DEF Quiet
      <4>2. ASSUME NEW i \in Nat
            PROVE  /\ IsAbout(mailbox'[w], u, i) <=> IsAbout(box, u, i)
                   /\ IsLastAbout(mailbox'[w], u, i) => IsLastAbout(box, u, i)
                   /\ IsAbout(box, u, i) => mailbox'[w][i] = box[i]
        <5>1. CASE mailbox'[w] = box
          BY <5>1
        <5>2. CASE mailbox'[w] = Append(box, e)
          <6>1. e.vehicle # u /\ box \in Seq(Event) /\ e \in Event
            BY <1>3, <3>1, <3>3
          <6> HIDE DEF box
          <6>2. \A k \in Nat :
                    /\ IsAbout(Append(box, e), u, k) <=> IsAbout(box, u, k)
                    /\ IsLastAbout(Append(box, e), u, k) => IsLastAbout(box, u, k)
                    /\ IsAbout(box, u, k) => Append(box, e)[k] = box[k]
            BY <6>1, AppendOther, Zenon
          <6> QED
            BY <5>2, <6>2, Zenon
        <5> QED
          BY <3>2, <5>1, <5>2
      <4>3. ASSUME NEW i \in Nat, IsLastAbout(mailbox'[w], u, i)
            PROVE  Shows(mailbox'[w][i]) = Current(RouteOf[w], u)
        <5>1. IsLastAbout(box, u, i) /\ mailbox'[w][i] = box[i]
          BY <4>2, <4>3 DEF IsLastAbout
        <5> QED
          BY <3>1, <4>1, <5>1 DEF WatcherFits
      <4>4. ASSUME watch[w] \in {"snapshot", "open"}, \A i \in Nat : ~ IsAbout(mailbox'[w], u, i)
            PROVE  view[w][u] = Current(RouteOf[w], u)
        BY <3>1, <4>1, <4>2, <4>4 DEF WatcherFits
      <4> QED
        BY <2>2, <4>3, <4>4 DEF WatcherFits, IsLastAbout, IsAbout, Shows
    <3>4. CASE u = v /\ RouteOf[w] # r
      <4>1. mailbox'[w] = box
        BY <1>6, <3>1, <3>4 DEF Subscribed
      <4>2. Quiet(RouteOf[w], u)
        BY <1>3, <1>5, <2>4, <3>4 DEF Quiet
      <4> QED
        BY <2>2, <3>1, <4>1, <4>2 DEF WatcherFits, IsLastAbout, IsAbout, Shows
    <3>5. CASE u = v /\ RouteOf[w] = r /\ watch[w] = "idle"
      <4>1. mailbox'[w] = <<>>
        BY <1>6, <3>1, <3>5 DEF Subscribed, TelemetryInv, MailboxesFit
      <4>2. DOMAIN mailbox'[w] = {}
        BY <4>1
      <4> QED
        BY <3>5, <4>2 DEF WatcherFits, IsLastAbout, IsAbout
    <3>6. CASE u = v /\ RouteOf[w] = r /\ watch[w] # "idle"
      <4>1. mailbox'[w] = Append(box, e)
        BY <1>6, <1>7, <3>1, <3>6 DEF Subscribed
      <4>2. Shows(e) = Current(r, u)
        BY <1>3, <1>4, <2>1, <3>6 DEF WriterFits
      <4>3. \E j \in Nat : IsAbout(Append(box, e), u, j)
        BY <1>3, <3>1, <3>6, AppendSame
      <4>4. \A i \in Nat : IsLastAbout(Append(box, e), u, i) => Append(box, e)[i] = e
        <5>1. e.vehicle = u /\ box \in Seq(Event) /\ e \in Event
          BY <1>3, <3>1, <3>6
        <5> QED
          BY <5>1, AppendSame, Zenon
      <4> HIDE DEF box
      <4> QED
        BY <2>2, <3>6, <4>1, <4>2, <4>3, <4>4 DEF WatcherFits, IsLastAbout, IsAbout, Shows
    <3> QED
      BY <3>3, <3>4, <3>5, <3>6
  <2> QED
    BY <2>3, <2>4 DEF WatcherFits
<1> QED
  BY <1>5, <1>7, <1>8, <1>9, <1>10, <1>11, <1>1 DEF Actors

(* A connection publishes its event.                                          *)
LEMMA PublishSessionStep ==
    ASSUME TelemetryInv, NEW s \in Sessions, PublishSession(s) PROVE TelemetryInv'
<1>1. /\ TypeOK /\ s \in Actors /\ out[s] # NULL
      /\ Publish(out[s].route, out[s].event)
      /\ out' = [out EXCEPT ![s] = NULL]
      /\ session' = [session EXCEPT ![s] =
                         IF @ = "online" THEN "open" ELSE IF @ = "offline" THEN "done" ELSE @]
      /\ UNCHANGED <<store, vehicle, route, call, sent, watch, view>>
  BY DEF TelemetryInv, PublishSession, Actors
<1>2. /\ out' \in [Sessions \cup Callers -> [route : Routes, event : Event] \cup {NULL}]
      /\ mailbox' \in [Watchers -> Seq(Event)]
      /\ \A w \in Watchers : Len(mailbox'[w]) <= eventBuffer
      /\ dropped' \subseteq Watchers /\ MailboxesFit' /\ LoneFits'
  <2> HIDE DEF TelemetryInv
  <2> QED
    BY <1>1, PublishKeeps
<1>3. session' \in [Sessions -> {"idle", "online", "open", "offline", "done"}]
  BY <1>1 DEF TypeOK
<1>4. TypeOK'
  BY <1>1, <1>2, <1>3 DEF TypeOK
<1>5. /\ \A q \in Sessions : q # s => session'[q] = session[q]
      /\ \A a \in Actors : a # s => out'[a] = out[a]
      /\ out'[s] = NULL
      /\ session[s] # "idle" /\ session'[s] # "idle"
      /\ session[s] \in {"online", "open"} => session'[s] = "open"
  BY <1>1 DEF TypeOK, Actors, TelemetryInv, ActorsFit
<1>6. ActorsFit'
  BY <1>1, <1>5 DEF TelemetryInv, ActorsFit, Actors
<1>7. Connected'
  BY <1>1, <1>5 DEF TelemetryInv, Connected
<1> QED
  BY <1>2, <1>4, <1>6, <1>7 DEF TelemetryInv

(* A REST update publishes its event.                                         *)
LEMMA PublishCallStep ==
    ASSUME TelemetryInv, NEW c \in Callers, PublishCall(c) PROVE TelemetryInv'
<1>1. /\ TypeOK /\ c \in Actors /\ out[c] # NULL
      /\ Publish(out[c].route, out[c].event)
      /\ out' = [out EXCEPT ![c] = NULL]
      /\ call' = [call EXCEPT ![c] = "done"]
      /\ UNCHANGED <<store, session, vehicle, route, sent, watch, view>>
  BY DEF TelemetryInv, PublishCall, Actors
<1>2. /\ out' \in [Sessions \cup Callers -> [route : Routes, event : Event] \cup {NULL}]
      /\ mailbox' \in [Watchers -> Seq(Event)]
      /\ \A w \in Watchers : Len(mailbox'[w]) <= eventBuffer
      /\ dropped' \subseteq Watchers /\ MailboxesFit' /\ LoneFits'
  <2> HIDE DEF TelemetryInv
  <2> QED
    BY <1>1, PublishKeeps
<1>3. TypeOK'
  BY <1>1, <1>2 DEF TypeOK
<1>4. /\ \A d \in Callers : d # c => call'[d] = call[d]
      /\ \A a \in Actors : a # c => out'[a] = out[a]
      /\ out'[c] = NULL /\ call'[c] = "done" /\ \A q \in Sessions : q \in Actors /\ q # c
  BY <1>1, ActorsAssumption DEF TypeOK, Actors
<1>5. ActorsFit'
  BY <1>1, <1>4 DEF TelemetryInv, ActorsFit, Actors
<1>6. Connected'
  BY <1>1 DEF TelemetryInv, Connected
<1> QED
  BY <1>2, <1>3, <1>5, <1>6 DEF TelemetryInv

-----------------------------------------------------------------------------
(* A watcher's own step concerns nobody else: what is left to show is that it *)
(* fits the lone vehicles itself.                                             *)
LEMMA WatcherStep ==
    ASSUME TelemetryInv, TypeOK', NEW w \in Watchers,
           UNCHANGED <<store, session, vehicle, route, call, out>>,
           \A x \in Watchers : x # w => /\ watch'[x] = watch[x] /\ mailbox'[x] = mailbox[x]
                                        /\ view'[x] = view[x] /\ (x \in dropped' <=> x \in dropped),
           watch'[w] = "idle" => mailbox'[w] = <<>>,
           \A i \in DOMAIN mailbox'[w] : \E j \in DOMAIN mailbox[w] : mailbox'[w][i] = mailbox[w][j],
           \A v \in Vehicles :
               (w \notin dropped' /\ Lone(v) /\ Quiet(RouteOf[w], v)) => WatcherFits(w, v)'
    PROVE  TelemetryInv'
<1>1. ActorsFit' /\ Connected'
  BY DEF TelemetryInv, ActorsFit, Connected
<1>2. MailboxesFit'
  <2>1. ASSUME NEW i \in DOMAIN mailbox'[w]
        PROVE  \E a \in Actors : vehicle[a] = mailbox'[w][i].vehicle
    BY <2>1 DEF TelemetryInv, MailboxesFit
  <2> QED
    BY <2>1 DEF TelemetryInv, MailboxesFit
<1>3. \A v \in Vehicles : Spares(v)
  BY DEF Spares
<1>4. ASSUME NEW v \in Vehicles, Lone(v)'
      PROVE  WriterFits(v)' /\ \A x \in Watchers \ dropped' : WatcherFits(x, v)'
  <2>1. /\ Lone(v) /\ WriterFits(v)'
        /\ \A r : Quiet(r, v)' <=> Quiet(r, v)
    BY <1>3, <1>4, SparedWriter DEF TelemetryInv
  <2>2. ASSUME NEW x \in Watchers \ dropped', x # w PROVE WatcherFits(x, v)'
    BY <1>3, <1>4, <2>2, SparedWatcher DEF TelemetryInv
  <2>3. w \notin dropped' => WatcherFits(w, v)'
    BY <2>1 DEF WatcherFits
  <2> QED
    BY <2>1, <2>2, <2>3
<1>5. LoneFits'
  BY <1>4 DEF LoneFits
<1> QED
  BY <1>1, <1>2, <1>5 DEF TelemetryInv

(* Subscribing, and starting to forward, show nothing new, ...                *)
LEMMA SubscribeStep ==
    ASSUME TelemetryInv, NEW w \in Watchers, Subscribe(w) \/ WriteSnapshot(w)
    PROVE  TelemetryInv'
<1>1. /\ TypeOK /\ UNCHANGED <<store, session, vehicle, route, call, out, sent, mailbox, view, dropped>>
      /\ \A x \in Watchers : x # w => watch'[x] = watch[x]
      /\ \/ watch'[w] = "subscribed"
         \/ watch[w] = "snapshot" /\ watch'[w] = "open"
  BY DEF TelemetryInv, TypeOK, Subscribe, WriteSnapshot
<1>2. TypeOK'
  <2>1. watch' \in [Watchers -> {"idle", "subscribed", "snapshot", "open"}]
    BY <1>1 DEF TypeOK, Subscribe, WriteSnapshot
  <2> QED
    BY <1>1, <2>1 DEF TypeOK
<1>3. ASSUME NEW v \in Vehicles, w \notin dropped', Lone(v), Quiet(RouteOf[w], v)
      PROVE  WatcherFits(w, v)'
  <2>1. WatcherFits(w, v)
    BY <1>1, <1>3 DEF TelemetryInv, LoneFits
  <2> QED
    BY <1>1, <1>3, <2>1 DEF WatcherFits, IsLastAbout, IsAbout, Shows, Current
<1>4. /\ \A x \in Watchers : x # w => /\ watch'[x] = watch[x] /\ mailbox'[x] = mailbox[x]
                                      /\ view'[x] = view[x] /\ (x \in dropped' <=> x \in dropped)
      /\ watch'[w] = "idle" => mailbox'[w] = <<>>
      /\ \A i \in DOMAIN mailbox'[w] : \E j \in DOMAIN mailbox[w] : mailbox'[w][i] = mailbox[w][j]
  BY <1>1
<1> QED
  BY <1>1, <1>2, <1>3, <1>4, WatcherStep

(* ... the snapshot shows every vehicle of the route as it is, ...            *)
LEMMA SnapshotStep ==
    ASSUME TelemetryInv, NEW w \in Watchers, Snapshot(w) PROVE TelemetryInv'
<1>1. /\ TypeOK /\ UNCHANGED <<store, session, vehicle, route, call, out, sent, mailbox, dropped>>
      /\ watch' = [watch EXCEPT ![w] = "snapshot"]
      /\ view' = [view EXCEPT ![w] = OnRoute(RouteOf[w])]
  BY DEF TelemetryInv, Snapshot
<1>2. \A v \in Vehicles : OnRoute(RouteOf[w])[v] = Current(RouteOf[w], v)
  BY DEF OnRoute, Current
<1>3. OnRoute(RouteOf[w]) \in [Vehicles -> Seats \cup {NULL}]
  BY <1>1 DEF OnRoute, TypeOK, VehicleState
<1>4. TypeOK'
  BY <1>1, <1>3 DEF TypeOK
<1>5. /\ watch'[w] = "snapshot" /\ view'[w] = OnRoute(RouteOf[w])
      /\ \A x \in Watchers : x # w => watch'[x] = watch[x] /\ view'[x] = view[x]
  BY <1>1 DEF TypeOK
<1>6. ASSUME NEW v \in Vehicles, w \notin dropped', Lone(v), Quiet(RouteOf[w], v)
      PROVE  WatcherFits(w, v)'
  <2>1. WatcherFits(w, v)
    BY <1>1, <1>6 DEF TelemetryInv, LoneFits
  <2>2. view'[w][v] = Current(RouteOf[w], v)
    BY <1>2, <1>5
  <2> QED
    BY <1>1, <1>6, <2>1, <2>2 DEF WatcherFits, IsLastAbout, IsAbout, Shows, Current
<1>7. /\ \A x \in Watchers : x # w => /\ watch'[x] = watch[x] /\ mailbox'[x] = mailbox[x]
                                      /\ view'[x] = view[x] /\ (x \in dropped' <=> x \in dropped)
      /\ watch'[w] = "idle" => mailbox'[w] = <<>>
      /\ \A i \in DOMAIN mailbox'[w] : \E j \in DOMAIN mailbox[w] : mailbox'[w][i] = mailbox[w][j]
  BY <1>1, <1>5
<1> QED
  BY <1>1, <1>4, <1>6, <1>7, WatcherStep

(* ... an event moves what the mailbox says to the map, ...                   *)
LEMMA DeliverStep ==
    ASSUME TelemetryInv, NEW w \in Watchers, Deliver(w) PROVE TelemetryInv'
<1> DEFINE box == mailbox[w]
           event == Head(mailbox[w])
<1>1. /\ TypeOK /\ UNCHANGED <<store, session, vehicle, route, call, out, sent, watch, dropped>>
      /\ watch[w] = "open" /\ box # <<>>
      /\ mailbox' = [mailbox EXCEPT ![w] = Tail(@)]
      /\ view' = [view EXCEPT ![w][event.vehicle] = Shows(event)]
  BY DEF TelemetryInv, Deliver, Shows
<1>2. box \in Seq(Event)
  BY <1>1 DEF TypeOK
<1>3. /\ event \in Event /\ Tail(box) \in Seq(Event)
      /\ Len(Tail(box)) = Len(box) - 1 /\ Len(box) \in Nat
      /\ \A i \in DOMAIN Tail(box) : i + 1 \in DOMAIN box /\ Tail(box)[i] = box[i + 1]
  BY <1>1, <1>2
<1>4. event.vehicle \in Vehicles /\ Shows(event) \in Seats \cup {NULL}
  BY <1>3 DEF Event, Shows
<1>5. /\ mailbox'[w] = Tail(box)
      /\ view'[w] = [view[w] EXCEPT ![event.vehicle] = Shows(event)]
      /\ \A x \in Watchers : x # w => mailbox'[x] = mailbox[x] /\ view'[x] = view[x]
  BY <1>1 DEF TypeOK
<1>6. TypeOK'
  <2>1. mailbox' \in [Watchers -> Seq(Event)]
    BY <1>1, <1>3 DEF TypeOK
  <2>2. \A x \in Watchers : Len(mailbox'[x]) <= eventBuffer
    <3>1. Len(box) <= eventBuffer
      BY <1>1 DEF TypeOK
    <3>2. Len(mailbox'[w]) <= eventBuffer
      BY <1>3, <1>5, <3>1, TelemetryAssumption
    <3> QED
      BY <1>1, <1>5, <3>2 DEF TypeOK
  <2>3. view' \in [Watchers -> [Vehicles -> Seats \cup {NULL}]]
    <3>1. view[w] \in [Vehicles -> Seats \cup {NULL}]
      BY <1>1 DEF TypeOK
    <3>2. [view[w] EXCEPT ![event.vehicle] = Shows(event)] \in [Vehicles -> Seats \cup {NULL}]
      BY <1>4, <3>1
    <3>3. view' = [view EXCEPT ![w] = [view[w] EXCEPT ![event.vehicle] = Shows(event)]]
      BY <1>1
    <3> QED
      BY <1>1, <3>2, <3>3 DEF TypeOK
  <2> QED
    BY <1>1, <2>1, <2>2, <2>3 DEF TypeOK
<1>7. ASSUME NEW v \in Vehicles, w \notin dropped', Lone(v), Quiet(RouteOf[w], v)
      PROVE  WatcherFits(w, v)'
  <2>1. WatcherFits(w, v)
    BY <1>1, <1>7 DEF TelemetryInv, LoneFits
  <2> HIDE DEF box, event
  <2>2. ASSUME NEW i \in Nat, IsLastAbout(Tail(box), v, i)
        PROVE  Shows(Tail(box)[i]) = Current(RouteOf[w], v)
    <3>1. box # <<>>
      BY <1>1
    <3>2. IsLastAbout(box, v, i + 1) /\ Tail(box)[i] = box[i + 1]
      BY <1>2, <2>2, <3>1, TailAbout, Zenon
    <3>3. i + 1 \in Nat
      OBVIOUS
    <3> QED
      BY <1>7, <2>1, <3>2, <3>3 DEF WatcherFits, box
  <2>3. ASSUME \A i \in Nat : ~ IsAbout(Tail(box), v, i)
        PROVE  view'[w][v] = Current(RouteOf[w], v)
    <3>0. view[w] \in [Vehicles -> Seats \cup {NULL}]
      BY <1>1 DEF TypeOK
    <3>1. CASE event.vehicle = v
      <4>1. IsLastAbout(box, v, 1) /\ box[1] = event /\ 1 \in Nat
        BY <1>1, <1>2, <2>3, <3>1, TailAbout DEF event, box
      <4>2. Shows(event) = Current(RouteOf[w], v)
        BY <1>7, <2>1, <4>1 DEF WatcherFits, box
      <4> QED
        BY <1>5, <3>0, <3>1, <4>2
    <3>2. CASE event.vehicle # v
      <4>1. \A i \in Nat : ~ IsAbout(box, v, i)
        BY <1>1, <1>2, <2>3, <3>2, TailAbout DEF event, box
      <4>2. view[w][v] = Current(RouteOf[w], v)
        BY <1>1, <1>7, <2>1, <4>1 DEF WatcherFits, box
      <4> QED
        BY <1>5, <3>0, <3>2, <4>2
    <3> QED
      BY <3>1, <3>2
  <2>4. /\ mailbox'[w] = Tail(box) /\ Current(RouteOf[w], v)' = Current(RouteOf[w], v)
    BY <1>1, <1>5 DEF Current
  <2>5. \A i \in Nat : IsLastAbout(mailbox'[w], v, i) =>
            Shows(mailbox'[w][i]) = Current(RouteOf[w], v)'
    BY <2>2, <2>4
  <2> QED
    BY <2>3, <2>4, <2>5 DEF WatcherFits, IsLastAbout, IsAbout, Shows
<1>8. /\ \A x \in Watchers : x # w => /\ watch'[x] = watch[x] /\ mailbox'[x] = mailbox[x]
                                      /\ view'[x] = view[x] /\ (x \in dropped' <=> x \in dropped)
      /\ watch'[w] = "idle" => mailbox'[w] = <<>>
      /\ \A i \in DOMAIN mailbox'[w] : \E j \in DOMAIN mailbox[w] : mailbox'[w][i] = mailbox[w][j]
  <2>1. \A i \in DOMAIN mailbox'[w] : \E j \in DOMAIN mailbox[w] : mailbox'[w][i] = mailbox[w][j]
    BY <1>3, <1>5
  <2> QED
    BY <1>1, <1>5, <2>1
<1> QED
  BY <1>1, <1>6, <1>7, <1>8, WatcherStep

(* ... and a socket that closes leaves nothing to be wrong about.             *)
LEMMA DisconnectStep ==
    ASSUME TelemetryInv, NEW w \in Watchers, Disconnect(w) PROVE TelemetryInv'
<1>1. /\ TypeOK /\ UNCHANGED <<store, session, vehicle, route, call, out, sent>>
      /\ watch' = [watch EXCEPT ![w] = "idle"]
      /\ mailbox' = [mailbox EXCEPT ![w] = <<>>]
      /\ view' = [view EXCEPT ![w] = [v \in Vehicles |-> NULL]]
      /\ dropped' = dropped \ {w}
  BY DEF TelemetryInv, Disconnect
<1>2. TypeOK'
  <2>1. <<>> \in Seq(Event) /\ Len(<<>>) <= eventBuffer
    BY TelemetryAssumption
  <2> QED
    BY <1>1, <2>1 DEF TypeOK
<1>3. /\ watch'[w] = "idle" /\ mailbox'[w] = <<>> /\ DOMAIN mailbox'[w] = {}
      /\ \A x \in Watchers : x # w => /\ watch'[x] = watch[x] /\ mailbox'[x] = mailbox[x]
                                      /\ view'[x] = view[x] /\ (x \in dropped' <=> x \in dropped)
  BY <1>1 DEF TypeOK
<1>4. \A v \in Vehicles : WatcherFits(w, v)'
  BY <1>3 DEF WatcherFits, IsLastAbout, IsAbout
<1>5. \A i \in DOMAIN mailbox'[w] : \E j \in DOMAIN mailbox[w] : mailbox'[w][i] = mailbox[w][j]
  BY <1>3
<1> QED
  BY <1>1, <1>2, <1>3, <1>4, <1>5, WatcherStep

-----------------------------------------------------------------------------
(* Every step keeps the invariant.                                            *)
LEMMA TelemetryNext == TelemetryInv /\ [Next]_vars => TelemetryInv'
<1> SUFFICES ASSUME TelemetryInv, [Next]_vars PROVE TelemetryInv'
  OBVIOUS
<1>1. CASE UNCHANGED vars
  <2>1. TypeOK' /\ ActorsFit' /\ Connected' /\ MailboxesFit'
    BY <1>1 DEF vars, TelemetryInv, TypeOK, ActorsFit, Connected, MailboxesFit
  <2>2. \A v \in Vehicles : Spares(v)
    BY <1>1 DEF vars, Spares
  <2>3. LoneFits'
    BY <1>1, <2>2, SparedWriter, SparedWatcher DEF vars, TelemetryInv, LoneFits
  <2> QED
    BY <2>1, <2>3 DEF TelemetryInv
<1>2. ASSUME NEW s \in Sessions, NEW v \in Vehicles, NEW r \in Routes, GoOnline(s, v, r)
      PROVE  TelemetryInv'
  BY <1>2, OnlineStep
<1>3. ASSUME NEW s \in Sessions, NEW msg \in Messages, Receive(s, msg) PROVE TelemetryInv'
  BY <1>3, IgnoredStep, ReceiveStep
<1>4. ASSUME NEW s \in Sessions, GoOffline(s) \/ PublishSession(s) PROVE TelemetryInv'
  BY <1>4, OfflineStep, PublishSessionStep
<1>5. ASSUME NEW c \in Callers, NEW v \in Vehicles, NEW msg \in Messages, UpdateSeats(c, v, msg)
      PROVE  TelemetryInv'
  BY <1>5, SeatsStep, ConflictStep
<1>6. ASSUME NEW c \in Callers, PublishCall(c) PROVE TelemetryInv'
  BY <1>6, PublishCallStep
<1>7. ASSUME NEW w \in Watchers,
             Subscribe(w) \/ Snapshot(w) \/ WriteSnapshot(w) \/ Deliver(w) \/ Disconnect(w)
      PROVE  TelemetryInv'
  BY <1>7, SubscribeStep, SnapshotStep, DeliverStep, DisconnectStep
<1> HIDE DEF TelemetryInv
<1> QED
  BY <1>1, <1>2, <1>3, <1>4, <1>5, <1>6, <1>7 DEF Next

(* The inductive invariant holds in every state.                              *)
LEMMA TelemetrySafe == Spec => []TelemetryInv
BY TelemetryInit, TelemetryNext, PTL DEF Spec

(* Live state has its types: seat counts stay within the vehicle in the       *)
(* store, in every event and on every map, and a mailbox within its channel.  *)
THEOREM TypeCorrect == Spec => []TypeOK
<1>1. TelemetryInv => TypeOK
  BY DEF TelemetryInv
<1> QED
  BY <1>1, TelemetrySafe, PTL

(* No vehicle stays on the map without a connection of its driver.            *)
THEOREM NoGhost == Spec => []NoGhostVehicle
<1>1. TelemetryInv => NoGhostVehicle
  BY DEF TelemetryInv, Connected, NoGhostVehicle
<1> QED
  BY <1>1, TelemetrySafe, PTL

(* A watcher that has caught up and lost nothing shows a vehicle with one     *)
(* writer exactly as it is.                                                   *)
THEOREM ViewIsCurrent == Spec => []CaughtUpViewIsCurrent
<1>1. TelemetryInv => CaughtUpViewIsCurrent
  <2> SUFFICES ASSUME TelemetryInv, NEW w \in Watchers, NEW v \in Vehicles,
                      watch[w] = "open", mailbox[w] = <<>>, w \notin dropped,
                      Cardinality({a \in Sessions \cup Callers : vehicle[a] = v}) <= 1,
                      \A a \in {b \in Sessions \cup Callers : vehicle[b] = v} : out[a] = NULL
               PROVE  view[w][v] = OnRoute(RouteOf[w])[v]
    BY DEF CaughtUpViewIsCurrent
  <2> DEFINE writers == {a \in Sessions \cup Callers : vehicle[a] = v}
  <2>1. IsFiniteSet(writers)
    BY ActorsAssumption, FS_Union, FS_Subset
  <2>2. Lone(v)
    <3> SUFFICES ASSUME NEW a \in Actors, NEW b \in Actors, vehicle[a] = v, vehicle[b] = v, a # b
                 PROVE  FALSE
      BY DEF Lone
    <3>1. {a, b} \subseteq writers
      BY DEF Actors
    <3>2. Cardinality({a, b}) = 2
      <4>1. IsFiniteSet({a}) /\ Cardinality({a}) = 1
        BY FS_Singleton
      <4>2. Cardinality({a} \cup {b}) = 2
        <5>1. b \notin {a}
          OBVIOUS
        <5>2. Cardinality({a} \cup {b}) = Cardinality({a}) + 1
          BY <4>1, <5>1, FS_AddElement, Zenon
        <5>3. Cardinality({a} \cup {b}) = 1 + 1
          BY <4>1, <5>2, Zenon
        <5> QED
          BY <5>3
      <4>3. {a} \cup {b} = {a, b}
        OBVIOUS
      <4> QED
        BY <4>2, <4>3
    <3>3. Cardinality({a, b}) <= Cardinality(writers)
      BY <2>1, <3>1, FS_Subset
    <3>4. Cardinality(writers) \in Nat
      BY <2>1, FS_CardinalityType
    <3> QED
      BY <3>2, <3>3, <3>4
  <2>3. Quiet(RouteOf[w], v)
    BY DEF Quiet, Actors
  <2>4. WatcherFits(w, v)
    BY <2>2 DEF TelemetryInv, LoneFits
  <2>5. \A i \in Nat : ~ IsAbout(mailbox[w], v, i)
    BY DEF IsAbout
  <2> QED
    BY <2>3, <2>4, <2>5 DEF WatcherFits, OnRoute, Current
<1> QED
  BY <1>1, TelemetrySafe, PTL
=============================================================================
