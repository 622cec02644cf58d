----------------------------- MODULE RouteSearch -----------------------------
(* The path search of internal/routing/graph.go, as operators on a network:   *)
(* the routes in the order in which they are searched, each [route, legs]     *)
(* with its legs [from, to, fare] in increasing sequence.                     *)
EXTENDS Integers, FiniteSetsExt, SequencesExt, Sql

(* routeStopOrder: the stops a route walks, ...                               *)
stopsOf(legs) ==
    IF legs = <<>> THEN <<>> ELSE <<legs[1].from>> \o [i \in DOMAIN legs |-> legs[i].to]

(* ... and the position of a stop among them: its last visit, 0 if there is   *)
(* none.                                                                      *)
position(legs, s) == SelectLastInSeq(stopsOf(legs), LAMBDA x : x = s)

SumFares(legs) == SumOver(DOMAIN legs, [i \in DOMAIN legs |-> legs[i].fare])

(* Mutant: routes are ridden in both directions.                              *)
RidesBothWays(r, o, d) == 0 < position(r.legs, o) /\ 0 < position(r.legs, d)

(* directSegment: whether, and how, route r is ridden from o to d.            *)
Rides(r, o, d) == 0 < position(r.legs, o) /\ position(r.legs, o) < position(r.legs, d)

directSegment(r, o, d) ==
    LET legs == SubSeq(r.legs, position(r.legs, o), position(r.legs, d) - 1)
    IN  [route |-> r.route, legs |-> legs, fare |-> SumFares(legs)]

NoPath == [transfers |-> 0, fare |-> 0, segments |-> <<>>]

Path(segments) ==
    [transfers |-> Len(segments) - 1, fare |-> SumFares(segments), segments |-> segments]

(* The routes that offer a direct ride, and the rides with one interchange:   *)
(* a route, another one, and the position on the first where it is left.      *)
Direct(net, o, d) == {i \in DOMAIN net : Rides(net[i], o, d)}

Interchanges(net, o, d) ==
    {t \in UNION {{i} \X (DOMAIN net) \X (1 .. Len(stopsOf(net[i].legs))) : i \in DOMAIN net} :
        LET at == stopsOf(net[t[1]].legs)
        IN  /\ net[t[1]].route # net[t[2]].route
            /\ Rides(net[t[1]], o, at[t[3]])
            /\ Rides(net[t[2]], at[t[3]], d)}

Change(net, t, o, d) ==
    LET at == stopsOf(net[t[1]].legs)[t[3]]
    IN  Path(<<directSegment(net[t[1]], o, at), directSegment(net[t[2]], at, d)>>)

(* The order of the three nested loops.                                       *)
Before(t, u) ==
    \/ t[1] < u[1]
    \/ t[1] = u[1] /\ t[2] < u[2]
    \/ t[1] = u[1] /\ t[2] = u[2] /\ t[3] <= u[3]

(* Search: the first of the cheapest direct rides, else the first of the      *)
(* cheapest with one interchange, else nothing.                               *)
Search(net, o, d) ==
    LET ride(i)   == Path(<<directSegment(net[i], o, d)>>)
        direct    == Direct(net, o, d)
        cheapRide == {i \in direct : \A j \in direct : ride(i).fare <= ride(j).fare}
        change(t) == Change(net, t, o, d)
        changes   == Interchanges(net, o, d)
        cheapChange == {t \in changes : \A u \in changes : change(t).fare <= change(u).fare}
    IN  IF o = d THEN NoPath
        ELSE IF direct # {} THEN ride(Min(cheapRide))
        ELSE IF changes # {}
             THEN change(CHOOSE t \in cheapChange : \A u \in cheapChange : Before(t, u))
        ELSE NoPath

-----------------------------------------------------------------------------
(* What the search is for, without positions: a ride is any stretch of legs   *)
(* of one route, a journey one ride or two on different routes.               *)
Stretches(r, o, d) ==
    {s \in {SubSeq(r.legs, ij[1], ij[2]) : ij \in (DOMAIN r.legs) \X (DOMAIN r.legs)} :
        s # <<>> /\ s[1].from = o /\ Last(s).to = d}

RideFares(r, o, d) == {SumFares(s) : s \in Stretches(r, o, d)}

JourneyFares(net, o, d, transfers) ==
    IF transfers = 0
    THEN UNION {RideFares(net[i], o, d) : i \in DOMAIN net}
    ELSE LET at == UNION {ToSet(stopsOf(net[i].legs)) : i \in DOMAIN net}
             changes == {t \in (DOMAIN net) \X (DOMAIN net) \X at : net[t[1]].route # net[t[2]].route}
             both(t) == RideFares(net[t[1]], o, t[3]) \X RideFares(net[t[2]], t[3], d)
         IN  UNION {{f[1] + f[2] : f \in both(t)} : t \in changes}

(* The routes that the search is right about: legs that join and never come   *)
(* back to a stop, or a single leg, which may be a loop.                      *)
Simple(legs) ==
    /\ \A i \in 1 .. Len(legs) - 1 : legs[i].to = legs[i + 1].from
    /\ IsInjective(stopsOf(legs))

Searchable(legs) == Len(legs) = 1 \/ Simple(legs)

(* The path has as few transfers as there can be, and with so many none is    *)
(* cheaper; no path means there is no journey.                                *)
BestJourney(net, o, d, path) ==
    LET fares(k) == JourneyFares(net, o, d, k)
    IN  IF path = NoPath
        THEN o = d \/ (fares(0) = {} /\ fares(1) = {})
        ELSE /\ o # d
             /\ \A k \in 0 .. path.transfers - 1 : fares(k) = {}
             /\ path.fare \in fares(path.transfers)
             /\ \A f \in fares(path.transfers) : path.fare <= f
=============================================================================
