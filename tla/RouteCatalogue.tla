---------------------------- MODULE RouteCatalogue ----------------------------
(* The tables of stops, routes, legs and route geometries, the tools that an  *)
(* operator runs over them while the server answers requests, and those       *)
(* requests: cmd/seed (SeedCorridors), cmd/importcatalogue (Import),          *)
(* cmd/clearcatalogue (DeleteCatalogueData), cmd/cleanup, and the handlers    *)
(* Search, GetRoute and ListStops of internal/routing.  An action is one      *)
(* statement, or the statements of one get-or-create, whose rows no other     *)
(* tool writes.  The runs of one tool follow each other; a run can die        *)
(* between any two statements.                                                *)
EXTENDS RouteSearch

CONSTANTS
    Features,           \* the file: [id, origin, dest, points, metres], as a sequence
    Blank,              \* a blank origin or destination
    variantCanonical,   \* the rank name of each spelling
    BaseCents, PerKmCents, MinFareCents, MaxFareCents,
    SeedStops,          \* names of the seeded stops, as a sequence
    ForwardCorridors,   \* [name, legs], as a sequence
    reverseRouteNames,  \* the name of each corridor's return trip
    Leftovers,          \* what integration tests left: [name, from, to, fare]
    StopNames, RouteNames,      \* all names there are
    NameOrder,          \* the route names in the database's order
    Questions,          \* pairs of stop names that Search is asked for
    Plans,              \* bounds: how often each tool is run, passes and requests are made
    NULL

ASSUME CatalogueAssumption ==
    /\ MinFareCents <= MaxFareCents
    /\ NameOrder \in Seq(RouteNames) /\ ToSet(NameOrder) = RouteNames
    /\ Questions \subseteq StopNames \X StopNames

VARIABLES
    stops, routes,      \* rows [name, n, source]; a name's rows differ in n
    legs,               \* rows [route, seq, from, to, fare]
    geoms,              \* routes with a row in route_geometries
    codes,              \* boarding_pass_codes: [route, old]; old: past the grace
    made,               \* rows ever inserted, by table and name
    imp, sdr,           \* where Import and SeedCorridors are
    tx,                 \* where the two deleting tools are, and what they deleted
    req,                \* where the request is
    left,               \* runs, passes and requests still to come
    halted              \* routes whose row of the file, or whose legs, a run left unfinished

tables == <<stops, routes, legs, geoms>>
vars == <<tables, codes, made, imp, sdr, tx, req, left, halted>>

-----------------------------------------------------------------------------
(* ParseGeoJSON, prepareRows and routeName: the rows of the file.  Every rank *)
(* has a coordinate, since a row has at least two points.                     *)
Normalize(raw) == variantCanonical[raw]

Clamp(n) == Max({MinFareCents, Min({MaxFareCents, n})})

(* PerKmCents * metres / 1000, rounded to the nearest cent.                   *)
EstimateFareCents(metres) == Clamp(BaseCents + (2 * PerKmCents * metres + 1000) \div 2000)

routeName(origin, dest, id) == <<origin, dest, id>>

Rows ==
    LET kept == SelectSeq(Features, LAMBDA f : f.origin # Blank /\ f.dest # Blank)
    IN  [i \in DOMAIN kept |->
            LET f == kept[i]
            IN  [name |-> routeName(Normalize(f.origin), Normalize(f.dest), f.id),
                 from |-> Normalize(f.origin), to |-> Normalize(f.dest),
                 fare |-> EstimateFareCents(f.metres), points |-> f.points]]

ParseOK == \A i \in DOMAIN Rows : Rows[i].points >= 2

(* reverseRoute and buildSeedRoutes.                                          *)
reverseRoute(c) ==
    [name |-> reverseRouteNames[c.name],
     legs |-> [i \in DOMAIN c.legs |->
                  LET l == Reverse(c.legs)[i] IN [from |-> l.to, to |-> l.from, fare |-> l.fare]]]

SeedRoutes ==
    ForwardCorridors \o [i \in DOMAIN ForwardCorridors |-> reverseRoute(ForwardCorridors[i])]

(* The names that cmd/cleanup matches.                                        *)
routeNamePatterns == {x.name : x \in Leftovers}
stopNamePatterns == {x.from : x \in Leftovers} \cup {x.to : x \in Leftovers}

(* The names of the file's ranks, which Normalize writes in capitals, and of  *)
(* its routes, which end in the id of their feature, are not those of the     *)
(* seeded corridors, and the tests' names are neither.                        *)
FileStops == {x.from : x \in ToSet(Rows)} \cup {x.to : x \in ToSet(Rows)}
FileRoutes == {x.name : x \in ToSet(Rows)}
SeedRouteNames == {c.name : c \in ToSet(SeedRoutes)}

ASSUME NamesAssumption ==
    /\ Rows \in Seq([name : RouteNames, from : StopNames, to : StopNames, fare : Int, points : Int])
    /\ SeedStops \in Seq(StopNames) \ {<<>>}
    /\ LET Leg == [from : ToSet(SeedStops), to : ToSet(SeedStops), fare : Int]
       IN  SeedRoutes \in Seq([name : RouteNames, legs : Seq(Leg) \ {<<>>}]) \ {<<>>}
    /\ stopNamePatterns \subseteq StopNames /\ routeNamePatterns \subseteq RouteNames
    /\ FileStops \cap (ToSet(SeedStops) \cup stopNamePatterns) = {}
    /\ FileRoutes \cap (SeedRouteNames \cup routeNamePatterns) = {}
    /\ ToSet(SeedStops) \cap stopNamePatterns = {}
    /\ SeedRouteNames \cap routeNamePatterns = {}

(* A row of the file, a corridor and a test's route each have a name of their *)
(* own, and a corridor never comes back to a stop.                            *)
ASSUME RoutesAssumption ==
    /\ \A x, y \in ToSet(Rows) : x.name = y.name => x = y
    /\ \A c, d \in ToSet(SeedRoutes) : c.name = d.name => c = d
    /\ \A c \in ToSet(SeedRoutes) : Simple(c.legs)
    /\ IsFiniteSet(Leftovers)
    /\ \A x \in Leftovers : x.fare \in Int
    /\ \A x, y \in Leftovers : x.name = y.name => x = y

(* No route is the absent one.                                                *)
ASSUME NullAssumption == NULL \notin [name : RouteNames, n : Nat, source : {"seed", "catalogue"}]

-----------------------------------------------------------------------------
(* Statements *)

Row(t, name, source) == [name |-> name, n |-> made[t][name] + 1, source |-> source]
Count(t, name) == made' = [made EXCEPT ![t][name] = @ + 1]

Named(table, name) == {x \in table : x.name = name}
FromCatalogue(table) == {x \in table : x.source = "catalogue"}

LegsOf(view, r) == {l \in view : l.route = r}
Uses(l, s) == l.from = s \/ l.to = s

(* ListLegsForRoute: ORDER BY sequence.                                       *)
ListLegsForRoute(r) == OrderBy(LegsOf(legs, r), [l \in LegsOf(legs, r) |-> l.seq])

(* ListRoutes: ORDER BY name.                                                 *)
ListRoutes ==
    OrderBy(routes, [r \in routes |-> CHOOSE i \in DOMAIN NameOrder : NameOrder[i] = r.name])

(* An insert whose foreign key refers to a row that an open transaction has   *)
(* deleted waits for its end; to a row that is gone, it fails.                *)
Locked(r, ends) ==
    \E p \in DOMAIN tx : r \in tx[p].dead.routes \/ ends \cap tx[p].dead.stops # {}
RefersToRows(r, ends) == r \in routes /\ ends \subseteq stops

Begin(tool) == left[tool] > 0 /\ left' = [left EXCEPT ![tool] = @ - 1]
-----------------------------------------------------------------------------
NoImport == [pc |-> "idle", k |-> 1, cache |-> <<>>, route |-> NULL, undisturbed |-> TRUE]
NoSeed == [pc |-> "idle", k |-> 1, leg |-> 1, route |-> NULL]
Nothing == [stops |-> {}, routes |-> {}, legs |-> {}, geoms |-> {}, codes |-> {}]
NoTx == [pc |-> "idle", none |-> FALSE, matched |-> {}, dead |-> Nothing, undisturbed |-> TRUE]
NoRequest == [pc |-> "idle", route |-> NULL, ask |-> NULL, ends |-> <<>>, todo |-> <<>>,
              net |-> <<>>, owed |-> NULL, path |-> NoPath, blank |-> {}]

(* The tests have left their rows, and the corridors have been seeded or, if  *)
(* they are to be seeded, have not.                                           *)
Init ==
    LET stop(name)  == [name |-> name, n |-> 1, source |-> "seed"]
        route(name) == [name |-> name, n |-> 1, source |-> "seed"]
        leg(name, k, l) == [route |-> route(name), seq |-> k, from |-> stop(l.from),
                            to |-> stop(l.to), fare |-> l.fare]
        seeded == IF left.seed > 0 THEN {} ELSE ToSet(SeedRoutes)
        names(t) == {x.name : x \in t}
        one(t, all) == [x \in all |-> IF x \in names(t) THEN 1 ELSE 0]
    IN  /\ left \in Plans
        /\ stops = {stop(s) : s \in stopNamePatterns} \cup
                   {stop(s) : s \in IF seeded = {} THEN {} ELSE ToSet(SeedStops)}
        /\ routes = {route(x.name) : x \in Leftovers \cup seeded}
        /\ legs = (UNION {{leg(c.name, k, c.legs[k]) : k \in DOMAIN c.legs} : c \in seeded}) \cup
                  {leg(x.name, 1, x) : x \in Leftovers}
        /\ geoms = {}
        /\ codes = {[route |-> route(x.name), old |-> TRUE] : x \in Leftovers}
        /\ made = [stop |-> one(stops, StopNames), route |-> one(routes, RouteNames)]
        /\ imp = NoImport
        /\ sdr = NoSeed
        /\ tx = [p \in {"clear", "cleanup"} |-> NoTx]
        /\ req = NoRequest
        /\ halted = {}

-----------------------------------------------------------------------------
(* Import *)

row == Rows[imp.k]

(* The run goes on with the next row, or ends.                                *)
NextRow ==
    imp' = IF imp.k = Len(Rows) THEN [imp EXCEPT !.pc = "done", !.route = NULL]
           ELSE [imp EXCEPT !.pc = "look", !.k = @ + 1, !.route = NULL]

(* A run of Import has written since the run of cmd/clearcatalogue began.     *)
Disturb(p) == tx' = [tx EXCEPT ![p].undisturbed = FALSE]

StartImport ==
    /\ imp.pc \in {"idle", "done"}
    /\ ParseOK
    /\ Begin("import")
    /\ imp' = [NoImport EXCEPT !.pc = IF Rows = <<>> THEN "done" ELSE "look"]
    /\ UNCHANGED <<tables, codes, made, sdr, tx, req, halted>>

(* Mutant: a row is imported whether or not its route exists.                 *)
LookUpRouteBlindly ==
    /\ imp.pc = "look"
    /\ imp' = [imp EXCEPT !.pc = "stops"]
    /\ UNCHANGED <<tables, codes, made, sdr, tx, req, left, halted>>

(* A row whose route exists is skipped.                                       *)
LookUpRoute ==
    /\ imp.pc = "look"
    /\ IF Named(routes, row.name) # {} THEN NextRow ELSE imp' = [imp EXCEPT !.pc = "stops"]
    /\ UNCHANGED <<tables, codes, made, sdr, tx, req, left, halted>>

(* getOrCreateStop, for the origin and then for the destination, unless the   *)
(* run remembers the stop.                                                    *)
Missing == {row.from, row.to} \ DOMAIN imp.cache

GetOrCreateStop ==
    /\ imp.pc = "stops" /\ Missing # {}
    /\ LET name == IF row.from \in Missing THEN row.from ELSE row.to
           new  == Row("stop", name, "catalogue")
           with(s) == [x \in {name} \cup DOMAIN imp.cache |->
                          IF x = name THEN s ELSE imp.cache[x]]
           remember(s) == imp' = [imp EXCEPT !.cache = with(s)]
       IN  IF Named(stops, name) # {}
           THEN (\E s \in Named(stops, name) : remember(s)) /\ UNCHANGED <<stops, made, tx>>
           ELSE /\ remember(new)
                /\ stops' = stops \cup {new}
                /\ Count("stop", name)
                /\ Disturb("clear")
    /\ UNCHANGED <<routes, legs, geoms, codes, sdr, req, left, halted>>

CreateCatalogueRoute ==
    LET new == Row("route", row.name, "catalogue")
    IN  /\ imp.pc = "stops" /\ Missing = {}
        /\ routes' = routes \cup {new}
        /\ Count("route", row.name)
        /\ imp' = [imp EXCEPT !.pc = "leg", !.route = new]
        /\ Disturb("clear")
        /\ UNCHANGED <<stops, legs, geoms, codes, sdr, req, left, halted>>

(* The run ends in an error, or is interrupted.  What it has inserted stays.  *)
EndImport ==
    /\ imp' = NoImport
    /\ halted' = IF imp.route = NULL THEN halted ELSE halted \cup {imp.route}

Ends == {imp.cache[row.from], imp.cache[row.to]}

CreateCatalogueRouteLeg ==
    /\ imp.pc = "leg"
    /\ ~Locked(imp.route, Ends)
    /\ IF RefersToRows(imp.route, Ends)
       THEN /\ legs' = legs \cup {[route |-> imp.route, seq |-> 1, from |-> imp.cache[row.from],
                                   to |-> imp.cache[row.to], fare |-> row.fare]}
            /\ imp' = [imp EXCEPT !.pc = "geom"]
            /\ Disturb("clear")
            /\ UNCHANGED halted
       ELSE EndImport /\ UNCHANGED <<legs, tx>>
    /\ UNCHANGED <<stops, routes, geoms, codes, made, sdr, req, left>>

CreateRouteGeometry ==
    /\ imp.pc = "geom"
    /\ ~Locked(imp.route, {})
    /\ IF RefersToRows(imp.route, {})
       THEN geoms' = geoms \cup {imp.route} /\ NextRow /\ Disturb("clear") /\ UNCHANGED halted
       ELSE EndImport /\ UNCHANGED <<geoms, tx>>
    /\ UNCHANGED <<stops, routes, legs, codes, made, sdr, req, left>>

InterruptImport ==
    /\ imp.pc \notin {"idle", "done"}
    /\ EndImport
    /\ UNCHANGED <<tables, codes, made, sdr, tx, req, left>>

-----------------------------------------------------------------------------
(* SeedCorridors *)

StartSeed ==
    /\ sdr.pc \in {"idle", "done"}
    /\ Begin("seed")
    /\ sdr' = [NoSeed EXCEPT !.pc = "stops"]
    /\ UNCHANGED <<tables, codes, made, imp, tx, req, halted>>

(* getOrCreateStop of seed_data.go, for the next of SeedStops.                *)
SeedStop ==
    LET name == SeedStops[sdr.k]
        new  == Row("stop", name, "seed")
    IN  /\ sdr.pc = "stops"
        /\ IF Named(stops, name) # {} THEN UNCHANGED <<stops, made>>
           ELSE stops' = stops \cup {new} /\ Count("stop", name)
        /\ sdr' = IF sdr.k = Len(SeedStops) THEN [NoSeed EXCEPT !.pc = "routes"]
                  ELSE [sdr EXCEPT !.k = @ + 1]
        /\ UNCHANGED <<routes, legs, geoms, codes, imp, tx, req, left, halted>>

NextSeedRoute(s) ==
    IF s.k = Len(SeedRoutes) THEN [NoSeed EXCEPT !.pc = "done"]
    ELSE [NoSeed EXCEPT !.pc = "routes", !.k = s.k + 1]

(* Mutant: a route that exists is taken to have its legs.                     *)
SeedRouteByName ==
    LET name == SeedRoutes[sdr.k].name
        new  == Row("route", name, "seed")
    IN  /\ sdr.pc = "routes"
        /\ IF Named(routes, name) = {}
           THEN /\ routes' = routes \cup {new}
                /\ Count("route", name)
                /\ sdr' = [sdr EXCEPT !.pc = "legs", !.route = new]
           ELSE sdr' = NextSeedRoute(sdr) /\ UNCHANGED <<routes, made>>
        /\ UNCHANGED <<stops, legs, geoms, codes, imp, tx, req, left, halted>>

(* getOrCreateRoute; its legs are inserted only if it has none.               *)
SeedRoute ==
    LET name == SeedRoutes[sdr.k].name
        new  == Row("route", name, "seed")
        insertLegs(r) == [sdr EXCEPT !.pc = "legs", !.route = r]
    IN  /\ sdr.pc = "routes"
        /\ IF Named(routes, name) = {}
           THEN /\ routes' = routes \cup {new}
                /\ Count("route", name)
                /\ sdr' = insertLegs(new)
           ELSE /\ \E r \in Named(routes, name) :
                       sdr' = IF LegsOf(legs, r) # {} THEN NextSeedRoute(sdr) ELSE insertLegs(r)
                /\ UNCHANGED <<routes, made>>
        /\ UNCHANGED <<stops, legs, geoms, codes, imp, tx, req, left, halted>>

SeedLeg ==
    LET all == SeedRoutes[sdr.k].legs
        l   == all[sdr.leg]
    IN  /\ sdr.pc = "legs"
        /\ \E from \in Named(stops, l.from), to \in Named(stops, l.to) :
               legs' = legs \cup {[route |-> sdr.route, seq |-> sdr.leg, from |-> from, to |-> to,
                                   fare |-> l.fare]}
        /\ sdr' = IF sdr.leg = Len(all) THEN NextSeedRoute(sdr) ELSE [sdr EXCEPT !.leg = @ + 1]
        /\ UNCHANGED <<stops, routes, geoms, codes, made, imp, tx, req, left, halted>>

InterruptSeed ==
    /\ sdr.pc \notin {"idle", "done"}
    /\ sdr' = NoSeed
    /\ halted' = IF sdr.leg = 1 THEN halted ELSE halted \cup {sdr.route}
    /\ UNCHANGED <<tables, codes, made, imp, tx, req, left>>

-----------------------------------------------------------------------------
(* The two tools that delete, each in one transaction at READ COMMITTED: a    *)
(* statement sees what is committed when it starts, without what its own      *)
(* transaction has deleted.                                                   *)

At(p, label) == tx[p].pc = label
LegsSeen(p) == legs \ tx[p].dead.legs
Delete(p, table, rows, label) ==
    tx' = [tx EXCEPT ![p].dead[table] = @ \cup rows, ![p].pc = label]

(* Rows of other tables that the transaction sees refer to one of rs.         *)
Referenced(p, rs) ==
    \/ \E l \in LegsSeen(p) : l.route \in rs
    \/ (geoms \ tx[p].dead.geoms) \cap rs # {}
    \/ \E c \in codes \ tx[p].dead.codes : c.route \in rs

(* Mutant: only the stops where legs start count as used.                     *)
UnusedAsOrigin(p, ss) == {s \in ss : \A l \in LegsSeen(p) : l.from # s}

Unused(p, ss) == {s \in ss : \A l \in LegsSeen(p) : ~Uses(l, s)}

(* cmd/clearcatalogue counts, stops there unless told to delete, and ...      *)
CountRoutes ==
    /\ At("clear", "idle") \/ At("clear", "done")
    /\ Begin("clear")
    /\ tx' = [tx EXCEPT !["clear"] =
                 [NoTx EXCEPT !.pc = "count", !.none = FromCatalogue(routes) = {}]]
    /\ UNCHANGED <<tables, codes, made, imp, sdr, req, halted>>

(* Mutant: without catalogue routes there is nothing to delete.               *)
CountStopsIgnored ==
    /\ At("clear", "count")
    /\ tx' = [tx EXCEPT !["clear"].pc = IF tx["clear"].none THEN "done" ELSE "geoms"]
    /\ UNCHANGED <<tables, codes, made, imp, sdr, req, left, halted>>

CountStops ==
    /\ At("clear", "count")
    /\ \/ tx' = [tx EXCEPT !["clear"] = NoTx]     \* dry run
       \/ tx' = [tx EXCEPT !["clear"].pc =
                    IF tx["clear"].none /\ FromCatalogue(stops) = {} THEN "done" ELSE "geoms"]
    /\ UNCHANGED <<tables, codes, made, imp, sdr, req, left, halted>>

(* ... DeleteCatalogueData removes geometries and legs, ...                   *)
DeleteGeometries ==
    /\ At("clear", "geoms")
    /\ Delete("clear", "geoms", geoms \cap FromCatalogue(routes), "legs")
    /\ UNCHANGED <<tables, codes, made, imp, sdr, req, left, halted>>

DeleteCatalogueLegs ==
    /\ At("clear", "legs")
    /\ Delete("clear", "legs", {l \in legs : l.route \in FromCatalogue(routes)}, "routes")
    /\ UNCHANGED <<tables, codes, made, imp, sdr, req, left, halted>>

(* ... routes, unless something refers to one again, ...                      *)
DeleteRoutes(p, rs) ==
    /\ At(p, "routes")
    /\ IF Referenced(p, rs) THEN tx' = [tx EXCEPT ![p] = NoTx] ELSE Delete(p, "routes", rs, "stops")
    /\ UNCHANGED <<tables, codes, made, imp, sdr, req, left, halted>>

DeleteCatalogueRoutes == DeleteRoutes("clear", FromCatalogue(routes))

(* ... and the stops that no leg uses.                                        *)
DeleteStops(p, ss) ==
    /\ At(p, "stops")
    /\ Delete(p, "stops", Unused(p, ss), "commit")
    /\ UNCHANGED <<tables, codes, made, imp, sdr, req, left, halted>>

(* Mutant: unused stops of any source are deleted.                            *)
DeleteAllStops == DeleteStops("clear", stops)

DeleteCatalogueStops == DeleteStops("clear", FromCatalogue(stops))

Commit(p) ==
    LET dead == tx[p].dead
    IN  /\ At(p, "commit")
        /\ stops' = stops \ dead.stops
        /\ routes' = routes \ dead.routes
        /\ legs' = legs \ dead.legs
        /\ geoms' = geoms \ dead.geoms
        /\ codes' = codes \ dead.codes
        /\ imp' = [imp EXCEPT !.undisturbed = @ /\ p # "clear"]
        /\ tx' = [tx EXCEPT ![p] = [NoTx EXCEPT !.pc = "done", !.undisturbed = tx[p].undisturbed]]
        /\ UNCHANGED <<made, sdr, req, left, halted>>

(* The tool dies or its connection breaks: the transaction is rolled back.    *)
InterruptTx(p) ==
    /\ ~At(p, "idle") /\ ~At(p, "done")
    /\ tx' = [tx EXCEPT ![p] = NoTx]
    /\ UNCHANGED <<tables, codes, made, imp, sdr, req, left, halted>>

(* cmd/cleanup sweeps the codes long expired, if told to delete, ...          *)
SweepCodes ==
    /\ At("cleanup", "idle") \/ At("cleanup", "done")
    /\ Begin("cleanup")
    /\ codes' = {c \in codes : ~c.old}
    /\ tx' = [tx EXCEPT !["cleanup"] = [NoTx EXCEPT !.pc = "match"]]
    /\ UNCHANGED <<tables, made, imp, sdr, req, halted>>

(* ... finds what the tests left, and unless that is nothing ...              *)
Junk == {r \in routes : r.name \in routeNamePatterns}
JunkStops == {s \in stops : s.name \in stopNamePatterns}

MatchJunk ==
    LET orphans == {s \in JunkStops : \A l \in legs : Uses(l, s) => l.route \in Junk}
    IN  /\ At("cleanup", "match")
        /\ tx' = [tx EXCEPT !["cleanup"].matched = Junk,
                            !["cleanup"].pc =
                                IF Junk = {} /\ orphans = {} THEN "done" ELSE "codes"]
        /\ UNCHANGED <<tables, codes, made, imp, sdr, req, left, halted>>

(* ... deletes the codes of those routes, their legs, ...                     *)
DeleteCodes ==
    /\ At("cleanup", "codes")
    /\ Delete("cleanup", "codes", {c \in codes : c.route \in tx["cleanup"].matched}, "legs")
    /\ UNCHANGED <<tables, codes, made, imp, sdr, req, left, halted>>

DeleteJunkLegs ==
    /\ At("cleanup", "legs")
    /\ Delete("cleanup", "legs", {l \in legs : l.route \in tx["cleanup"].matched}, "routes")
    /\ UNCHANGED <<tables, codes, made, imp, sdr, req, left, halted>>

(* ... the routes and the stops that no leg uses.                             *)
DeleteJunkRoutes == DeleteRoutes("cleanup", routes \cap tx["cleanup"].matched)
DeleteJunkStops == DeleteStops("cleanup", JunkStops)

(* PassStore.Store for a pass on route r; catalogue routes are refused.       *)
IssueCode(r) ==
    /\ Begin("code")
    /\ r.source # "catalogue" /\ LegsOf(legs, r) # {}
    /\ ~Locked(r, {})
    /\ codes' = codes \cup {[route |-> r, old |-> FALSE]}
    /\ UNCHANGED <<tables, made, imp, sdr, tx, req, halted>>

-----------------------------------------------------------------------------
(* Requests.  Every query of a handler sees another state of the tables.      *)

(* The fares of direct rides that corridors offer between two named stops.    *)
SeededFares(q) ==
    UNION {RideFares([legs |-> ListLegsForRoute(r)], o, d) :
              r \in {x \in routes : x.name \in SeedRouteNames},
              o \in Named(stops, q[1]), d \in Named(stops, q[2])}

(* GET /routes/search for the stops named in q, ...                           *)
AskSearch(q) ==
    /\ req.pc = "idle"
    /\ Begin("request")
    /\ \E fare \in IF SeededFares(q) = {} THEN {NULL} ELSE SeededFares(q) :
           req' = [NoRequest EXCEPT !.pc = "resolve", !.ask = q, !.owed = fare]
    /\ UNCHANGED <<tables, codes, made, imp, sdr, tx, halted>>

(* ... or GET /routes/{id} or /stops?route_id= for a route the client knows.  *)
AskRoute(r) ==
    /\ req.pc = "idle"
    /\ Begin("request")
    /\ req' = [NoRequest EXCEPT !.pc = "route", !.route = r]
    /\ UNCHANGED <<tables, codes, made, imp, sdr, tx, halted>>

Answer(path, blank) ==
    req' = [req EXCEPT !.pc = "answered", !.ends = <<>>, !.todo = <<>>, !.net = <<>>,
                       !.path = path, !.blank = blank]

(* resolveStop, for one stop after the other.                                 *)
ResolveStop ==
    LET found == Named(stops, req.ask[Len(req.ends) + 1])
    IN  /\ req.pc = "resolve"
        /\ IF found = {} THEN Answer(NoPath, {})
           ELSE \E s \in found :
                    req' = [req EXCEPT !.ends = Append(@, s),
                                       !.pc = IF req.ends = <<>> THEN "resolve" ELSE "list"]
        /\ UNCHANGED <<tables, codes, made, imp, sdr, tx, left, halted>>

GetRouteByID ==
    /\ req.pc = "route"
    /\ IF req.route \in routes
       THEN req' = [req EXCEPT !.pc = "load", !.todo = <<req.route>>]
       ELSE Answer(NoPath, {})
    /\ UNCHANGED <<tables, codes, made, imp, sdr, tx, left, halted>>

(* AllRoutesWithLegs: the routes, and then the legs of each.                  *)
ListAllRoutes ==
    /\ req.pc = "list"
    /\ req' = [req EXCEPT !.pc = "load", !.todo = ListRoutes]
    /\ UNCHANGED <<tables, codes, made, imp, sdr, tx, left, halted>>

(* Mutant: a route without legs ends the request.                             *)
LoadLegsOrFail ==
    /\ req.pc = "load" /\ req.todo # <<>>
    /\ LET r == Head(req.todo)
       IN  IF LegsOf(legs, r) = {} THEN Answer(NoPath, {})
           ELSE req' = [req EXCEPT !.todo = Tail(@),
                            !.net = Append(@, [route |-> r, legs |-> ListLegsForRoute(r)])]
    /\ UNCHANGED <<tables, codes, made, imp, sdr, tx, left, halted>>

LoadLegs ==
    /\ req.pc = "load" /\ req.todo # <<>>
    /\ LET r == Head(req.todo)
       IN  req' = [req EXCEPT !.todo = Tail(@),
                              !.net = Append(@, [route |-> r, legs |-> ListLegsForRoute(r)])]
    /\ UNCHANGED <<tables, codes, made, imp, sdr, tx, left, halted>>

FindPath ==
    LET shown(r) == Path(<<[route |-> r.route, legs |-> r.legs, fare |-> SumFares(r.legs)]>>)
    IN  /\ req.pc = "load" /\ req.todo = <<>>
        /\ req' = [req EXCEPT !.pc = "name",
                              !.path = IF req.route # NULL THEN shown(req.net[1])
                                       ELSE Search(req.net, req.ends[1], req.ends[2])]
        /\ UNCHANGED <<tables, codes, made, imp, sdr, tx, left, halted>>

(* Mutant: only the seeded stops are listed.                                  *)
NameSeededStops ==
    LET shown == UNION {ToSet(s.legs) : s \in ToSet(req.path.segments)}
        known == stops \ FromCatalogue(stops)
    IN  /\ req.pc = "name"
        /\ Answer(req.path, {l.route : l \in {m \in shown : ~({m.from, m.to} \subseteq known)}})
        /\ UNCHANGED <<tables, codes, made, imp, sdr, tx, left, halted>>

(* stopsByID, for the names in the answer; a stop that is not there has a     *)
(* blank one.                                                                 *)
NameStops ==
    LET shown == UNION {ToSet(s.legs) : s \in ToSet(req.path.segments)}
    IN  /\ req.pc = "name"
        /\ Answer(req.path, {l.route : l \in {m \in shown : ~({m.from, m.to} \subseteq stops)}})
        /\ UNCHANGED <<tables, codes, made, imp, sdr, tx, left, halted>>

-----------------------------------------------------------------------------
Next ==
    \/ StartImport \/ LookUpRoute \/ GetOrCreateStop \/ CreateCatalogueRoute
    \/ CreateCatalogueRouteLeg \/ CreateRouteGeometry \/ InterruptImport
    \/ StartSeed \/ SeedStop \/ SeedRoute \/ SeedLeg \/ InterruptSeed
    \/ CountRoutes \/ CountStops \/ DeleteGeometries \/ DeleteCatalogueLegs
    \/ DeleteCatalogueRoutes \/ DeleteCatalogueStops
    \/ SweepCodes \/ MatchJunk \/ DeleteCodes \/ DeleteJunkLegs
    \/ DeleteJunkRoutes \/ DeleteJunkStops
    \/ \E p \in DOMAIN tx : Commit(p) \/ InterruptTx(p)
    \/ \E r \in routes : IssueCode(r) \/ AskRoute(r)
    \/ \E q \in Questions : AskSearch(q)
    \/ ResolveStop \/ GetRouteByID \/ ListAllRoutes \/ LoadLegs \/ FindPath \/ NameStops

Spec == Init /\ [][Next]_vars

-----------------------------------------------------------------------------
(* Every row has its type, and refers to rows that exist.                     *)
TypeOK ==
    /\ \A s \in stops : s.name \in StopNames /\ s.n \in 1 .. made.stop[s.name]
    /\ \A r \in routes : r.name \in RouteNames /\ r.n \in 1 .. made.route[r.name]
    /\ \A l \in legs : l.route \in routes /\ {l.from, l.to} \subseteq stops
    /\ geoms \subseteq routes
    /\ \A c \in codes : c.route \in routes
    /\ \A p \in DOMAIN tx :
           tx[p].dead.routes \subseteq routes /\ tx[p].dead.stops \subseteq stops

(* However often the file is imported and the corridors are seeded, and       *)
(* wherever a run died, no stop or route is there twice: "nothing is          *)
(* duplicated", although no index of the database forbids it.                 *)
NamesUnique ==
    \A table \in {stops, routes} : \A x, y \in table : x.name = y.name => x = y

Corridors == ToSet(SeedRoutes)

(* What a run that ended normally has brought about: every row of the file    *)
(* has its route, with leg and geometry unless an earlier run died or failed  *)
(* in that very row; every corridor has its route, with all its legs unless   *)
(* a run died between the first and the last of them.                         *)
Imported(x) ==
    \E r \in Named(routes, x.name) :
        r \in halted \/ (r \in geoms /\ \E l \in LegsOf(legs, r) :
                            l.from.name = x.from /\ l.to.name = x.to /\ l.fare = x.fare)

Seeded(c) ==
    \E r \in Named(routes, c.name) :
        LET ls == ListLegsForRoute(r)
            asSeeded == [i \in DOMAIN ls |->
                [from |-> ls[i].from.name, to |-> ls[i].to.name, fare |-> ls[i].fare]]
        IN  asSeeded = c.legs \/ (r \in halted /\ IsStrictPrefix(asSeeded, c.legs))

FinishedRunIsWhole ==
    /\ imp.pc = "done" /\ imp.undisturbed => \A x \in ToSet(Rows) : Imported(x)
    /\ sdr.pc = "done" => \A c \in Corridors : Seeded(c)

(* A run of cmd/clearcatalogue -apply that ends normally leaves the seeded    *)
(* baseline alone: nothing of the catalogue is left, rows of interrupted      *)
(* imports included, unless an import wrote something in the meantime.        *)
ClearRestoresBaseline ==
    [][At("clear", "done")' /\ ~At("clear", "done") /\ tx["clear"].undisturbed =>
          FromCatalogue(stops)' = {} /\ FromCatalogue(routes)' = {} /\ geoms' = {}]_vars

(* "Structurally unreachable": no tool ever removes a seeded stop, route or   *)
(* leg, finished or not, or a code that is not long expired, except what the  *)
(* names of the tests' leftovers match.                                       *)
BaselineUntouched ==
    [][/\ \A s \in stops \ stops' : s.source = "catalogue" \/ s.name \in stopNamePatterns
       /\ \A r \in routes \ routes' : r.source = "catalogue" \/ r.name \in routeNamePatterns
       /\ \A l \in legs \ legs' : l.route \notin routes'
       /\ \A c \in codes \ codes' : c.old \/ c.route.name \in routeNamePatterns]_vars

(* A direct ride on a corridor that existed when the request came in is in    *)
(* the answer, or a cheaper one is, whatever the tools insert and delete      *)
(* between the queries of the request.                                        *)
SeededRideIsFound ==
    req.pc = "answered" /\ req.owed # NULL =>
        Len(req.path.segments) = 1 /\ req.path.fare <= req.owed

(* Search finds the best journey in what was loaded, by a definition without  *)
(* positions and orders of search: half imported routes, truncated corridors  *)
(* and routes deleted before their legs were read included.                   *)
SearchIsBest ==
    req.pc = "name" /\ req.route = NULL => BestJourney(req.net, req.ends[1], req.ends[2], req.path)

(* The names in an answer are read after the legs.  One is blank only if the  *)
(* whole route is gone by then, never on a route that can still be ridden.    *)
BlankOnlyOnDeletedRoute == req.blank \cap routes = {}
=============================================================================
