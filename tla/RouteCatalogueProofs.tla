-------------------------- MODULE RouteCatalogueProofs --------------------------
(* Proofs, for any file, any seeded corridors, leftovers and numbers of runs: *)
(* 1. rows refer to rows that exist, nothing is there twice, the tools leave  *)
(*    the seeded baseline alone, and an undisturbed clear restores it         *)
(*    (CatalogueInv);                                                         *)
(* 2. the legs of a route are the first of its itinerary, so that a run that  *)
(*    ended normally has done all it had to (WholeInv);                       *)
(* 3. what a request loads can be searched, so that the answer is the best    *)
(*    journey, holds the seeded ride there was and no blank name of a route   *)
(*    that is still there (RequestInv).                                       *)
EXTENDS RouteCatalogue, RouteSearchProofs

(* The two tools that delete, and which rows each may delete.                 *)
Tools == {"clear", "cleanup"}
MayDeleteStop(p, s) == IF p = "clear" THEN s.source = "catalogue" ELSE s.name \in stopNamePatterns
MayDeleteRoute(p, r) == IF p = "clear" THEN r.source = "catalogue" ELSE r.name \in routeNamePatterns

(* The numbers given to rows so far, per name.                                *)
MadeFits == made \in [stop : [StopNames -> Nat], route : [RouteNames -> Nat]]

(* Only the importer marks rows as the catalogue's, under the names of the    *)
(* file; only its routes have geometries or lead to its stops.                *)
Sources ==
    /\ \A s \in stops : s.source = "catalogue" => s.name \in FileStops
    /\ \A r \in routes : r.source = "catalogue" => r.name \in FileRoutes
    /\ \A r \in geoms : r.source = "catalogue"
    /\ \A l \in legs : "catalogue" \in {l.from.source, l.to.source} => l.route.source = "catalogue"

(* The importer is at a row of the file, whose route it has not found.        *)
ImportFits ==
    /\ imp = [pc |-> imp.pc, k |-> imp.k, cache |-> imp.cache, route |-> imp.route,
              undisturbed |-> imp.undisturbed]
    /\ imp.pc \notin {"idle", "done"} => imp.k \in 1 .. Len(Rows)
    /\ imp.pc = "stops" => Named(routes, row.name) = {}
    /\ imp.pc \in {"leg", "geom"} => imp.route.source = "catalogue"

(* The seeder is at a stop, a route, or a leg of a route that is there.       *)
SeedFits ==
    /\ sdr = [pc |-> sdr.pc, k |-> sdr.k, leg |-> sdr.leg, route |-> sdr.route]
    /\ sdr.pc = "stops" => sdr.k \in 1 .. Len(SeedStops)
    /\ sdr.pc \in {"routes", "legs"} => sdr.k \in 1 .. Len(SeedRoutes)
    /\ sdr.pc = "routes" => sdr.leg = 1
    /\ sdr.pc = "legs" => /\ sdr.leg \in 1 .. Len(SeedRoutes[sdr.k].legs)
                          /\ sdr.route \in routes
                          /\ sdr.route.name = SeedRoutes[sdr.k].name

(* A tool deletes only rows it may delete, and remembers legs of routes that  *)
(* were there.                                                                *)
DeadFits(p) ==
    LET t == tx[p]
    IN  /\ t = [pc |-> t.pc, none |-> t.none, matched |-> t.matched, dead |-> t.dead,
                undisturbed |-> t.undisturbed]
        /\ t.dead = [stops |-> t.dead.stops, routes |-> t.dead.routes, legs |-> t.dead.legs,
                     geoms |-> t.dead.geoms, codes |-> t.dead.codes]
        /\ t.pc = "match" => t.dead = Nothing
        /\ \A r \in t.matched : p = "cleanup" /\ MayDeleteRoute(p, r)
        /\ \A s \in t.dead.stops : MayDeleteStop(p, s)
        /\ \A r \in t.dead.routes : MayDeleteRoute(p, r)
        /\ \A l \in t.dead.legs : /\ IF p = "clear" THEN MayDeleteRoute(p, l.route)
                                                    ELSE l.route \in t.matched
                                  /\ l.route.name \in RouteNames
                                  /\ l.route.n \in 1 .. made.route[l.route.name]
        /\ \A c \in t.dead.codes : c.route \in t.matched

(* The rows that refer to what it has deleted are deleted too ...             *)
Closed(p) ==
    LET dead == tx[p].dead
    IN  /\ \A l \in LegsSeen(p) : l.route \notin dead.routes /\ {l.from, l.to} \cap dead.stops = {}
        /\ (geoms \ dead.geoms) \cap dead.routes = {}
        /\ \A c \in codes \ dead.codes : c.route \notin dead.routes

(* ... and once routes are deleted, those of the deleted legs are.            *)
RoutesFollowLegs(p) ==
    LET t == tx[p]
    IN  t.pc \in {"stops", "commit"} =>
            \A l \in t.dead.legs : l.route \in routes => l.route \in t.dead.routes

(* How far an undisturbed cmd/clearcatalogue has come.                        *)
ClearedSoFar ==
    LET t == tx["clear"]
        past(labels) == t.undisturbed /\ t.pc \in labels
    IN  /\ past({"count"}) /\ t.none => FromCatalogue(routes) = {}
        /\ past({"legs", "routes", "stops", "commit"}) => geoms \subseteq t.dead.geoms
        /\ past({"routes", "stops", "commit"}) =>
               \A l \in LegsSeen("clear") : l.route.source # "catalogue"
        /\ past({"stops", "commit"}) => FromCatalogue(routes) \subseteq t.dead.routes
        /\ past({"commit"}) => FromCatalogue(stops) \subseteq t.dead.stops

(* What a transaction has deleted so far fits the tables.                     *)
TxFits(p) == DeadFits(p) /\ Closed(p) /\ RoutesFollowLegs(p)

(* The inductive invariant and its parts for the tables and the tools.        *)
TablesFit == TypeOK /\ NamesUnique /\ MadeFits /\ Sources
ToolsFit == DOMAIN tx = Tools /\ (\A p \in Tools : TxFits(p)) /\ ClearedSoFar
CatalogueInv == TablesFit /\ ImportFits /\ SeedFits /\ ToolsFit

-----------------------------------------------------------------------------
(* The members of a sequence.                                                 *)
LEMMA Members ==
    ASSUME NEW S, NEW q \in Seq(S)
    PROVE  /\ Len(q) \in Nat /\ (q # <<>> => 1 <= Len(q))
           /\ \A k \in 1 .. Len(q) : q[k] \in S /\ q[k] \in ToSet(q)
  BY DEF ToSet

(* Every name of the file, of the corridors and of the tests is a name there  *)
(* is, and the three families are apart: prepareRows and buildSeedRoutes.     *)
FileRow == [name : RouteNames, from : StopNames, to : StopNames, fare : Int, points : Int]
SeedLegs == Seq([from : ToSet(SeedStops), to : ToSet(SeedStops), fare : Int]) \ {<<>>}

(* What NamesAssumption says of each row, stop and corridor (prepareRows,     *)
(* Normalize, buildSeedRoutes).                                               *)
LEMMA Families ==
    /\ \A k \in 1 .. Len(Rows) : /\ Rows[k].name \in FileRoutes \cap RouteNames
                                 /\ {Rows[k].from, Rows[k].to} \subseteq FileStops \cap StopNames
    /\ \A k \in 1 .. Len(SeedStops) : SeedStops[k] \in ToSet(SeedStops) \cap StopNames
    /\ \A k \in 1 .. Len(SeedRoutes) :
           SeedRoutes[k].name \in SeedRouteNames \cap RouteNames /\ SeedRoutes[k].legs \in SeedLegs
    /\ \A s \in StopNames : ~ (s \in FileStops /\ s \in ToSet(SeedStops) \cup stopNamePatterns)
    /\ \A r \in RouteNames : /\ ~ (r \in FileRoutes /\ r \in SeedRouteNames \cup routeNamePatterns)
                             /\ ~ (r \in SeedRouteNames /\ r \in routeNamePatterns)
<1>1. \A k \in 1 .. Len(Rows) : Rows[k] \in FileRow /\ Rows[k] \in ToSet(Rows)
  <2>1. Rows \in Seq(FileRow)
    BY NamesAssumption DEF FileRow
  <2> QED
    BY <2>1, Members
<1>2. \A k \in 1 .. Len(SeedStops) : SeedStops[k] \in ToSet(SeedStops) \cap StopNames
  BY NamesAssumption, Members
<1>3. \A k \in 1 .. Len(SeedRoutes) :
         SeedRoutes[k] \in [name : RouteNames, legs : SeedLegs] /\ SeedRoutes[k] \in ToSet(SeedRoutes)
  <2>1. SeedRoutes \in Seq([name : RouteNames, legs : SeedLegs])
    BY NamesAssumption DEF SeedLegs
  <2> QED
    BY <2>1, Members
<1>4. ASSUME NEW k \in 1 .. Len(Rows)
      PROVE  /\ Rows[k].name \in FileRoutes \cap RouteNames
             /\ {Rows[k].from, Rows[k].to} \subseteq FileStops \cap StopNames
  <2>1. PICK x : x = Rows[k]
    OBVIOUS
  <2>2. x \in FileRow /\ x \in ToSet(Rows)
    BY <1>1, <2>1
  <2>3. /\ x.name \in FileRoutes \cap RouteNames
        /\ {x.from, x.to} \subseteq FileStops \cap StopNames
    BY <2>2 DEF FileRow, FileRoutes, FileStops
  <2> QED
    BY <2>1, <2>3
<1>5. ASSUME NEW k \in 1 .. Len(SeedRoutes)
      PROVE  /\ SeedRoutes[k].name \in SeedRouteNames \cap RouteNames
             /\ SeedRoutes[k].legs \in SeedLegs
  <2>1. PICK c : c = SeedRoutes[k]
    OBVIOUS
  <2>2. c \in [name : RouteNames, legs : SeedLegs] /\ c \in ToSet(SeedRoutes)
    BY <1>3, <2>1
  <2>3. c.name \in SeedRouteNames \cap RouteNames /\ c.legs \in SeedLegs
    BY <2>2 DEF SeedRouteNames
  <2> QED
    BY <2>1, <2>3
<1> QED
  BY <1>2, <1>4, <1>5, NamesAssumption

(* The file may have no rows; there are corridors, with legs.                 *)
LEMMA Lengths ==
    /\ Len(Rows) \in Nat /\ Len(SeedStops) \in Nat /\ Len(SeedRoutes) \in Nat
    /\ (Rows # <<>> => 1 <= Len(Rows)) /\ 1 <= Len(SeedStops) /\ 1 <= Len(SeedRoutes)
    /\ \A k \in 1 .. Len(SeedRoutes) :
           LET all == SeedRoutes[k].legs
           IN  /\ Len(all) \in Nat /\ 1 <= Len(all)
               /\ \A i \in 1 .. Len(all) : {all[i].from, all[i].to} \subseteq ToSet(SeedStops)
<1>1. Len(Rows) \in Nat /\ (Rows # <<>> => 1 <= Len(Rows))
  BY NamesAssumption, Members
<1>2. Len(SeedStops) \in Nat /\ 1 <= Len(SeedStops)
  BY NamesAssumption, Members
<1>3. Len(SeedRoutes) \in Nat /\ 1 <= Len(SeedRoutes)
  BY NamesAssumption, Members
<1>4. ASSUME NEW k \in 1 .. Len(SeedRoutes)
      PROVE  LET all == SeedRoutes[k].legs
             IN  /\ Len(all) \in Nat /\ 1 <= Len(all)
                 /\ \A i \in 1 .. Len(all) : {all[i].from, all[i].to} \subseteq ToSet(SeedStops)
  <2>1. SeedRoutes[k].legs \in Seq([from : ToSet(SeedStops), to : ToSet(SeedStops), fare : Int])
        /\ SeedRoutes[k].legs # <<>>
    BY Families DEF SeedLegs
  <2>2. PICK all : all = SeedRoutes[k].legs
    OBVIOUS
  <2>3. /\ Len(all) \in Nat /\ 1 <= Len(all)
        /\ \A i \in 1 .. Len(all) : all[i] \in [from : ToSet(SeedStops), to : ToSet(SeedStops), fare : Int]
    BY <2>1, <2>2, Members
  <2> QED
    BY <2>2, <2>3
<1> QED
  BY <1>1, <1>2, <1>3, <1>4

(* The rows at the beginning: the legs are those of the corridors seeded and  *)
(* of the tests.                                                              *)
FirstRow(name) == [name |-> name, n |-> 1, source |-> "seed"]
FirstLeg(name, k, l) ==
    [route |-> FirstRow(name), seq |-> k, from |-> FirstRow(l.from), to |-> FirstRow(l.to),
     fare |-> l.fare]

(* A leg of the first state is one of a seeded corridor or one that a test    *)
(* left.                                                                      *)
LEMMA FirstLegs ==
    ASSUME NEW seeded,
           legs = (UNION {{FirstLeg(c.name, k, c.legs[k]) : k \in DOMAIN c.legs} : c \in seeded})
                  \cup {FirstLeg(x.name, 1, x) : x \in Leftovers},
           NEW l \in legs
    PROVE  \/ \E c \in seeded : \E k \in DOMAIN c.legs : l = FirstLeg(c.name, k, c.legs[k])
           \/ \E x \in Leftovers : l = FirstLeg(x.name, 1, x)
  BY Zenon

(* What the tests and the seeder have left is a state that fits.              *)
LEMMA CatalogueInit == Init => CatalogueInv
<1> SUFFICES ASSUME Init PROVE CatalogueInv
  OBVIOUS
<1> DEFINE seeded == IF left.seed > 0 THEN {} ELSE ToSet(SeedRoutes)
<1>a. legs = (UNION {{FirstLeg(c.name, k, c.legs[k]) : k \in DOMAIN c.legs} : c \in seeded})
             \cup {FirstLeg(x.name, 1, x) : x \in Leftovers}
  BY DEF Init, FirstLeg, FirstRow
<1>1. /\ seeded \in {{}, ToSet(SeedRoutes)}
      /\ stops = {FirstRow(s) : s \in stopNamePatterns} \cup
                 {FirstRow(s) : s \in IF seeded = {} THEN {} ELSE ToSet(SeedStops)}
      /\ routes = {FirstRow(x.name) : x \in Leftovers \cup seeded}
      /\ geoms = {}
      /\ codes = {[route |-> FirstRow(x.name), old |-> TRUE] : x \in Leftovers}
  BY DEF Init, FirstRow
<1> HIDE DEF seeded
<1>2. ASSUME NEW c \in seeded
      PROVE  /\ seeded = ToSet(SeedRoutes) /\ c.name \in RouteNames
             /\ \A k \in DOMAIN c.legs : {c.legs[k].from, c.legs[k].to} \subseteq ToSet(SeedStops)
  <2>1. PICK i \in DOMAIN SeedRoutes : c = SeedRoutes[i]
    BY <1>1 DEF ToSet
  <2>2. DOMAIN SeedRoutes = 1 .. Len(SeedRoutes)
    BY NamesAssumption
  <2>3. DOMAIN c.legs = 1 .. Len(c.legs)
    BY <2>1, <2>2, Families DEF SeedLegs
  <2> QED
    BY <1>1, <2>1, <2>2, <2>3, Families, Lengths
<1>3. \A x \in Leftovers : x.name \in RouteNames /\ {x.from, x.to} \subseteq stopNamePatterns
  BY NamesAssumption DEF routeNamePatterns, stopNamePatterns
<1>4. /\ \A s \in stops : s.name \in StopNames /\ s = FirstRow(s.name)
      /\ \A r \in routes : r.name \in RouteNames /\ r = FirstRow(r.name)
  <2>1. ToSet(SeedStops) \cup stopNamePatterns \subseteq StopNames
    <3>1. SeedStops \in Seq(StopNames)
      BY NamesAssumption
    <3> QED
      BY <3>1, NamesAssumption DEF ToSet
  <2> QED
    BY <1>1, <1>2, <1>3, <2>1 DEF FirstRow
<1>5. \A l \in legs : l.route \in routes /\ {l.from, l.to} \subseteq stops
  <2>1. ASSUME NEW c \in seeded, NEW k \in DOMAIN c.legs
        PROVE  LET l == FirstLeg(c.name, k, c.legs[k])
               IN  l.route \in routes /\ {l.from, l.to} \subseteq stops
    <3>1. FirstRow(c.name) \in routes
      BY <1>1
    <3>2. {FirstRow(c.legs[k].from), FirstRow(c.legs[k].to)} \subseteq stops
      BY <1>1, <1>2
    <3> QED
      BY <3>1, <3>2 DEF FirstLeg
  <2>2. ASSUME NEW x \in Leftovers
        PROVE  LET l == FirstLeg(x.name, 1, x)
               IN  l.route \in routes /\ {l.from, l.to} \subseteq stops
    BY <1>1, <1>3 DEF FirstLeg
  <2>3. ASSUME NEW l \in legs
        PROVE  l.route \in routes /\ {l.from, l.to} \subseteq stops
    <3>1. CASE \E c \in seeded : \E k \in DOMAIN c.legs : l = FirstLeg(c.name, k, c.legs[k])
      BY <2>1, <3>1
    <3>2. CASE \E x \in Leftovers : l = FirstLeg(x.name, 1, x)
      BY <2>2, <3>2
    <3> QED
      BY <1>a, <3>1, <3>2, FirstLegs
  <2> QED
    BY <2>3
<1>6. \A c \in codes : c.route \in routes
  BY <1>1
<1>7. tx = [p \in Tools |-> NoTx]
  BY DEF Init, Tools
<1>8. /\ made \in [stop : [StopNames -> Nat], route : [RouteNames -> Nat]]
      /\ \A s \in stops : made.stop[s.name] = 1
      /\ \A r \in routes : made.route[r.name] = 1
  <2>1. made = [stop |-> [x \in StopNames |-> IF x \in {y.name : y \in stops} THEN 1 ELSE 0],
                route |-> [x \in RouteNames |-> IF x \in {y.name : y \in routes} THEN 1 ELSE 0]]
    BY DEF Init
  <2> QED
    BY <1>4, <2>1 DEF FirstRow
<1>9. TypeOK
  BY <1>1, <1>4, <1>5, <1>6, <1>7, <1>8 DEF FirstRow, TypeOK, NoTx, Nothing
<1>10. NamesUnique
  BY <1>4 DEF NamesUnique
<1>11. Sources
  <2>1. /\ \A s \in stops : s.source = "seed"
        /\ \A r \in routes : r.source = "seed"
    BY <1>4 DEF FirstRow
  <2>2. \A l \in legs : l.from.source = "seed" /\ l.to.source = "seed"
    BY <1>5, <2>1
  <2> QED
    BY <1>1, <2>1, <2>2 DEF Sources
<1>12. ImportFits /\ SeedFits
  BY DEF Init, NoImport, NoSeed, ImportFits, SeedFits
<1>13. ToolsFit
  BY <1>7 DEF ToolsFit, Tools, NoTx, Nothing, TxFits, DeadFits, Closed, RoutesFollowLegs, ClearedSoFar
<1> QED
  BY <1>8, <1>9, <1>10, <1>11, <1>12, <1>13 DEF CatalogueInv, TablesFit, MadeFits

-----------------------------------------------------------------------------
(* The state of a tool is a record.                                           *)
TxRecord(t) ==
    t = [pc |-> t.pc, none |-> t.none, matched |-> t.matched, dead |-> t.dead,
         undisturbed |-> t.undisturbed]

(* Setting a field of the tool to what it is changes nothing.                 *)
LEMMA SameRecord ==
    ASSUME NEW t, TxRecord(t)
    PROVE  t = [t EXCEPT !.undisturbed = t.undisturbed]
  BY DEF TxRecord

(* The tool goes on to another statement.                                     *)
LEMMA SetPc ==
    ASSUME NEW t, TxRecord(t), NEW label
    PROVE  [t EXCEPT !.pc = label] =
               [pc |-> label, none |-> t.none, matched |-> t.matched, dead |-> t.dead,
                undisturbed |-> t.undisturbed]
  BY DEF TxRecord

(* A transaction t that has noted what it matched.                            *)
Matches(u, t, matched, label) == u = [t EXCEPT !.matched = matched, !.pc = label]

(* cmd/cleanup remembers what it has matched.                                 *)
LEMMA SetMatched ==
    ASSUME NEW t, TxRecord(t), NEW matched, NEW label, NEW u, Matches(u, t, matched, label)
    PROVE  TxRecord(u) /\ u.pc = label /\ u.matched = matched /\ u.dead = t.dead
<1>1. PICK v : v = [t EXCEPT !.matched = matched]
  OBVIOUS
<1>2. v = [pc |-> t.pc, none |-> t.none, matched |-> matched, dead |-> t.dead,
           undisturbed |-> t.undisturbed]
  BY <1>1 DEF TxRecord
<1>3. TxRecord(v) /\ v.matched = matched /\ v.dead = t.dead
  BY <1>2 DEF TxRecord
<1>4. u = [v EXCEPT !.pc = label]
  BY <1>1, Zenon DEF Matches
<1>5. u = [pc |-> label, none |-> v.none, matched |-> v.matched, dead |-> v.dead,
           undisturbed |-> v.undisturbed]
  BY <1>3, <1>4, SetPc
<1> QED
  BY <1>3, <1>5 DEF TxRecord

(* cmd/clearcatalogue remembers that it has counted no route.                 *)
LEMMA SetNone ==
    ASSUME NEW t, NEW a, NEW b, NEW c, NEW dead, NEW x, NEW none,
           t = [pc |-> a, none |-> b, matched |-> c, dead |-> dead, undisturbed |-> x]
    PROVE  [t EXCEPT !.none = none] =
               [pc |-> a, none |-> none, matched |-> c, dead |-> dead, undisturbed |-> x]
  OBVIOUS

(* A finished tool keeps whether an import has written meanwhile.             *)
LEMMA SetUndisturbed ==
    ASSUME NEW t, NEW a, NEW b, NEW c, NEW dead, NEW x, NEW undisturbed,
           t = [pc |-> a, none |-> b, matched |-> c, dead |-> dead, undisturbed |-> x]
    PROVE  [t EXCEPT !.undisturbed = undisturbed] =
               [pc |-> a, none |-> b, matched |-> c, dead |-> dead, undisturbed |-> undisturbed]
  OBVIOUS

(* A statement adds to the rows the tool has deleted, ...                     *)
LEMMA SetDead ==
    ASSUME NEW t, TxRecord(t), NEW dead
    PROVE  [t EXCEPT !.dead = dead] =
               [pc |-> t.pc, none |-> t.none, matched |-> t.matched, dead |-> dead,
                undisturbed |-> t.undisturbed]
  BY DEF TxRecord

(* ... and the tool goes on.                                                  *)
LEMMA NextRecord ==
    ASSUME NEW t, TxRecord(t), NEW dead, NEW label
    PROVE  [t EXCEPT !.dead = dead, !.pc = label] =
               [pc |-> label, none |-> t.none, matched |-> t.matched, dead |-> dead,
                undisturbed |-> t.undisturbed]
<1>1. PICK u : u = [t EXCEPT !.dead = dead]
  OBVIOUS
<1>2. u = [pc |-> t.pc, none |-> t.none, matched |-> t.matched, dead |-> dead,
           undisturbed |-> t.undisturbed]
  BY <1>1, SetDead
<1>3. TxRecord(u) /\ u.none = t.none /\ u.matched = t.matched /\ u.dead = dead
      /\ u.undisturbed = t.undisturbed
  BY <1>2 DEF TxRecord
<1>4. [u EXCEPT !.pc = label] =
          [pc |-> label, none |-> t.none, matched |-> t.matched, dead |-> dead,
           undisturbed |-> t.undisturbed]
  BY <1>3, SetPc
<1>5. [t EXCEPT !.dead = dead, !.pc = label] = [u EXCEPT !.pc = label]
  BY <1>1, Zenon
<1> QED
  BY <1>4, <1>5

(* A step that tool p takes no part in, and that refers to nothing it has     *)
(* deleted; new routes have new numbers.                                      *)
Spares(p) ==
    /\ tx'[p] = [tx[p] EXCEPT !.undisturbed = tx'[p].undisturbed]
    /\ \A l \in legs' \ legs :
           l.route \notin tx[p].dead.routes /\ {l.from, l.to} \cap tx[p].dead.stops = {}
    /\ (geoms' \ geoms) \cap tx[p].dead.routes = {}
    /\ \A c \in codes' \ codes : c.route \notin tx[p].dead.routes
    /\ \A r \in routes' \ routes : r.n > made.route[r.name]
    /\ \A name \in RouteNames : made'.route[name] >= made.route[name]

(* Such a step keeps what holds of the tool.                                  *)
LEMMA SparedTool ==
    ASSUME NEW p \in Tools, TxFits(p), Spares(p), MadeFits, MadeFits',
           \A r \in routes : r.n \in Nat, \A r \in routes' : r.n \in Nat
    PROVE  TxFits(p)'
<1> DEFINE t == tx[p]
<1>1. /\ tx'[p] = [pc |-> t.pc, none |-> t.none, matched |-> t.matched, dead |-> t.dead,
                   undisturbed |-> tx'[p].undisturbed]
      /\ tx'[p].pc = t.pc /\ tx'[p].matched = t.matched /\ tx'[p].dead = t.dead
      /\ tx'[p].none = t.none
  BY DEF TxFits, DeadFits, Spares
<1>2. DeadFits(p)'
  <2>1. ASSUME NEW l \in t.dead.legs
        PROVE  /\ IF p = "clear" THEN MayDeleteRoute(p, l.route) ELSE l.route \in t.matched
               /\ l.route.name \in RouteNames
               /\ l.route.n \in 1 .. made'.route[l.route.name]
    <3>1. l.route.name \in RouteNames /\ l.route.n \in 1 .. made.route[l.route.name]
      BY DEF TxFits, DeadFits
    <3>2. made.route[l.route.name] \in Nat /\ made'.route[l.route.name] \in Nat
          /\ made'.route[l.route.name] >= made.route[l.route.name]
      BY <3>1 DEF Spares, MadeFits
    <3> QED
      BY <3>1, <3>2 DEF TxFits, DeadFits
  <2> HIDE DEF t
  <2> QED
    BY <1>1, <2>1 DEF TxFits, DeadFits, MayDeleteRoute, MayDeleteStop, t
<1>3. Closed(p)'
  BY <1>1 DEF TxFits, Closed, Spares, LegsSeen
<1>4. RoutesFollowLegs(p)'
  BY <1>1 DEF TxFits, RoutesFollowLegs, DeadFits, Spares, MadeFits
<1> QED
  BY <1>2, <1>3, <1>4 DEF TxFits

(* A step that, if it leaves cmd/clearcatalogue undisturbed, adds nothing to  *)
(* the catalogue.                                                             *)
Undisturbed ==
    tx'["clear"].undisturbed =>
        /\ tx["clear"].undisturbed
        /\ \A s \in stops' \ stops : s.source # "catalogue"
        /\ \A r \in routes' \ routes : r.source # "catalogue"
        /\ \A l \in legs' \ legs : l.route.source # "catalogue"
        /\ geoms' \subseteq geoms

(* Such a step keeps how far cmd/clearcatalogue has come.                     *)
LEMMA SparedClear ==
    ASSUME TxFits("clear"), ClearedSoFar, Spares("clear"), Undisturbed
    PROVE  ClearedSoFar'
<1> DEFINE t == tx["clear"]
<1>1. /\ tx'["clear"].pc = t.pc /\ tx'["clear"].dead = t.dead /\ tx'["clear"].none = t.none
  BY DEF TxFits, DeadFits, Spares
<1> QED
  BY <1>1 DEF ClearedSoFar, Undisturbed, FromCatalogue, LegsSeen

(* A step that writes nothing into the tables leaves them as they should be.  *)
LEMMA ReadStep ==
    ASSUME TablesFit, UNCHANGED <<tables, made>>, codes' \subseteq codes,
           \A p \in DOMAIN tx' : tx'[p].dead.routes \subseteq routes /\ tx'[p].dead.stops \subseteq stops
    PROVE  TablesFit'
<1>1. TypeOK'
  BY DEF TablesFit, TypeOK, tables
<1>2. NamesUnique'
  BY DEF TablesFit, NamesUnique, tables
<1>3. MadeFits' /\ Sources'
  BY DEF TablesFit, MadeFits, Sources, tables
<1> QED
  BY <1>1, <1>2, <1>3 DEF TablesFit

(* A step of somebody else leaves a tool alone.                               *)
LEMMA AsideStep ==
    ASSUME TablesFit, TablesFit', ToolsFit, NEW p \in Tools, Spares(p)
    PROVE  TxFits(p)'
  BY SparedTool DEF TablesFit, TypeOK, ToolsFit, MadeFits

(* A step that reads and leaves the tools alone.                              *)
LEMMA QuietStep ==
    ASSUME TablesFit, ToolsFit, UNCHANGED <<tables, made, tx>>, codes' \subseteq codes
    PROVE  TablesFit' /\ ToolsFit'
<1>1. TablesFit'
  BY ReadStep DEF TablesFit, TypeOK
<1>2. ASSUME NEW p \in Tools
      PROVE  Spares(p)
  <2>1. PICK t : t = tx[p]
    OBVIOUS
  <2>2. t = [t EXCEPT !.undisturbed = t.undisturbed]
    BY <2>1, SameRecord DEF ToolsFit, TxFits, DeadFits, TxRecord
  <2> QED
    BY <2>1, <2>2 DEF Spares, tables, TablesFit, MadeFits
<1>3. Undisturbed
  BY DEF Undisturbed, tables
<1>4. ClearedSoFar'
  BY <1>2, <1>3, SparedClear DEF ToolsFit, Tools
<1>5. \A p \in Tools : TxFits(p)'
  BY <1>1, <1>2, AsideStep
<1> QED
  BY <1>1, <1>4, <1>5 DEF ToolsFit

(* Requests read, and issue codes to routes that nothing has deleted.         *)
Asking ==
    \/ \E r \in routes : AskRoute(r)
    \/ \E q \in Questions : AskSearch(q)
    \/ ResolveStop \/ GetRouteByID \/ ListAllRoutes \/ LoadLegs \/ FindPath \/ NameStops

(* Search, GetRoute and ListStops preserve the invariant.                     *)
LEMMA RequestStep ==
    ASSUME CatalogueInv, Asking
    PROVE  CatalogueInv'
<1>1. UNCHANGED <<tables, codes, made, imp, sdr, tx>>
  BY DEF Asking, AskRoute, AskSearch, ResolveStop, GetRouteByID, ListAllRoutes, LoadLegs, FindPath,
         NameStops
<1>2. TablesFit' /\ ToolsFit'
  BY <1>1, QuietStep DEF CatalogueInv, tables
<1>3. ImportFits' /\ SeedFits'
  BY <1>1 DEF CatalogueInv, ImportFits, SeedFits, Named, row, tables
<1> QED
  BY <1>2, <1>3 DEF CatalogueInv

(* A step that writes rows that no tool has anything to do with.              *)
LEMMA WriteStep ==
    ASSUME TablesFit, TablesFit', ToolsFit, DOMAIN tx' = Tools, \A p \in Tools : Spares(p), Undisturbed
    PROVE  ToolsFit'
<1>1. \A p \in Tools : TxFits(p)'
  BY AsideStep
<1>2. ClearedSoFar'
  BY SparedClear DEF ToolsFit, Tools
<1> QED
  BY <1>1, <1>2 DEF ToolsFit

(* What Disturb does: it is seen only by cmd/clearcatalogue.                  *)
LEMMA DisturbedTx ==
    ASSUME ToolsFit, Disturb("clear")
    PROVE  /\ DOMAIN tx' = Tools /\ tx'["clear"].undisturbed = FALSE
           /\ \A p \in Tools : /\ tx'[p] = [tx[p] EXCEPT !.undisturbed = tx'[p].undisturbed]
                               /\ tx'[p].dead = tx[p].dead
<1>1. /\ DOMAIN tx' = Tools /\ tx'["cleanup"] = tx["cleanup"]
      /\ tx'["clear"] = [tx["clear"] EXCEPT !.undisturbed = FALSE]
  BY DEF ToolsFit, Tools, Disturb
<1>2. \A p \in Tools : TxRecord(tx[p])
  BY DEF ToolsFit, TxFits, DeadFits, TxRecord
<1>3. PICK t, u : t = tx["clear"] /\ u = tx["cleanup"]
  OBVIOUS
<1>4. u = [u EXCEPT !.undisturbed = u.undisturbed]
  BY <1>2, <1>3, SameRecord DEF Tools
<1>5. LET new == [t EXCEPT !.undisturbed = FALSE]
      IN  new.undisturbed = FALSE /\ new.dead = t.dead
  BY <1>2, <1>3 DEF Tools, TxRecord
<1> QED
  BY <1>1, <1>3, <1>4, <1>5 DEF Tools

(* The rows counted.                                                          *)
LEMMA CountStop ==
    ASSUME MadeFits, NEW name \in StopNames, Count("stop", name)
    PROVE  /\ MadeFits' /\ made'.route = made.route
           /\ made'.stop = [made.stop EXCEPT ![name] = @ + 1]
  BY DEF MadeFits, Count

(* ... and the routes counted.                                                *)
LEMMA CountRoute ==
    ASSUME MadeFits, NEW name \in RouteNames, Count("route", name)
    PROVE  /\ MadeFits' /\ made'.stop = made.stop
           /\ made'.route = [made.route EXCEPT ![name] = @ + 1]
  BY DEF MadeFits, Count

(* No transaction deletes anything in this step.                              *)
SameDead == DOMAIN tx' = DOMAIN tx /\ \A p \in DOMAIN tx : tx'[p].dead = tx[p].dead

(* A new stop, under a name that no stop has.                                 *)
LEMMA NewStop ==
    ASSUME TablesFit, SameDead, NEW name \in StopNames, NEW source, Named(stops, name) = {},
           source = "catalogue" => name \in FileStops,
           stops' = stops \cup {Row("stop", name, source)}, Count("stop", name),
           UNCHANGED <<routes, legs, geoms, codes>>
    PROVE  TablesFit'
<1> DEFINE new == Row("stop", name, source)
<1>1. MadeFits' /\ made'.route = made.route /\ made'.stop = [made.stop EXCEPT ![name] = @ + 1]
  BY CountStop DEF TablesFit
<1>2. new.name = name /\ new.n = made.stop[name] + 1 /\ new.source = source
  BY DEF Row
<1>3. made.stop \in [StopNames -> Nat] /\ made'.stop[name] = made.stop[name] + 1
      /\ \A s \in StopNames : made'.stop[s] >= made.stop[s]
  BY <1>1 DEF TablesFit, MadeFits
<1>4. TypeOK'
  <2>1. \A s \in stops' : s.name \in StopNames /\ s.n \in 1 .. made'.stop[s.name]
    <3>1. new.n \in 1 .. made'.stop[new.name]
      BY <1>2, <1>3
    <3>2. ASSUME NEW s \in stops
          PROVE  s.name \in StopNames /\ s.n \in 1 .. made'.stop[s.name]
      <4>1. s.name \in StopNames /\ s.n \in 1 .. made.stop[s.name]
        BY DEF TablesFit, TypeOK
      <4>2. /\ made.stop[s.name] \in Nat /\ made'.stop[s.name] \in Nat
            /\ made'.stop[s.name] >= made.stop[s.name]
        BY <1>1, <1>3, <4>1 DEF MadeFits
      <4> QED
        BY <4>1, <4>2
    <3> HIDE DEF new
    <3> QED
      BY <1>2, <3>1, <3>2 DEF new
  <2> QED
    BY <1>1, <2>1 DEF TablesFit, TypeOK, SameDead
<1>5. NamesUnique'
  BY <1>2 DEF TablesFit, NamesUnique, Named
<1>6. Sources'
  BY <1>2 DEF TablesFit, Sources
<1> QED
  BY <1>1, <1>4, <1>5, <1>6 DEF TablesFit

(* A new route, under a name that no route has; its number is new.            *)
LEMMA NewRoute ==
    ASSUME TablesFit, SameDead, NEW name \in RouteNames, NEW source, Named(routes, name) = {},
           source = "catalogue" => name \in FileRoutes,
           routes' = routes \cup {Row("route", name, source)}, Count("route", name),
           UNCHANGED <<stops, legs, geoms, codes>>
    PROVE  /\ TablesFit'
           /\ \A r \in routes' \ routes : r.n > made.route[r.name] /\ r.name = name /\ r.source = source
           /\ \A r \in RouteNames : made'.route[r] >= made.route[r]
<1> DEFINE new == Row("route", name, source)
<1>1. MadeFits' /\ made'.stop = made.stop /\ made'.route = [made.route EXCEPT ![name] = @ + 1]
  BY CountRoute DEF TablesFit
<1>2. new.name = name /\ new.n = made.route[name] + 1 /\ new.source = source
  BY DEF Row
<1>3. made.route \in [RouteNames -> Nat] /\ made'.route[name] = made.route[name] + 1
      /\ \A r \in RouteNames : made'.route[r] >= made.route[r]
  BY <1>1 DEF TablesFit, MadeFits
<1>4. TypeOK'
  <2>1. \A r \in routes' : r.name \in RouteNames /\ r.n \in 1 .. made'.route[r.name]
    <3>1. new.n \in 1 .. made'.route[new.name]
      BY <1>2, <1>3
    <3>2. ASSUME NEW r \in routes
          PROVE  r.name \in RouteNames /\ r.n \in 1 .. made'.route[r.name]
      <4>1. r.name \in RouteNames /\ r.n \in 1 .. made.route[r.name]
        BY DEF TablesFit, TypeOK
      <4>2. /\ made.route[r.name] \in Nat /\ made'.route[r.name] \in Nat
            /\ made'.route[r.name] >= made.route[r.name]
        BY <1>1, <1>3, <4>1 DEF MadeFits
      <4> QED
        BY <4>1, <4>2
    <3> HIDE DEF new
    <3> QED
      BY <1>2, <3>1, <3>2 DEF new
  <2> QED
    BY <1>1, <2>1 DEF TablesFit, TypeOK, SameDead
<1>5. NamesUnique'
  BY <1>2 DEF TablesFit, NamesUnique, Named
<1>6. Sources'
  BY <1>2 DEF TablesFit, Sources
<1>7. \A r \in routes' \ routes : r.n > made.route[r.name] /\ r.name = name /\ r.source = source
  BY <1>2, <1>3
<1> QED
  BY <1>1, <1>3, <1>4, <1>5, <1>6, <1>7 DEF TablesFit

-----------------------------------------------------------------------------
(* Import *)

(* The importer goes on with the next row of the file, or is done.            *)
LEMMA NextRowFits ==
    ASSUME ImportFits, imp.pc \in {"look", "geom"}, NextRow
    PROVE  ImportFits'
<1>1. imp.k \in 1 .. Len(Rows) /\ Len(Rows) \in Nat
  BY Lengths DEF ImportFits
<1>2. CASE imp.k = Len(Rows)
  <2>1. imp' = [pc |-> "done", k |-> imp.k, cache |-> imp.cache, route |-> NULL,
                undisturbed |-> imp.undisturbed]
    BY <1>2 DEF NextRow, ImportFits
  <2> QED
    BY <2>1 DEF ImportFits
<1>3. CASE imp.k # Len(Rows)
  <2>1. imp' = [pc |-> "look", k |-> imp.k + 1, cache |-> imp.cache, route |-> NULL,
                undisturbed |-> imp.undisturbed]
    BY <1>3 DEF NextRow, ImportFits
  <2> QED
    BY <1>1, <1>3, <2>1 DEF ImportFits
<1> QED
  BY <1>2, <1>3

(* An importer that dies remembers nothing.                                   *)
LEMMA EndImportFits == EndImport => ImportFits'
  BY DEF EndImport, NoImport, ImportFits

(* The importer starts, looks for the route of its row, or ends.              *)
LEMMA ImportReads ==
    ASSUME CatalogueInv, StartImport \/ LookUpRoute \/ InterruptImport
    PROVE  CatalogueInv'
<1>1. UNCHANGED <<tables, codes, made, sdr, tx>>
  BY DEF StartImport, LookUpRoute, InterruptImport
<1>2. TablesFit' /\ ToolsFit'
  BY <1>1, QuietStep DEF CatalogueInv
<1>3. SeedFits'
  BY <1>1 DEF CatalogueInv, SeedFits, tables
<1>4. CASE StartImport
  <2>1. imp' = [pc |-> IF Rows = <<>> THEN "done" ELSE "look", k |-> 1, cache |-> <<>>, route |-> NULL,
                undisturbed |-> TRUE]
    BY <1>4 DEF StartImport, NoImport
  <2>2. ImportFits'
    BY <2>1, Lengths DEF ImportFits
  <2> QED
    BY <1>2, <1>3, <2>2 DEF CatalogueInv
<1>5. CASE LookUpRoute
  <2>1. CASE Named(routes, row.name) # {}
    BY <1>2, <1>3, <1>5, <2>1, NextRowFits DEF CatalogueInv, LookUpRoute
  <2>2. CASE Named(routes, row.name) = {}
    <3>1. imp.pc = "look" /\ imp' = [imp EXCEPT !.pc = "stops"]
      BY <1>5, <2>2 DEF LookUpRoute
    <3>2. imp' = [pc |-> "stops", k |-> imp.k, cache |-> imp.cache, route |-> imp.route,
                  undisturbed |-> imp.undisturbed]
      BY <3>1 DEF CatalogueInv, ImportFits
    <3>3. ImportFits'
      BY <1>1, <2>2, <3>1, <3>2 DEF CatalogueInv, ImportFits, Named, row, tables
    <3> QED
      BY <1>2, <1>3, <3>3 DEF CatalogueInv
  <2> QED
    BY <2>1, <2>2
<1>6. CASE InterruptImport
  BY <1>2, <1>3, <1>6, EndImportFits DEF CatalogueInv, InterruptImport
<1> QED
  BY <1>4, <1>5, <1>6

(* A row's names are the file's.                                              *)
LEMMA RowNames ==
    ASSUME ImportFits, imp.pc \notin {"idle", "done"}
    PROVE  row.name \in FileRoutes \cap RouteNames /\ {row.from, row.to} \subseteq FileStops \cap StopNames
  BY Families DEF ImportFits, row

(* getOrCreateStop.                                                           *)
LEMMA GetOrCreateStopStep ==
    ASSUME CatalogueInv, GetOrCreateStop
    PROVE  CatalogueInv'
<1> DEFINE name == IF row.from \in Missing THEN row.from ELSE row.to
           new == Row("stop", name, "catalogue")
<1>1. name \in FileStops \cap StopNames
  BY RowNames DEF CatalogueInv, GetOrCreateStop
<1>2. UNCHANGED <<routes, legs, geoms, codes, sdr>> /\ imp.pc = "stops"
  BY DEF GetOrCreateStop
<1>3. ImportFits' /\ SeedFits'
  <2>1. PICK c : imp' = [imp EXCEPT !.cache = c]
    BY DEF GetOrCreateStop
  <2>2. PICK cache : imp' = [pc |-> "stops", k |-> imp.k, cache |-> cache, route |-> imp.route,
                             undisturbed |-> imp.undisturbed]
    BY <1>2, <2>1 DEF CatalogueInv, ImportFits
  <2> QED
    BY <1>2, <2>2 DEF CatalogueInv, ImportFits, SeedFits, Named, row
<1>4. CASE Named(stops, name) # {}
  <2>1. UNCHANGED <<stops, made, tx>>
    BY <1>4 DEF GetOrCreateStop
  <2>2. TablesFit' /\ ToolsFit'
    BY <1>2, <2>1, QuietStep DEF CatalogueInv, tables
  <2> QED
    BY <1>3, <2>2 DEF CatalogueInv
<1>5. CASE Named(stops, name) = {}
  <2>1. stops' = stops \cup {new} /\ Count("stop", name) /\ Disturb("clear")
    BY <1>5 DEF GetOrCreateStop
  <2>2. /\ DOMAIN tx' = Tools /\ tx'["clear"].undisturbed = FALSE
        /\ \A p \in Tools : /\ tx'[p] = [tx[p] EXCEPT !.undisturbed = tx'[p].undisturbed]
                            /\ tx'[p].dead = tx[p].dead
    BY <2>1, DisturbedTx DEF CatalogueInv
  <2>3. SameDead
    BY <2>2 DEF SameDead, CatalogueInv, ToolsFit
  <2>4. TablesFit'
    BY <1>1, <1>2, <1>5, <2>1, <2>3, NewStop DEF CatalogueInv
  <2>5. made'.route = made.route
    BY <1>1, <2>1, CountStop DEF CatalogueInv, TablesFit
  <2>6. \A p \in Tools : Spares(p)
    BY <1>2, <2>2, <2>5 DEF Spares, CatalogueInv, TablesFit, MadeFits
  <2>7. Undisturbed
    BY <2>2 DEF Undisturbed
  <2>8. ToolsFit'
    BY <2>2, <2>4, <2>6, <2>7, WriteStep DEF CatalogueInv
  <2> QED
    BY <1>3, <2>4, <2>8 DEF CatalogueInv
<1> QED
  BY <1>4, <1>5

(* CreateCatalogueRoute, for a name that no route has.                        *)
LEMMA CreateCatalogueRouteStep ==
    ASSUME CatalogueInv, CreateCatalogueRoute
    PROVE  CatalogueInv'
<1> DEFINE new == Row("route", row.name, "catalogue")
<1>1. /\ imp.pc = "stops" /\ routes' = routes \cup {new} /\ Count("route", row.name)
      /\ imp' = [imp EXCEPT !.pc = "leg", !.route = new] /\ Disturb("clear")
      /\ UNCHANGED <<stops, legs, geoms, codes, sdr>>
  BY DEF CreateCatalogueRoute
<1>2. row.name \in FileRoutes \cap RouteNames /\ Named(routes, row.name) = {}
  BY <1>1, RowNames DEF CatalogueInv, ImportFits
<1>3. /\ DOMAIN tx' = Tools /\ tx'["clear"].undisturbed = FALSE
      /\ \A p \in Tools : /\ tx'[p] = [tx[p] EXCEPT !.undisturbed = tx'[p].undisturbed]
                          /\ tx'[p].dead = tx[p].dead
  BY <1>1, DisturbedTx DEF CatalogueInv
<1>4. SameDead
  BY <1>3 DEF SameDead, CatalogueInv, ToolsFit
<1>5. /\ TablesFit'
      /\ \A r \in routes' \ routes : r.n > made.route[r.name]
      /\ \A r \in RouteNames : made'.route[r] >= made.route[r]
  BY <1>1, <1>2, <1>4, NewRoute DEF CatalogueInv
<1>6. \A p \in Tools : Spares(p)
  BY <1>1, <1>3, <1>5 DEF Spares
<1>7. Undisturbed
  BY <1>3 DEF Undisturbed
<1>8. ToolsFit'
  BY <1>3, <1>5, <1>6, <1>7, WriteStep DEF CatalogueInv
<1>9. ImportFits'
  <2>1. PICK r : r = new
    OBVIOUS
  <2>2. r.source = "catalogue"
    BY <2>1 DEF Row
  <2>3. imp' = [pc |-> "leg", k |-> imp.k, cache |-> imp.cache, route |-> r,
                undisturbed |-> imp.undisturbed]
    BY <1>1, <2>1 DEF CatalogueInv, ImportFits
  <2>4. imp.k \in 1 .. Len(Rows)
    BY <1>1 DEF CatalogueInv, ImportFits
  <2> QED
    BY <2>2, <2>3, <2>4 DEF ImportFits
<1>10. SeedFits'
  BY <1>1 DEF CatalogueInv, SeedFits
<1> QED
  BY <1>5, <1>8, <1>9, <1>10 DEF CatalogueInv

(* A leg or geometry is inserted when no open transaction has deleted what it *)
(* refers to.                                                                 *)
LEMMA CreateLegStep ==
    ASSUME CatalogueInv, CreateCatalogueRouteLeg
    PROVE  CatalogueInv'
<1>1. /\ imp.pc = "leg" /\ imp.route.source = "catalogue" /\ ~Locked(imp.route, Ends)
      /\ UNCHANGED <<stops, routes, geoms, codes, made, sdr>>
  BY DEF CreateCatalogueRouteLeg, CatalogueInv, ImportFits
<1>2. SeedFits'
  BY <1>1 DEF CatalogueInv, SeedFits
<1>3. CASE RefersToRows(imp.route, Ends)
  <2>1. PICK l : l = [route |-> imp.route, seq |-> 1, from |-> imp.cache[row.from],
                      to |-> imp.cache[row.to], fare |-> row.fare]
    OBVIOUS
  <2>2. /\ legs' = legs \cup {l} /\ imp' = [imp EXCEPT !.pc = "geom"] /\ Disturb("clear")
        /\ l.route = imp.route /\ {l.from, l.to} = Ends
    BY <1>3, <2>1 DEF CreateCatalogueRouteLeg, Ends
  <2>3. /\ DOMAIN tx' = Tools /\ tx'["clear"].undisturbed = FALSE
        /\ \A p \in Tools : /\ tx'[p] = [tx[p] EXCEPT !.undisturbed = tx'[p].undisturbed]
                            /\ tx'[p].dead = tx[p].dead
    BY <2>2, DisturbedTx DEF CatalogueInv
  <2>4. l.route \in routes /\ {l.from, l.to} \subseteq stops
    BY <1>3, <2>2 DEF RefersToRows
  <2>5. TypeOK'
    BY <1>1, <2>2, <2>3, <2>4 DEF CatalogueInv, ToolsFit, TablesFit, TypeOK
  <2>6. NamesUnique' /\ MadeFits' /\ Sources'
    BY <1>1, <2>2 DEF CatalogueInv, TablesFit, NamesUnique, MadeFits, Sources
  <2>7. \A p \in Tools : Spares(p)
    BY <1>1, <2>2, <2>3 DEF CatalogueInv, ToolsFit, Spares, Locked, TablesFit, MadeFits
  <2>8. Undisturbed
    BY <2>3 DEF Undisturbed
  <2>9. ToolsFit'
    BY <2>3, <2>5, <2>6, <2>7, <2>8, WriteStep DEF CatalogueInv, TablesFit
  <2>10. ImportFits'
    <3>1. imp' = [pc |-> "geom", k |-> imp.k, cache |-> imp.cache, route |-> imp.route,
                  undisturbed |-> imp.undisturbed]
      BY <2>2 DEF CatalogueInv, ImportFits
    <3> QED
      BY <1>1, <3>1 DEF CatalogueInv, ImportFits
  <2> QED
    BY <1>2, <2>5, <2>6, <2>9, <2>10 DEF CatalogueInv, TablesFit
<1>4. CASE ~RefersToRows(imp.route, Ends)
  <2>1. EndImport /\ UNCHANGED <<tables, made, codes, tx>>
    BY <1>1, <1>4 DEF CreateCatalogueRouteLeg, tables
  <2> QED
    BY <1>2, <2>1, QuietStep, EndImportFits DEF CatalogueInv
<1> QED
  BY <1>3, <1>4

(* CreateRouteGeometry, for a route that still exists and is not locked.      *)
LEMMA CreateGeometryStep ==
    ASSUME CatalogueInv, CreateRouteGeometry
    PROVE  CatalogueInv'
<1>1. /\ imp.pc = "geom" /\ imp.route.source = "catalogue" /\ ~Locked(imp.route, {})
      /\ UNCHANGED <<stops, routes, legs, codes, made, sdr>>
  BY DEF CreateRouteGeometry, CatalogueInv, ImportFits
<1>2. SeedFits'
  BY <1>1 DEF CatalogueInv, SeedFits
<1>3. CASE RefersToRows(imp.route, {})
  <2>1. geoms' = geoms \cup {imp.route} /\ NextRow /\ Disturb("clear")
    BY <1>3 DEF CreateRouteGeometry
  <2>2. /\ DOMAIN tx' = Tools /\ tx'["clear"].undisturbed = FALSE
        /\ \A p \in Tools : /\ tx'[p] = [tx[p] EXCEPT !.undisturbed = tx'[p].undisturbed]
                            /\ tx'[p].dead = tx[p].dead
    BY <2>1, DisturbedTx DEF CatalogueInv
  <2>3. TypeOK'
    BY <1>1, <1>3, <2>1, <2>2 DEF CatalogueInv, ToolsFit, TablesFit, TypeOK, RefersToRows
  <2>4. NamesUnique' /\ MadeFits' /\ Sources'
    BY <1>1, <2>1 DEF CatalogueInv, TablesFit, NamesUnique, MadeFits, Sources
  <2>5. \A p \in Tools : Spares(p)
    BY <1>1, <2>1, <2>2 DEF CatalogueInv, ToolsFit, Spares, Locked, TablesFit, MadeFits
  <2>6. Undisturbed
    BY <2>2 DEF Undisturbed
  <2>7. ToolsFit'
    BY <2>2, <2>3, <2>4, <2>5, <2>6, WriteStep DEF CatalogueInv, TablesFit
  <2>8. ImportFits'
    BY <1>1, <2>1, NextRowFits DEF CatalogueInv
  <2> QED
    BY <1>2, <2>3, <2>4, <2>7, <2>8 DEF CatalogueInv, TablesFit
<1>4. CASE ~RefersToRows(imp.route, {})
  <2>1. EndImport /\ UNCHANGED <<tables, made, codes, tx>>
    BY <1>1, <1>4 DEF CreateRouteGeometry, tables
  <2> QED
    BY <1>2, <2>1, QuietStep, EndImportFits DEF CatalogueInv
<1> QED
  BY <1>3, <1>4

-----------------------------------------------------------------------------
(* SeedCorridors *)

(* The tools that delete keep away from the rows of the seeder.               *)
LEMMA SeededRoute ==
    ASSUME CatalogueInv, NEW r \in routes, r.name \in SeedRouteNames
    PROVE  r.source # "catalogue" /\ \A p \in Tools : r \notin tx[p].dead.routes
<1>1. r.name \in RouteNames
  BY DEF CatalogueInv, TablesFit, TypeOK
<1>2. r.name \notin FileRoutes \cup routeNamePatterns
  BY <1>1, Families
<1>3. r.source # "catalogue"
  BY <1>2 DEF CatalogueInv, TablesFit, Sources
<1> QED
  BY <1>2, <1>3 DEF CatalogueInv, ToolsFit, TxFits, DeadFits, MayDeleteRoute, Tools

(* The same of the stops of the corridors.                                    *)
LEMMA SeededStop ==
    ASSUME CatalogueInv, NEW s \in stops, s.name \in ToSet(SeedStops)
    PROVE  s.source # "catalogue" /\ \A p \in Tools : s \notin tx[p].dead.stops
<1>1. s.name \in StopNames
  BY DEF CatalogueInv, TablesFit, TypeOK
<1>2. s.name \notin FileStops \cup stopNamePatterns
  BY <1>1, NamesAssumption
<1>3. s.source # "catalogue"
  BY <1>2 DEF CatalogueInv, TablesFit, Sources
<1> QED
  BY <1>2, <1>3 DEF CatalogueInv, ToolsFit, TxFits, DeadFits, MayDeleteStop, Tools

(* A step that leaves the tools alone deletes nothing.                        *)
LEMMA SameTx ==
    ASSUME ToolsFit, UNCHANGED tx
    PROVE  /\ SameDead /\ DOMAIN tx' = Tools
           /\ \A p \in Tools : tx'[p] = [tx[p] EXCEPT !.undisturbed = tx'[p].undisturbed]
<1>1. ASSUME NEW p \in Tools
      PROVE  tx'[p] = [tx[p] EXCEPT !.undisturbed = tx'[p].undisturbed]
  <2>1. PICK t : t = tx[p]
    OBVIOUS
  <2>2. t = [t EXCEPT !.undisturbed = t.undisturbed]
    BY <2>1, SameRecord DEF ToolsFit, TxFits, DeadFits, TxRecord
  <2> QED
    BY <2>1, <2>2
<1> QED
  BY <1>1 DEF SameDead, ToolsFit

(* The seeder goes on with the next corridor, or is done.                     *)
LEMMA NextSeedFits ==
    ASSUME SeedFits, sdr.pc \in {"routes", "legs"}, sdr' = NextSeedRoute(sdr)
    PROVE  SeedFits'
<1>1. sdr.k \in 1 .. Len(SeedRoutes) /\ Len(SeedRoutes) \in Nat
  BY Lengths DEF SeedFits
<1>2. CASE sdr.k = Len(SeedRoutes)
  BY <1>2 DEF NextSeedRoute, NoSeed, SeedFits
<1>3. CASE sdr.k # Len(SeedRoutes)
  <2>1. sdr' = [pc |-> "routes", k |-> sdr.k + 1, leg |-> 1, route |-> NULL]
    BY <1>3 DEF NextSeedRoute, NoSeed
  <2> QED
    BY <1>1, <1>3, <2>1 DEF SeedFits
<1> QED
  BY <1>2, <1>3

(* The seeder starts, or dies.                                                *)
LEMMA SeedReads ==
    ASSUME CatalogueInv, StartSeed \/ InterruptSeed
    PROVE  CatalogueInv'
<1>1. UNCHANGED <<tables, codes, made, imp, tx>>
  BY DEF StartSeed, InterruptSeed
<1>2. TablesFit' /\ ToolsFit'
  BY <1>1, QuietStep DEF CatalogueInv
<1>3. ImportFits'
  BY <1>1 DEF CatalogueInv, ImportFits, Named, row, tables
<1>4. SeedFits'
  <2>1. sdr' = [pc |-> "stops", k |-> 1, leg |-> 1, route |-> NULL] \/ sdr' = NoSeed
    BY DEF StartSeed, InterruptSeed, NoSeed
  <2> QED
    BY <2>1, Lengths DEF SeedFits, NoSeed
<1> QED
  BY <1>2, <1>3, <1>4 DEF CatalogueInv

(* getOrCreateStop of the seeder.                                             *)
LEMMA SeedStopStep ==
    ASSUME CatalogueInv, SeedStop
    PROVE  CatalogueInv'
<1> DEFINE name == SeedStops[sdr.k]
           new == Row("stop", name, "seed")
<1>1. /\ sdr.pc = "stops" /\ sdr.k \in 1 .. Len(SeedStops) /\ Len(SeedStops) \in Nat
      /\ UNCHANGED <<routes, legs, geoms, codes, imp, tx>>
      /\ name \in ToSet(SeedStops) \cap StopNames
  BY Lengths, Families DEF SeedStop, CatalogueInv, SeedFits
<1>2. SeedFits'
  <2>1. CASE sdr.k = Len(SeedStops)
    <3>1. sdr' = [pc |-> "routes", k |-> 1, leg |-> 1, route |-> NULL]
      BY <2>1 DEF SeedStop, NoSeed
    <3> QED
      BY <3>1, Lengths DEF SeedFits
  <2>2. CASE sdr.k # Len(SeedStops)
    <3>1. sdr' = [pc |-> "stops", k |-> sdr.k + 1, leg |-> sdr.leg, route |-> sdr.route]
      BY <1>1, <2>2 DEF SeedStop, CatalogueInv, SeedFits
    <3> QED
      BY <1>1, <2>2, <3>1 DEF SeedFits
  <2> QED
    BY <2>1, <2>2
<1>3. ImportFits'
  BY <1>1 DEF CatalogueInv, ImportFits, Named, row
<1>4. CASE Named(stops, name) # {}
  <2>1. UNCHANGED <<stops, made>>
    BY <1>4 DEF SeedStop
  <2> QED
    BY <1>1, <1>2, <1>3, <2>1, QuietStep DEF CatalogueInv, tables
<1>5. CASE Named(stops, name) = {}
  <2>1. stops' = stops \cup {new} /\ Count("stop", name)
    BY <1>5 DEF SeedStop
  <2>2. /\ SameDead /\ DOMAIN tx' = Tools
        /\ \A p \in Tools : tx'[p] = [tx[p] EXCEPT !.undisturbed = tx'[p].undisturbed]
    BY <1>1, SameTx DEF CatalogueInv
  <2>3. TablesFit'
    <3>1. "seed" = "catalogue" => name \in FileStops
      OBVIOUS
    <3> QED
      BY <1>1, <1>5, <2>1, <2>2, <3>1, NewStop DEF CatalogueInv
  <2>4. made'.route = made.route
    BY <1>1, <2>1, CountStop DEF CatalogueInv, TablesFit
  <2>5. \A p \in Tools : Spares(p)
    BY <1>1, <2>2, <2>4 DEF Spares, CatalogueInv, TablesFit, MadeFits
  <2>6. new.source = "seed"
    BY DEF Row
  <2>7. Undisturbed
    BY <1>1, <2>1, <2>6 DEF Undisturbed
  <2>8. ToolsFit'
    BY <2>2, <2>3, <2>5, <2>7, WriteStep DEF CatalogueInv
  <2> QED
    BY <1>2, <1>3, <2>3, <2>8 DEF CatalogueInv
<1> QED
  BY <1>4, <1>5

(* getOrCreateRoute of the seeder, with or without the legs to follow.        *)
LEMMA SeedRouteStep ==
    ASSUME CatalogueInv, SeedRoute
    PROVE  CatalogueInv'
<1> DEFINE name == SeedRoutes[sdr.k].name
           new == Row("route", name, "seed")
           insertLegs(r) == [sdr EXCEPT !.pc = "legs", !.route = r]
<1>1. /\ sdr.pc = "routes" /\ sdr.k \in 1 .. Len(SeedRoutes)
      /\ UNCHANGED <<stops, legs, geoms, codes, imp, tx>>
      /\ name \in SeedRouteNames \cap RouteNames
  BY Families DEF SeedRoute, CatalogueInv, SeedFits
<1>a. ASSUME NEW r, sdr' = insertLegs(r), r \in routes', r.name = name
      PROVE  SeedFits'
  <2>1. sdr' = [pc |-> "legs", k |-> sdr.k, leg |-> 1, route |-> r]
    BY <1>1, <1>a DEF CatalogueInv, SeedFits
  <2>2. 1 \in 1 .. Len(SeedRoutes[sdr.k].legs)
    BY <1>1, Lengths
  <2> HIDE DEF insertLegs
  <2> QED
    BY <1>1, <1>a, <2>1, <2>2 DEF SeedFits
<1>2. CASE Named(routes, name) # {}
  <2>1. UNCHANGED <<routes, made>>
    BY <1>2 DEF SeedRoute
  <2>2. PICK r \in Named(routes, name) :
           sdr' = IF LegsOf(legs, r) # {} THEN NextSeedRoute(sdr) ELSE insertLegs(r)
    BY <1>2 DEF SeedRoute
  <2>3. TablesFit' /\ ToolsFit'
    BY <1>1, <2>1, QuietStep DEF CatalogueInv, tables
  <2>4. ImportFits'
    BY <1>1, <2>1 DEF CatalogueInv, ImportFits, Named, row
  <2>5. SeedFits'
    <3>1. CASE LegsOf(legs, r) # {}
      BY <1>1, <2>2, <3>1, NextSeedFits DEF CatalogueInv
    <3>2. CASE LegsOf(legs, r) = {}
      BY <1>a, <2>1, <2>2, <3>2 DEF Named
    <3> QED
      BY <3>1, <3>2
  <2> QED
    BY <2>3, <2>4, <2>5 DEF CatalogueInv
<1>3. CASE Named(routes, name) = {}
  <2>1. routes' = routes \cup {new} /\ Count("route", name) /\ sdr' = insertLegs(new)
    BY <1>3 DEF SeedRoute
  <2>2. /\ SameDead /\ DOMAIN tx' = Tools
        /\ \A p \in Tools : tx'[p] = [tx[p] EXCEPT !.undisturbed = tx'[p].undisturbed]
    BY <1>1, SameTx DEF CatalogueInv
  <2>3. /\ TablesFit'
        /\ \A r \in routes' \ routes : r.n > made.route[r.name] /\ r.name = name /\ r.source = "seed"
        /\ \A r \in RouteNames : made'.route[r] >= made.route[r]
    <3>1. "seed" = "catalogue" => name \in FileRoutes
      OBVIOUS
    <3> QED
      BY <1>1, <1>3, <2>1, <2>2, <3>1, NewRoute DEF CatalogueInv
  <2>4. \A p \in Tools : Spares(p)
    BY <1>1, <2>2, <2>3 DEF Spares
  <2>5. Undisturbed
    BY <1>1, <2>3 DEF Undisturbed
  <2>6. ToolsFit'
    BY <2>2, <2>3, <2>4, <2>5, WriteStep DEF CatalogueInv
  <2>7. SeedFits'
    <3>1. new.name = name
      BY DEF Row
    <3>2. PICK r : r = new
      OBVIOUS
    <3> QED
      BY <1>a, <2>1, <3>1, <3>2
  <2>8. ImportFits'
    <3>1. ASSUME imp.pc = "stops"
          PROVE  Named(routes', row.name) = {}
      <4>1. row.name \in FileRoutes \cap RouteNames /\ Named(routes, row.name) = {}
        BY <3>1, RowNames DEF CatalogueInv, ImportFits
      <4>2. row.name # name
        BY <1>1, <4>1, Families
      <4> QED
        BY <2>3, <4>1, <4>2 DEF Named
    <3> QED
      BY <1>1, <3>1 DEF CatalogueInv, ImportFits, Named, row
  <2> QED
    BY <2>3, <2>6, <2>7, <2>8 DEF CatalogueInv
<1> QED
  BY <1>2, <1>3

(* The next leg of a corridor, between stops that exist.                      *)
LEMMA SeedLegStep ==
    ASSUME CatalogueInv, SeedLeg
    PROVE  CatalogueInv'
<1> DEFINE all == SeedRoutes[sdr.k].legs
<1>1. /\ sdr.pc = "legs" /\ sdr.k \in 1 .. Len(SeedRoutes) /\ sdr.leg \in 1 .. Len(all)
      /\ sdr.route \in routes /\ sdr.route.name \in SeedRouteNames
      /\ {all[sdr.leg].from, all[sdr.leg].to} \subseteq ToSet(SeedStops)
      /\ UNCHANGED <<stops, routes, geoms, codes, made, imp, tx>>
  BY Families, Lengths DEF SeedLeg, CatalogueInv, SeedFits
<1>2. PICK from \in Named(stops, all[sdr.leg].from), to \in Named(stops, all[sdr.leg].to) :
         legs' = legs \cup {[route |-> sdr.route, seq |-> sdr.leg, from |-> from, to |-> to,
                            fare |-> all[sdr.leg].fare]}
  BY DEF SeedLeg
<1>3. PICK l : /\ l = [route |-> sdr.route, seq |-> sdr.leg, from |-> from, to |-> to,
                       fare |-> all[sdr.leg].fare]
               /\ legs' = legs \cup {l}
  BY <1>2
<1>4. /\ l.route \in routes /\ l.route.name \in SeedRouteNames
      /\ \A s \in {l.from, l.to} : s \in stops /\ s.name \in ToSet(SeedStops)
  BY <1>1, <1>2, <1>3 DEF Named
<1>5. /\ l.route.source # "catalogue" /\ l.from.source # "catalogue" /\ l.to.source # "catalogue"
      /\ \A p \in Tools : /\ l.route \notin tx[p].dead.routes
                          /\ l.from \notin tx[p].dead.stops /\ l.to \notin tx[p].dead.stops
  BY <1>4, SeededRoute, SeededStop
<1>6. /\ SameDead /\ DOMAIN tx' = Tools
      /\ \A p \in Tools : tx'[p] = [tx[p] EXCEPT !.undisturbed = tx'[p].undisturbed]
  BY <1>1, SameTx DEF CatalogueInv
<1>7. TablesFit'
  <2>1. TypeOK'
    BY <1>1, <1>3, <1>4 DEF CatalogueInv, TablesFit, TypeOK
  <2>2. NamesUnique' /\ MadeFits' /\ Sources'
    BY <1>1, <1>3, <1>5 DEF CatalogueInv, TablesFit, NamesUnique, MadeFits, Sources
  <2> QED
    BY <2>1, <2>2 DEF TablesFit
<1>8. ASSUME NEW p \in Tools PROVE Spares(p)
  <2>1. legs' \ legs \subseteq {l} /\ geoms' \ geoms = {} /\ codes' \ codes = {}
        /\ routes' \ routes = {} /\ made' = made
    BY <1>1, <1>3
  <2>2. tx'[p] = [tx[p] EXCEPT !.undisturbed = tx'[p].undisturbed]
    BY <1>6
  <2>3. l.route \notin tx[p].dead.routes /\ {l.from, l.to} \cap tx[p].dead.stops = {}
    BY <1>5
  <2>4. \A name \in RouteNames : made.route[name] \in Nat
    BY DEF CatalogueInv, TablesFit, MadeFits
  <2>5. \A name \in RouteNames : made'.route[name] >= made.route[name]
    BY <2>1, <2>4
  <2> QED
    BY <2>1, <2>2, <2>3, <2>5 DEF Spares
<1>9. Undisturbed
  BY <1>1, <1>3, <1>5 DEF Undisturbed
<1>10. ToolsFit'
  BY <1>6, <1>7, <1>8, <1>9, WriteStep DEF CatalogueInv
<1>11. ImportFits'
  BY <1>1 DEF CatalogueInv, ImportFits, Named, row
<1>12. SeedFits'
  <2>1. CASE sdr.leg = Len(all)
    BY <1>1, <2>1, NextSeedFits DEF CatalogueInv, SeedLeg
  <2>2. CASE sdr.leg # Len(all)
    <3>1. sdr' = [pc |-> "legs", k |-> sdr.k, leg |-> sdr.leg + 1, route |-> sdr.route]
      <4>1. sdr' = [sdr EXCEPT !.leg = @ + 1]
        BY <2>2 DEF SeedLeg
      <4>2. sdr = [pc |-> sdr.pc, k |-> sdr.k, leg |-> sdr.leg, route |-> sdr.route]
        BY DEF CatalogueInv, SeedFits
      <4> QED
        BY <1>1, <4>1, <4>2
    <3>2. sdr.leg + 1 \in 1 .. Len(all)
      <4>1. PICK n \in Nat : n = Len(all)
        BY <1>1, Lengths
      <4>2. sdr.leg \in 1 .. n /\ sdr.leg # n
        BY <1>1, <2>2, <4>1
      <4>3. sdr.leg + 1 \in 1 .. n
        BY <4>2
      <4> QED
        BY <4>1, <4>3
    <3> QED
      BY <1>1, <3>1, <3>2 DEF CatalogueInv, SeedFits
  <2> QED
    BY <2>1, <2>2
<1> QED
  BY <1>7, <1>10, <1>11, <1>12 DEF CatalogueInv

-----------------------------------------------------------------------------
(* The tools that delete.  A step of one of them before its COMMIT changes    *)
(* nothing but what it has deleted.                                           *)
LEMMA OwnStep ==
    ASSUME CatalogueInv, NEW p \in Tools, UNCHANGED <<tables, made, imp, sdr>>, codes' \subseteq codes,
           DOMAIN tx' = Tools, \A q \in Tools \ {p} : tx'[q] = tx[q],
           tx'[p].dead.routes \subseteq routes, tx'[p].dead.stops \subseteq stops,
           TxFits(p)', p = "clear" => ClearedSoFar'
    PROVE  CatalogueInv'
<1>1. TablesFit'
  BY ReadStep DEF CatalogueInv, TablesFit, TypeOK, ToolsFit
<1>2. ImportFits' /\ SeedFits'
  BY DEF CatalogueInv, ImportFits, SeedFits, Named, row, tables
<1>3. ASSUME NEW q \in Tools \ {p}
      PROVE  Spares(q)
  <2>1. PICK t : t = tx[q]
    OBVIOUS
  <2>2. t = [t EXCEPT !.undisturbed = t.undisturbed]
    BY <2>1, SameRecord DEF CatalogueInv, ToolsFit, TxFits, DeadFits, TxRecord
  <2> QED
    BY <2>1, <2>2 DEF Spares, tables, CatalogueInv, TablesFit, MadeFits
<1>4. \A q \in Tools \ {p} : TxFits(q)'
  BY <1>1, <1>3, AsideStep DEF CatalogueInv
<1>5. ClearedSoFar'
  <2>1. CASE p = "cleanup"
    <3>1. Undisturbed
      BY <2>1 DEF Undisturbed, Tools, tables
    <3> QED
      BY <1>3, <2>1, <3>1, SparedClear DEF CatalogueInv, ToolsFit, Tools
  <2> QED
    BY <2>1 DEF Tools
<1> QED
  BY <1>1, <1>2, <1>4, <1>5 DEF CatalogueInv, ToolsFit

(* A tool that has deleted nothing fits.                                      *)
LEMMA FreshTx ==
    ASSUME NEW p \in Tools, TxRecord(tx'[p]), tx'[p].dead = Nothing, tx'[p].matched = {}
    PROVE  TxFits(p)' /\ tx'[p].dead.routes = {} /\ tx'[p].dead.stops = {}
<1>1. DeadFits(p)'
  BY DEF DeadFits, Nothing, TxRecord
<1>2. Closed(p)' /\ RoutesFollowLegs(p)'
  BY DEF Closed, RoutesFollowLegs, Nothing
<1> QED
  BY <1>1, <1>2 DEF TxFits, Nothing

(* Delete adds rows to one table's part.                                      *)
LEMMA DeleteTx ==
    ASSUME ToolsFit, NEW p \in Tools, NEW table \in {"stops", "routes", "legs", "geoms", "codes"},
           NEW rows, NEW label, Delete(p, table, rows, label)
    PROVE  /\ DOMAIN tx' = Tools /\ \A q \in Tools \ {p} : tx'[q] = tx[q]
           /\ tx'[p] = [pc |-> label, none |-> tx[p].none, matched |-> tx[p].matched,
                        dead |-> [tx[p].dead EXCEPT ![table] = @ \cup rows],
                        undisturbed |-> tx[p].undisturbed]
<1>1. DOMAIN tx = Tools
  BY DEF ToolsFit
<1>2. tx' = [tx EXCEPT ![p] = [tx[p] EXCEPT !.dead = [tx[p].dead EXCEPT ![table] = @ \cup rows],
                                            !.pc = label]]
  BY <1>1 DEF Delete
<1>3. TxRecord(tx[p])
  BY DEF ToolsFit, TxFits, DeadFits, TxRecord
<1>4. tx'[p] = [tx[p] EXCEPT !.dead = [tx[p].dead EXCEPT ![table] = @ \cup rows], !.pc = label]
  BY <1>1, <1>2
<1>5. PICK t, dead : t = tx[p] /\ dead = [tx[p].dead EXCEPT ![table] = @ \cup rows]
  OBVIOUS
<1>6. [t EXCEPT !.dead = dead, !.pc = label] =
         [pc |-> label, none |-> t.none, matched |-> t.matched, dead |-> dead,
          undisturbed |-> t.undisturbed]
  <2>1. TxRecord(t)
    BY <1>3, <1>5
  <2> QED
    BY <2>1, NextRecord
<1> QED
  BY <1>1, <1>2, <1>4, <1>5, <1>6

(* What Delete makes of the rows a tool has deleted, table by table.          *)
Grown(d, table, rows, name) == IF name = table THEN d[name] \cup rows ELSE d[name]

(* The deleted rows, per table.                                               *)
DeadRecord(d) ==
    d = [stops |-> d.stops, routes |-> d.routes, legs |-> d.legs, geoms |-> d.geoms,
         codes |-> d.codes]

(* Delete of stops replaces that part of the deleted rows, ...                *)
LEMMA GrowStops ==
    ASSUME NEW d, DeadRecord(d), NEW x, NEW e, e = [d EXCEPT !.stops = x]
    PROVE  /\ DeadRecord(e) /\ e.stops = x
           /\ e.routes = d.routes /\ e.legs = d.legs /\ e.geoms = d.geoms /\ e.codes = d.codes
  BY DEF DeadRecord

(* ... of routes that one, ...                                                *)
LEMMA GrowRoutes ==
    ASSUME NEW d, DeadRecord(d), NEW x, NEW e, e = [d EXCEPT !.routes = x]
    PROVE  /\ DeadRecord(e) /\ e.routes = x
           /\ e.stops = d.stops /\ e.legs = d.legs /\ e.geoms = d.geoms /\ e.codes = d.codes
  BY DEF DeadRecord

(* ... and so on.                                                             *)
LEMMA GrowLegs ==
    ASSUME NEW d, DeadRecord(d), NEW x, NEW e, e = [d EXCEPT !.legs = x]
    PROVE  /\ DeadRecord(e) /\ e.legs = x
           /\ e.stops = d.stops /\ e.routes = d.routes /\ e.geoms = d.geoms /\ e.codes = d.codes
  BY DEF DeadRecord

(* The part of the geometries.                                                *)
LEMMA GrowGeoms ==
    ASSUME NEW d, DeadRecord(d), NEW x, NEW e, e = [d EXCEPT !.geoms = x]
    PROVE  /\ DeadRecord(e) /\ e.geoms = x
           /\ e.stops = d.stops /\ e.routes = d.routes /\ e.legs = d.legs /\ e.codes = d.codes
  BY DEF DeadRecord

(* The part of the boarding codes.                                            *)
LEMMA GrowCodes ==
    ASSUME NEW d, DeadRecord(d), NEW x, NEW e, e = [d EXCEPT !.codes = x]
    PROVE  /\ DeadRecord(e) /\ e.codes = x
           /\ e.stops = d.stops /\ e.routes = d.routes /\ e.legs = d.legs /\ e.geoms = d.geoms
  BY DEF DeadRecord

(* The deleted rows of one table become x.                                    *)
Replaces(e, d, table, x) == e = [d EXCEPT ![table] = x]

(* Delete adds rows to the part of one table and to no other.                 *)
LEMMA MoreDead ==
    ASSUME NEW d, DeadRecord(d), NEW rows,
           NEW table \in {"stops", "routes", "legs", "geoms", "codes"},
           NEW x, x = d[table] \cup rows, NEW e, Replaces(e, d, table, x)
    PROVE  /\ DeadRecord(e)
           /\ e.stops = Grown(d, table, rows, "stops") /\ e.routes = Grown(d, table, rows, "routes")
           /\ e.legs = Grown(d, table, rows, "legs") /\ e.geoms = Grown(d, table, rows, "geoms")
           /\ e.codes = Grown(d, table, rows, "codes")
<1>1. CASE table = "stops"
  <2>1. e = [d EXCEPT !.stops = x]
    BY <1>1, Zenon DEF Replaces
  <2>2. /\ DeadRecord(e) /\ e.stops = x
        /\ e.routes = d.routes /\ e.legs = d.legs /\ e.geoms = d.geoms /\ e.codes = d.codes
    BY <2>1, GrowStops
  <2> QED
    BY <1>1, <2>2 DEF Grown
<1>2. CASE table = "routes"
  <2>1. e = [d EXCEPT !.routes = x]
    BY <1>2, Zenon DEF Replaces
  <2>2. /\ DeadRecord(e) /\ e.routes = x
        /\ e.stops = d.stops /\ e.legs = d.legs /\ e.geoms = d.geoms /\ e.codes = d.codes
    BY <2>1, GrowRoutes
  <2> QED
    BY <1>2, <2>2 DEF Grown
<1>3. CASE table = "legs"
  <2>1. e = [d EXCEPT !.legs = x]
    BY <1>3, Zenon DEF Replaces
  <2>2. /\ DeadRecord(e) /\ e.legs = x
        /\ e.stops = d.stops /\ e.routes = d.routes /\ e.geoms = d.geoms /\ e.codes = d.codes
    BY <2>1, GrowLegs
  <2> QED
    BY <1>3, <2>2 DEF Grown
<1>4. CASE table = "geoms"
  <2>1. e = [d EXCEPT !.geoms = x]
    BY <1>4, Zenon DEF Replaces
  <2>2. /\ DeadRecord(e) /\ e.geoms = x
        /\ e.stops = d.stops /\ e.routes = d.routes /\ e.legs = d.legs /\ e.codes = d.codes
    BY <2>1, GrowGeoms
  <2> QED
    BY <1>4, <2>2 DEF Grown
<1>5. CASE table = "codes"
  <2>1. e = [d EXCEPT !.codes = x]
    BY <1>5, Zenon DEF Replaces
  <2>2. /\ DeadRecord(e) /\ e.codes = x
        /\ e.stops = d.stops /\ e.routes = d.routes /\ e.legs = d.legs /\ e.geoms = d.geoms
    BY <2>1, GrowCodes
  <2> QED
    BY <1>5, <2>2 DEF Grown
<1> QED
  BY <1>1, <1>2, <1>3, <1>4, <1>5

(* The state of the tool after Delete.                                        *)
LEMMA Deleted ==
    ASSUME ToolsFit, NEW p \in Tools, NEW table \in {"stops", "routes", "legs", "geoms", "codes"},
           NEW rows, NEW label, Delete(p, table, rows, label)
    PROVE  LET d == tx[p].dead
               e == tx'[p].dead
           IN  /\ DOMAIN tx' = Tools /\ \A q \in Tools \ {p} : tx'[q] = tx[q]
               /\ TxRecord(tx'[p]) /\ DeadRecord(e)
               /\ tx'[p].pc = label /\ tx'[p].none = tx[p].none /\ tx'[p].matched = tx[p].matched
               /\ tx'[p].undisturbed = tx[p].undisturbed
               /\ e.stops = Grown(d, table, rows, "stops") /\ e.routes = Grown(d, table, rows, "routes")
               /\ e.legs = Grown(d, table, rows, "legs") /\ e.geoms = Grown(d, table, rows, "geoms")
               /\ e.codes = Grown(d, table, rows, "codes")
<1>1. PICK d : d = tx[p].dead
  OBVIOUS
<1>2. PICK e : e = [d EXCEPT ![table] = @ \cup rows]
  OBVIOUS
<1>x. PICK x : x = d[table] \cup rows
  OBVIOUS
<1>3. DeadRecord(d)
  BY <1>1 DEF ToolsFit, TxFits, DeadFits, DeadRecord
<1>4. /\ DeadRecord(e)
      /\ e.stops = Grown(d, table, rows, "stops") /\ e.routes = Grown(d, table, rows, "routes")
      /\ e.legs = Grown(d, table, rows, "legs") /\ e.geoms = Grown(d, table, rows, "geoms")
      /\ e.codes = Grown(d, table, rows, "codes")
  <2>1. Replaces(e, d, table, x)
    BY <1>2, <1>x, Zenon DEF Replaces
  <2> QED
    BY <1>3, <1>x, <2>1, MoreDead
<1>5. /\ DOMAIN tx' = Tools /\ \A q \in Tools \ {p} : tx'[q] = tx[q]
      /\ tx'[p] = [pc |-> label, none |-> tx[p].none, matched |-> tx[p].matched, dead |-> e,
                   undisturbed |-> tx[p].undisturbed]
  BY <1>1, <1>2, DeleteTx
<1>6. PICK u : u = tx'[p]
  OBVIOUS
<1>7. /\ TxRecord(u) /\ u.dead = e /\ u.pc = label /\ u.none = tx[p].none
      /\ u.matched = tx[p].matched /\ u.undisturbed = tx[p].undisturbed
  BY <1>5, <1>6 DEF TxRecord
<1> QED
  BY <1>1, <1>4, <1>5, <1>6, <1>7

(* A tool starts over, or is rolled back.                                     *)
Fresh(p, u) ==
    /\ u = [pc |-> u.pc, none |-> u.none, matched |-> {}, dead |-> Nothing,
            undisturbed |-> u.undisturbed]
    /\ DOMAIN tx' = Tools /\ tx'[p] = u /\ \A q \in Tools \ {p} : tx'[q] = tx[q]
    /\ p = "clear" => \/ u.pc \in {"idle", "match", "done"}
                      \/ (u.pc = "count" /\ (u.none => FromCatalogue(routes) = {}))

(* A tool that starts over preserves the invariant.                           *)
LEMMA FreshStep ==
    ASSUME CatalogueInv, NEW p \in Tools, UNCHANGED <<tables, made, imp, sdr>>,
           codes' \subseteq codes, NEW u, Fresh(p, u)
    PROVE  CatalogueInv'
<1>1. TxRecord(u) /\ u.dead = Nothing /\ u.matched = {}
  BY DEF Fresh, TxRecord
<1>2. TxFits(p)' /\ tx'[p].dead.routes = {} /\ tx'[p].dead.stops = {}
  BY <1>1, FreshTx DEF Fresh
<1>3. p = "clear" => ClearedSoFar'
  BY DEF Fresh, ClearedSoFar, FromCatalogue, tables
<1> QED
  BY <1>2, <1>3, OwnStep DEF Fresh

(* cmd/clearcatalogue counts, and stops there unless told to delete.          *)
LEMMA CountRoutesStep ==
    ASSUME CatalogueInv, CountRoutes
    PROVE  CatalogueInv'
<1>1. /\ UNCHANGED <<tables, made, imp, sdr, codes>> /\ "clear" \in Tools /\ DOMAIN tx = Tools
  BY DEF CountRoutes, Tools, CatalogueInv, ToolsFit
<1>2. PICK u : u = [pc |-> "count", none |-> FromCatalogue(routes) = {}, matched |-> {},
                    dead |-> Nothing, undisturbed |-> TRUE]
  OBVIOUS
<1>3. tx' = [tx EXCEPT !["clear"] = u]
  <2>1. PICK b, no, yes : b = (FromCatalogue(routes) = {}) /\ no = FALSE /\ yes = TRUE
    BY Zenon
  <2>2. PICK t : t = [NoTx EXCEPT !.pc = "count"]
    OBVIOUS
  <2>3. t = [pc |-> "count", none |-> no, matched |-> {}, dead |-> Nothing, undisturbed |-> yes]
    BY <2>1, <2>2 DEF NoTx
  <2>4. [t EXCEPT !.none = b] =
            [pc |-> "count", none |-> b, matched |-> {}, dead |-> Nothing, undisturbed |-> yes]
    BY <2>3, SetNone
  <2>5. [NoTx EXCEPT !.pc = "count", !.none = b] = [t EXCEPT !.none = b]
    BY <2>2, Zenon
  <2>6. [NoTx EXCEPT !.pc = "count", !.none = b] = u
    BY <1>2, <2>1, <2>4, <2>5, Zenon
  <2> QED
    BY <2>1, <2>6, Zenon DEF CountRoutes
<1>4. u.pc = "count" /\ u.none = (FromCatalogue(routes) = {}) /\ u.undisturbed = TRUE
  BY <1>2
<1>5. u = [pc |-> u.pc, none |-> u.none, matched |-> {}, dead |-> Nothing,
           undisturbed |-> u.undisturbed]
  BY <1>2, <1>4
<1>6. Fresh("clear", u)
  BY <1>1, <1>3, <1>4, <1>5 DEF Fresh
<1> QED
  BY <1>1, <1>6, FreshStep, Zenon

(* A tool goes on without deleting anything.                                  *)
LEMMA LabelStep ==
    ASSUME CatalogueInv, NEW p \in Tools, NEW label, label \notin {"match", "stops", "commit"},
           p = "clear" => label \in {"done", "geoms"},
           tx' = [tx EXCEPT ![p].pc = label], UNCHANGED <<tables, codes, made, imp, sdr>>
    PROVE  CatalogueInv'
<1>1. DOMAIN tx = Tools /\ TxRecord(tx[p]) /\ TxFits(p) /\ TypeOK
  BY DEF CatalogueInv, TablesFit, ToolsFit, TxFits, DeadFits, TxRecord
<1>2. /\ DOMAIN tx' = Tools /\ \A q \in Tools \ {p} : tx'[q] = tx[q]
      /\ tx'[p] = [tx[p] EXCEPT !.pc = label]
  BY <1>1
<1>3. PICK t, u : t = tx[p] /\ u = tx'[p]
  OBVIOUS
<1>4. u = [pc |-> label, none |-> t.none, matched |-> t.matched, dead |-> t.dead,
           undisturbed |-> t.undisturbed]
  BY <1>1, <1>2, <1>3, SetPc
<1>5. TxRecord(u) /\ u.pc = label /\ u.matched = t.matched /\ u.dead = t.dead
  BY <1>4 DEF TxRecord
<1>6. DeadFits(p)'
  BY <1>1, <1>3, <1>5 DEF TxFits, DeadFits, TxRecord, MayDeleteRoute, MayDeleteStop
<1>7. Closed(p)' /\ RoutesFollowLegs(p)'
  BY <1>1, <1>3, <1>5 DEF TxFits, Closed, RoutesFollowLegs, LegsSeen, tables
<1>8. p = "clear" => ClearedSoFar'
  BY <1>3, <1>5 DEF ClearedSoFar
<1>9. tx'[p].dead.routes \subseteq routes /\ tx'[p].dead.stops \subseteq stops
  BY <1>1, <1>3, <1>5 DEF TypeOK
<1> QED
  BY <1>2, <1>6, <1>7, <1>8, <1>9, OwnStep DEF TxFits

(* A transaction is rolled back: all it had deleted is there again.           *)
LEMMA RollBackStep ==
    ASSUME CatalogueInv, NEW p \in Tools, tx' = [tx EXCEPT ![p] = NoTx],
           UNCHANGED <<tables, codes, made, imp, sdr>>
    PROVE  CatalogueInv'
<1>1. DOMAIN tx' = Tools /\ tx'[p] = NoTx /\ \A q \in Tools \ {p} : tx'[q] = tx[q]
  BY DEF CatalogueInv, ToolsFit
<1>2. Fresh(p, NoTx)
  BY <1>1 DEF Fresh, NoTx
<1> QED
  BY <1>2, FreshStep

(* After the second count it ends, or begins to delete.                       *)
LEMMA CountStopsStep ==
    ASSUME CatalogueInv, CountStops
    PROVE  CatalogueInv'
<1>1. UNCHANGED <<tables, codes, made, imp, sdr>> /\ "clear" \in Tools
  BY DEF CountStops, Tools
<1>2. CASE tx' = [tx EXCEPT !["clear"] = NoTx]
  BY <1>1, <1>2, RollBackStep
<1>3. CASE tx' = [tx EXCEPT !["clear"].pc =
                     IF tx["clear"].none /\ FromCatalogue(stops) = {} THEN "done" ELSE "geoms"]
  <2>1. PICK label : label = IF tx["clear"].none /\ FromCatalogue(stops) = {} THEN "done" ELSE "geoms"
    OBVIOUS
  <2>2. tx' = [tx EXCEPT !["clear"].pc = label] /\ label \in {"done", "geoms"}
    BY <1>3, <2>1
  <2> QED
    BY <1>1, <2>2, LabelStep
<1> QED
  BY <1>2, <1>3 DEF CountStops

(* A statement of a tool deletes rows it may delete, to which no row that it  *)
(* leaves refers.                                                             *)
MayDelete(p, table, rows) ==
    /\ table = "stops" => \A s \in rows : /\ s \in stops /\ MayDeleteStop(p, s)
                                          /\ \A l \in LegsSeen(p) : ~Uses(l, s)
    /\ table = "routes" => /\ ~Referenced(p, rows)
                           /\ \A r \in rows : r \in routes /\ MayDeleteRoute(p, r)
    /\ table = "legs" =>
           \A l \in rows : l \in legs /\ IF p = "clear" THEN MayDeleteRoute(p, l.route)
                                         ELSE l.route \in tx[p].matched
    /\ table = "codes" => \A c \in rows : c.route \in tx[p].matched

(* A statement that deletes such rows preserves the invariant.                *)
LEMMA DeleteStep ==
    ASSUME CatalogueInv, NEW p \in Tools,
           NEW table \in {"stops", "routes", "legs", "geoms", "codes"}, NEW rows, NEW label,
           Delete(p, table, rows, label), UNCHANGED <<tables, codes, made, imp, sdr>>,
           MayDelete(p, table, rows), label # "match",
           label = "stops" =>
               table = "routes" /\ \A l \in tx[p].dead.legs : l.route \in routes => l.route \in rows,
           label = "commit" => tx[p].pc = "stops" /\ table = "stops",
           p = "clear" => ClearedSoFar'
    PROVE  CatalogueInv'
<1>1. ToolsFit /\ TxFits(p) /\ TypeOK
  BY DEF CatalogueInv, TablesFit, ToolsFit
<1>2. PICK t, u, d, e : t = tx[p] /\ u = tx'[p] /\ d = t.dead /\ e = u.dead
  OBVIOUS
<1>3. /\ DOMAIN tx' = Tools /\ \A q \in Tools \ {p} : tx'[q] = tx[q]
      /\ TxRecord(u) /\ DeadRecord(e) /\ u.pc = label /\ u.matched = t.matched
      /\ e.stops = Grown(d, table, rows, "stops") /\ e.routes = Grown(d, table, rows, "routes")
      /\ e.legs = Grown(d, table, rows, "legs") /\ e.geoms = Grown(d, table, rows, "geoms")
      /\ e.codes = Grown(d, table, rows, "codes")
  BY <1>1, <1>2, Deleted
<1>4. /\ d.stops \subseteq e.stops /\ d.routes \subseteq e.routes /\ d.legs \subseteq e.legs
      /\ d.geoms \subseteq e.geoms /\ d.codes \subseteq e.codes
      /\ \A s \in e.stops \ d.stops : table = "stops" /\ s \in rows
      /\ \A r \in e.routes \ d.routes : table = "routes" /\ r \in rows
      /\ \A l \in e.legs \ d.legs : table = "legs" /\ l \in rows
      /\ \A c \in e.codes \ d.codes : table = "codes" /\ c \in rows
  BY <1>3 DEF Grown
<1>5. DeadFits(p)'
  <2>1. \A s \in e.stops : MayDeleteStop(p, s)
    BY <1>1, <1>2, <1>4 DEF TxFits, DeadFits, MayDelete
  <2>2. \A r \in e.routes : MayDeleteRoute(p, r)
    BY <1>1, <1>2, <1>4 DEF TxFits, DeadFits, MayDelete
  <2>3. \A l \in e.legs : /\ IF p = "clear" THEN MayDeleteRoute(p, l.route) ELSE l.route \in t.matched
                          /\ l.route.name \in RouteNames
                          /\ l.route.n \in 1 .. made.route[l.route.name]
    BY <1>1, <1>2, <1>4 DEF TxFits, DeadFits, MayDelete, TypeOK
  <2>4. \A c \in e.codes : c.route \in t.matched
    BY <1>1, <1>2, <1>4 DEF TxFits, DeadFits, MayDelete
  <2>5. \A r \in t.matched : p = "cleanup" /\ MayDeleteRoute(p, r)
    BY <1>1, <1>2 DEF TxFits, DeadFits
  <2>6. tx'[p].dead = e /\ tx'[p] = u /\ made' = made
    BY <1>2
  <2> QED
    BY <1>3, <2>1, <2>2, <2>3, <2>4, <2>5, <2>6
    DEF DeadFits, TxRecord, DeadRecord, MayDeleteRoute, MayDeleteStop
<1>6. Closed(p)'
  <2>1. tx'[p].dead = e /\ legs' = legs /\ geoms' = geoms /\ codes' = codes
    BY <1>2 DEF tables
  <2>2. ASSUME NEW l \in legs \ e.legs
        PROVE  l.route \notin e.routes /\ {l.from, l.to} \cap e.stops = {}
    <3>1. l \in LegsSeen(p)
      BY <1>2, <1>4 DEF LegsSeen
    <3>2. l.route \notin d.routes /\ {l.from, l.to} \cap d.stops = {}
      BY <1>1, <1>2, <3>1 DEF TxFits, Closed
    <3>3. l.route \notin e.routes
      BY <1>4, <3>1, <3>2 DEF MayDelete, Referenced
    <3>4. l.from \notin e.stops /\ l.to \notin e.stops
      BY <1>4, <3>1, <3>2 DEF MayDelete, Uses
    <3> QED
      BY <3>3, <3>4
  <2>3. (geoms \ e.geoms) \cap e.routes = {}
    BY <1>1, <1>2, <1>4 DEF TxFits, Closed, MayDelete, Referenced
  <2>4. \A c \in codes \ e.codes : c.route \notin e.routes
    BY <1>1, <1>2, <1>4 DEF TxFits, Closed, MayDelete, Referenced
  <2> QED
    BY <2>1, <2>2, <2>3, <2>4 DEF Closed, LegsSeen
<1>7. RoutesFollowLegs(p)'
  <2>1. tx'[p].dead = e /\ tx'[p].pc = label /\ routes' = routes
    BY <1>2, <1>3 DEF tables
  <2>2. CASE label = "stops"
    BY <1>2, <1>3, <2>1, <2>2 DEF RoutesFollowLegs, Grown
  <2>3. CASE label = "commit"
    BY <1>1, <1>2, <1>3, <2>1, <2>3 DEF TxFits, RoutesFollowLegs, Grown
  <2> QED
    BY <2>1, <2>2, <2>3 DEF RoutesFollowLegs
<1>8. tx'[p].dead.routes \subseteq routes /\ tx'[p].dead.stops \subseteq stops
  <2>1. d.routes \subseteq routes /\ d.stops \subseteq stops
    BY <1>1, <1>2 DEF TypeOK, ToolsFit
  <2>2. e.routes \subseteq routes /\ e.stops \subseteq stops
    BY <1>4, <2>1 DEF MayDelete
  <2> QED
    BY <1>2, <2>2
<1> QED
  BY <1>3, <1>5, <1>6, <1>7, <1>8, OwnStep DEF TxFits

(* The statements of DeleteCatalogueData, one by one: each leaves nothing of  *)
(* its table unless an import has written in the meantime.                    *)
LEMMA DeleteGeometriesStep ==
    ASSUME CatalogueInv, DeleteGeometries
    PROVE  CatalogueInv'
<1> DEFINE rows == geoms \cap FromCatalogue(routes)
<1>1. /\ Delete("clear", "geoms", rows, "legs") /\ UNCHANGED <<tables, codes, made, imp, sdr>>
      /\ "clear" \in Tools /\ ToolsFit
  BY DEF DeleteGeometries, Tools, CatalogueInv
<1>2. PICK t, u : t = tx["clear"] /\ u = tx'["clear"]
  OBVIOUS
<1>3. u.pc = "legs" /\ u.dead.geoms = t.dead.geoms \cup rows
  BY <1>1, <1>2, Deleted DEF Grown
<1>4. geoms \subseteq rows
  BY DEF CatalogueInv, TablesFit, TypeOK, Sources, FromCatalogue
<1>5. ClearedSoFar'
  BY <1>1, <1>2, <1>3, <1>4 DEF ClearedSoFar, tables
<1>6. MayDelete("clear", "geoms", rows)
  BY DEF MayDelete
<1> QED
  BY <1>1, <1>5, <1>6, DeleteStep

(* The legs of catalogue routes.                                              *)
LEMMA DeleteCatalogueLegsStep ==
    ASSUME CatalogueInv, DeleteCatalogueLegs
    PROVE  CatalogueInv'
<1> DEFINE rows == {l \in legs : l.route \in FromCatalogue(routes)}
<1>1. /\ Delete("clear", "legs", rows, "routes") /\ UNCHANGED <<tables, codes, made, imp, sdr>>
      /\ "clear" \in Tools /\ ToolsFit
  BY DEF DeleteCatalogueLegs, Tools, CatalogueInv
<1>2. PICK t, u : t = tx["clear"] /\ u = tx'["clear"]
  OBVIOUS
<1>3. /\ u.pc = "routes" /\ u.dead.geoms = t.dead.geoms /\ u.dead.legs = t.dead.legs \cup rows
      /\ u.undisturbed = t.undisturbed /\ t.pc = "legs"
  <2>1. t.pc = "legs"
    BY <1>2 DEF DeleteCatalogueLegs, At
  <2> HIDE DEF rows
  <2> QED
    BY <1>1, <1>2, <2>1, Deleted DEF Grown
<1>4. \A l \in legs \ rows : l.route.source # "catalogue"
  BY DEF CatalogueInv, TablesFit, TypeOK, FromCatalogue
<1>5. ClearedSoFar'
  BY <1>1, <1>2, <1>3, <1>4 DEF ClearedSoFar, CatalogueInv, ToolsFit, tables, LegsSeen
<1>6. MayDelete("clear", "legs", rows)
  BY DEF MayDelete, MayDeleteRoute, FromCatalogue
<1> QED
  BY <1>1, <1>5, <1>6, DeleteStep

(* The catalogue routes, or nothing when a foreign key refuses.               *)
LEMMA DeleteCatalogueRoutesStep ==
    ASSUME CatalogueInv, DeleteCatalogueRoutes
    PROVE  CatalogueInv'
<1> DEFINE rows == FromCatalogue(routes)
<1>1. /\ UNCHANGED <<tables, codes, made, imp, sdr>> /\ "clear" \in Tools /\ ToolsFit
      /\ tx["clear"].pc = "routes"
  BY DEF DeleteCatalogueRoutes, DeleteRoutes, Tools, CatalogueInv, At
<1>2. CASE Referenced("clear", rows)
  BY <1>1, <1>2, RollBackStep DEF DeleteCatalogueRoutes, DeleteRoutes
<1>3. CASE ~Referenced("clear", rows)
  <2>1. Delete("clear", "routes", rows, "stops")
    BY <1>3 DEF DeleteCatalogueRoutes, DeleteRoutes
  <2>2. PICK t, u : t = tx["clear"] /\ u = tx'["clear"]
    OBVIOUS
  <2>3. /\ u.pc = "stops" /\ u.dead.geoms = t.dead.geoms /\ u.dead.legs = t.dead.legs
        /\ u.dead.routes = t.dead.routes \cup rows /\ u.undisturbed = t.undisturbed
    BY <1>1, <2>1, <2>2, Deleted DEF Grown
  <2>4. ClearedSoFar'
    BY <1>1, <2>2, <2>3 DEF ClearedSoFar, ToolsFit, tables, LegsSeen, FromCatalogue
  <2>5. MayDelete("clear", "routes", rows)
    BY <1>3 DEF MayDelete, MayDeleteRoute, FromCatalogue
  <2>6. \A l \in tx["clear"].dead.legs : l.route \in routes => l.route \in rows
    <3>1. \A l \in tx["clear"].dead.legs : MayDeleteRoute("clear", l.route)
      BY <1>1 DEF ToolsFit, TxFits, DeadFits
    <3> QED
      BY <3>1 DEF MayDeleteRoute, FromCatalogue
  <2> QED
    BY <1>1, <2>1, <2>4, <2>5, <2>6, DeleteStep
<1> QED
  BY <1>2, <1>3

(* The catalogue stops that no leg uses, which are all of them when           *)
(* undisturbed: only catalogue routes lead to catalogue stops.                *)
LEMMA DeleteCatalogueStopsStep ==
    ASSUME CatalogueInv, DeleteCatalogueStops
    PROVE  CatalogueInv'
<1> DEFINE rows == Unused("clear", FromCatalogue(stops))
<1>1. /\ Delete("clear", "stops", rows, "commit") /\ UNCHANGED <<tables, codes, made, imp, sdr>>
      /\ "clear" \in Tools /\ ToolsFit /\ tx["clear"].pc = "stops"
  BY DEF DeleteCatalogueStops, DeleteStops, Tools, CatalogueInv, At
<1>2. PICK t, u : t = tx["clear"] /\ u = tx'["clear"]
  OBVIOUS
<1>3. /\ u.pc = "commit" /\ u.dead.geoms = t.dead.geoms /\ u.dead.legs = t.dead.legs
      /\ u.dead.routes = t.dead.routes /\ u.dead.stops = t.dead.stops \cup rows
      /\ u.undisturbed = t.undisturbed
  BY <1>1, <1>2, Deleted DEF Grown
<1>4. ASSUME t.undisturbed
      PROVE  FromCatalogue(stops) \subseteq rows
  <2>1. \A l \in LegsSeen("clear") : l.route.source # "catalogue"
    BY <1>1, <1>2, <1>4 DEF ToolsFit, ClearedSoFar
  <2>2. \A l \in LegsSeen("clear") : l.from.source # "catalogue" /\ l.to.source # "catalogue"
    BY <2>1 DEF CatalogueInv, TablesFit, Sources, LegsSeen
  <2> QED
    BY <2>2 DEF Unused, Uses, FromCatalogue
<1>5. ClearedSoFar'
  BY <1>1, <1>2, <1>3, <1>4 DEF ClearedSoFar, ToolsFit, tables, LegsSeen, FromCatalogue
<1>6. MayDelete("clear", "stops", rows)
  BY DEF MayDelete, MayDeleteStop, FromCatalogue, Unused
<1> QED
  BY <1>1, <1>5, <1>6, DeleteStep

(* cmd/cleanup: it sweeps the codes long expired, ...                         *)
LEMMA SweepCodesStep ==
    ASSUME CatalogueInv, SweepCodes
    PROVE  CatalogueInv'
<1>1. /\ UNCHANGED <<tables, made, imp, sdr>> /\ codes' \subseteq codes /\ "cleanup" \in Tools
      /\ DOMAIN tx = Tools
  BY DEF SweepCodes, Tools, CatalogueInv, ToolsFit
<1>2. PICK u, no, yes : /\ no = FALSE /\ yes = TRUE
                        /\ u = [pc |-> "match", none |-> no, matched |-> {}, dead |-> Nothing,
                                undisturbed |-> yes]
  BY Zenon
<1>3. [NoTx EXCEPT !.pc = "match"] = u
  <2>1. PICK t : t = [NoTx EXCEPT !.pc = "match"]
    OBVIOUS
  <2>2. t = [pc |-> "match", none |-> no, matched |-> {}, dead |-> Nothing, undisturbed |-> yes]
    BY <1>2, <2>1 DEF NoTx
  <2> QED
    BY <1>2, <2>1, <2>2, Zenon
<1>4. tx' = [tx EXCEPT !["cleanup"] = u]
  BY <1>3 DEF SweepCodes
<1>5. u = [pc |-> u.pc, none |-> u.none, matched |-> {}, dead |-> Nothing,
           undisturbed |-> u.undisturbed]
  BY <1>2
<1>6. Fresh("cleanup", u)
  BY <1>1, <1>4, <1>5 DEF Fresh
<1> QED
  BY <1>1, <1>6, FreshStep, Zenon

(* ... finds the routes that the tests left, ...                              *)
LEMMA MatchJunkStep ==
    ASSUME CatalogueInv, MatchJunk
    PROVE  CatalogueInv'
<1> DEFINE p == "cleanup"
           orphans == {s \in JunkStops : \A l \in legs : Uses(l, s) => l.route \in Junk}
<1>1. /\ UNCHANGED <<tables, codes, made, imp, sdr>> /\ p \in Tools /\ DOMAIN tx = Tools
      /\ TxFits(p) /\ TxRecord(tx[p]) /\ TypeOK /\ tx[p].pc = "match"
  BY DEF MatchJunk, Tools, CatalogueInv, TablesFit, ToolsFit, TxFits, DeadFits, TxRecord, At
<1>2. PICK label : /\ label = IF Junk = {} /\ orphans = {} THEN "done" ELSE "codes"
                   /\ label \notin {"match", "stops", "commit"}
  OBVIOUS
<1>3. tx' = [tx EXCEPT ![p] = [tx[p] EXCEPT !.matched = Junk, !.pc = label]]
  BY <1>1, <1>2 DEF MatchJunk
<1>4. PICK t, u, junk : t = tx[p] /\ u = tx'[p] /\ junk = Junk
  OBVIOUS
<1>5. /\ Matches(u, t, junk, label)
      /\ DOMAIN tx' = Tools /\ \A q \in Tools \ {p} : tx'[q] = tx[q]
  BY <1>1, <1>3, <1>4 DEF Matches
<1>6. TxRecord(u) /\ u.pc = label /\ u.matched = junk /\ u.dead = t.dead
  BY <1>1, <1>4, <1>5, SetMatched
<1>7. t.dead = Nothing
  BY <1>1, <1>4 DEF TxFits, DeadFits
<1>8. TxFits(p)' /\ tx'[p].dead.routes = {} /\ tx'[p].dead.stops = {}
  <2>1. tx'[p] = u /\ tx'[p].dead = Nothing
    BY <1>4, <1>6, <1>7
  <2>2. \A r \in junk : MayDeleteRoute(p, r)
    BY <1>4 DEF MayDeleteRoute, Junk
  <2>3. DeadFits(p)'
    BY <1>6, <2>1, <2>2 DEF DeadFits, Nothing, TxRecord, MayDeleteRoute, MayDeleteStop
  <2>4. Closed(p)' /\ RoutesFollowLegs(p)'
    BY <2>1 DEF Closed, RoutesFollowLegs, Nothing
  <2> QED
    BY <2>1, <2>3, <2>4 DEF TxFits, Nothing
<1> QED
  BY <1>1, <1>5, <1>8, OwnStep

(* ... deletes their codes, their legs, ...                                   *)
LEMMA DeleteCodesStep ==
    ASSUME CatalogueInv, DeleteCodes
    PROVE  CatalogueInv'
<1> DEFINE rows == {c \in codes : c.route \in tx["cleanup"].matched}
<1>1. /\ Delete("cleanup", "codes", rows, "legs") /\ UNCHANGED <<tables, codes, made, imp, sdr>>
      /\ "cleanup" \in Tools
  BY DEF DeleteCodes, Tools
<1>2. MayDelete("cleanup", "codes", rows)
  BY DEF MayDelete
<1> QED
  BY <1>1, <1>2, DeleteStep

(* The legs of the matched routes.                                            *)
LEMMA DeleteJunkLegsStep ==
    ASSUME CatalogueInv, DeleteJunkLegs
    PROVE  CatalogueInv'
<1> DEFINE rows == {l \in legs : l.route \in tx["cleanup"].matched}
<1>1. /\ Delete("cleanup", "legs", rows, "routes") /\ UNCHANGED <<tables, codes, made, imp, sdr>>
      /\ "cleanup" \in Tools
  BY DEF DeleteJunkLegs, Tools
<1>2. MayDelete("cleanup", "legs", rows)
  BY DEF MayDelete
<1> QED
  BY <1>1, <1>2, DeleteStep

(* ... the routes, unless something refers to one, and the stops unused.      *)
LEMMA DeleteJunkRoutesStep ==
    ASSUME CatalogueInv, DeleteJunkRoutes
    PROVE  CatalogueInv'
<1> DEFINE rows == routes \cap tx["cleanup"].matched
<1>1. /\ UNCHANGED <<tables, codes, made, imp, sdr>> /\ "cleanup" \in Tools
      /\ TxFits("cleanup")
  BY DEF DeleteJunkRoutes, DeleteRoutes, Tools, CatalogueInv, ToolsFit
<1>2. CASE Referenced("cleanup", rows)
  BY <1>1, <1>2, RollBackStep DEF DeleteJunkRoutes, DeleteRoutes
<1>3. CASE ~Referenced("cleanup", rows)
  <2>1. Delete("cleanup", "routes", rows, "stops")
    BY <1>3 DEF DeleteJunkRoutes, DeleteRoutes
  <2>2. MayDelete("cleanup", "routes", rows)
    <3>1. \A r \in rows : MayDeleteRoute("cleanup", r)
      BY <1>1 DEF TxFits, DeadFits
    <3> QED
      BY <1>3, <3>1 DEF MayDelete
  <2>3. \A l \in tx["cleanup"].dead.legs : l.route \in routes => l.route \in rows
    BY <1>1 DEF TxFits, DeadFits
  <2> QED
    BY <1>1, <2>1, <2>2, <2>3, DeleteStep
<1> QED
  BY <1>2, <1>3

(* The stops the tests left that no leg uses.                                 *)
LEMMA DeleteJunkStopsStep ==
    ASSUME CatalogueInv, DeleteJunkStops
    PROVE  CatalogueInv'
<1> DEFINE rows == Unused("cleanup", JunkStops)
<1>1. /\ Delete("cleanup", "stops", rows, "commit") /\ UNCHANGED <<tables, codes, made, imp, sdr>>
      /\ "cleanup" \in Tools /\ tx["cleanup"].pc = "stops"
  BY DEF DeleteJunkStops, DeleteStops, Tools, At
<1>2. MayDelete("cleanup", "stops", rows)
  BY DEF MayDelete, MayDeleteStop, JunkStops, Unused
<1> QED
  BY <1>1, <1>2, DeleteStep

(* A tool dies, and its transaction is rolled back.                           *)
LEMMA InterruptTxStep ==
    ASSUME CatalogueInv, NEW p \in Tools, InterruptTx(p)
    PROVE  CatalogueInv'
  BY RollBackStep DEF InterruptTx, tables

(* What the two tools may delete is apart: no name of the file is one of the  *)
(* tests' names, and the catalogue has only names of the file.                *)
LEMMA ToolsApart ==
    ASSUME CatalogueInv
    PROVE  /\ tx["clear"].dead.routes \cap tx["cleanup"].dead.routes = {}
           /\ tx["clear"].dead.stops \cap tx["cleanup"].dead.stops = {}
<1>1. /\ \A r \in tx["clear"].dead.routes : r \in routes /\ r.source = "catalogue"
      /\ \A r \in tx["cleanup"].dead.routes : r.name \in routeNamePatterns
  BY DEF CatalogueInv, TablesFit, TypeOK, ToolsFit, Tools, TxFits, DeadFits, MayDeleteRoute
<1>2. /\ \A s \in tx["clear"].dead.stops : s \in stops /\ s.source = "catalogue"
      /\ \A s \in tx["cleanup"].dead.stops : s.name \in stopNamePatterns
  BY DEF CatalogueInv, TablesFit, TypeOK, ToolsFit, Tools, TxFits, DeadFits, MayDeleteStop
<1>3. \A r \in routes : r.source = "catalogue" =>
         r.name \in RouteNames /\ r.name \in FileRoutes /\ r.name \notin routeNamePatterns
  BY Families DEF CatalogueInv, TablesFit, TypeOK, Sources
<1>4. \A s \in stops : s.source = "catalogue" =>
         s.name \in StopNames /\ s.name \in FileStops /\ s.name \notin stopNamePatterns
  BY Families DEF CatalogueInv, TablesFit, TypeOK, Sources
<1> QED
  BY <1>1, <1>2, <1>3, <1>4

(* COMMIT: the rows deleted are gone, and no row that stays refers to them.   *)
LEMMA CommitStep ==
    ASSUME CatalogueInv, NEW p \in Tools, Commit(p)
    PROVE  CatalogueInv'
<1>1. PICK t, d : t = tx[p] /\ d = tx[p].dead
  OBVIOUS
<1>2. /\ stops' = stops \ d.stops /\ routes' = routes \ d.routes /\ legs' = legs \ d.legs
      /\ geoms' = geoms \ d.geoms /\ codes' = codes \ d.codes /\ UNCHANGED <<made, sdr>>
  BY <1>1 DEF Commit
<1>3. PICK u, no : /\ no = FALSE
                   /\ u = [pc |-> "done", none |-> no, matched |-> {}, dead |-> Nothing,
                           undisturbed |-> t.undisturbed]
                   /\ u.pc = "done" /\ u.dead = Nothing /\ u.matched = {} /\ TxRecord(u)
  <2>1. PICK u, no : no = FALSE /\ u = [pc |-> "done", none |-> no, matched |-> {}, dead |-> Nothing,
                                       undisturbed |-> t.undisturbed]
    BY Zenon
  <2>2. u.pc = "done" /\ u.dead = Nothing /\ u.matched = {} /\ TxRecord(u)
    BY <2>1 DEF TxRecord
  <2> QED
    BY <2>1, <2>2, Zenon
<1>4. DOMAIN tx' = Tools /\ tx'[p] = u /\ \A q \in Tools \ {p} : tx'[q] = tx[q]
  <2>1. PICK v, x, yes : v = [NoTx EXCEPT !.pc = "done"] /\ x = t.undisturbed /\ yes = TRUE
    BY Zenon
  <2>2. v = [pc |-> "done", none |-> no, matched |-> {}, dead |-> Nothing, undisturbed |-> yes]
    BY <1>3, <2>1 DEF NoTx
  <2>3. [v EXCEPT !.undisturbed = x] =
            [pc |-> "done", none |-> no, matched |-> {}, dead |-> Nothing, undisturbed |-> x]
    BY <2>2, SetUndisturbed
  <2>4. [NoTx EXCEPT !.pc = "done", !.undisturbed = t.undisturbed] = u
    <3>1. [NoTx EXCEPT !.pc = "done", !.undisturbed = x] = [v EXCEPT !.undisturbed = x]
      BY <2>1, Zenon
    <3> QED
      BY <1>3, <2>1, <2>3, <3>1, Zenon
  <2>5. tx' = [tx EXCEPT ![p] = u]
    BY <1>1, <2>4, Zenon DEF Commit
  <2> QED
    BY <2>5 DEF CatalogueInv, ToolsFit
<1>5. /\ TxFits(p)' /\ tx'[p].dead.routes = {} /\ tx'[p].dead.stops = {}
  BY <1>3, <1>4, FreshTx
<1>6. TypeOK'
  <2>1. \A l \in legs' : l.route \in routes' /\ {l.from, l.to} \subseteq stops'
    BY <1>1, <1>2
    DEF CatalogueInv, TablesFit, TypeOK, ToolsFit, TxFits, Closed, LegsSeen
  <2>2. geoms' \subseteq routes' /\ \A c \in codes' : c.route \in routes'
    BY <1>1, <1>2 DEF CatalogueInv, TablesFit, TypeOK, ToolsFit, TxFits, Closed
  <2>3. ASSUME NEW q \in Tools \ {p}
        PROVE  tx'[q].dead.routes \subseteq routes' /\ tx'[q].dead.stops \subseteq stops'
    <3>1. tx[q].dead.routes \cap d.routes = {} /\ tx[q].dead.stops \cap d.stops = {}
      BY <1>1, ToolsApart DEF Tools
    <3> QED
      BY <1>2, <1>4, <3>1 DEF CatalogueInv, TablesFit, TypeOK, ToolsFit
  <2> QED
    BY <1>2, <1>4, <1>5, <2>1, <2>2, <2>3 DEF CatalogueInv, TablesFit, TypeOK
<1>7. TablesFit'
  BY <1>2, <1>6 DEF CatalogueInv, TablesFit, NamesUnique, MadeFits, Sources
<1>8. ImportFits'
  <2>1. imp' = [imp EXCEPT !.undisturbed = @ /\ p # "clear"]
    BY DEF Commit
  <2>2. PICK i, b : i = imp /\ b = (imp.undisturbed /\ p # "clear")
    BY Zenon
  <2>3. imp' = [i EXCEPT !.undisturbed = b]
    BY <2>1, <2>2, Zenon
  <2>4. imp' = [pc |-> i.pc, k |-> i.k, cache |-> i.cache, route |-> i.route, undisturbed |-> b]
    <3>1. i = [pc |-> i.pc, k |-> i.k, cache |-> i.cache, route |-> i.route,
               undisturbed |-> i.undisturbed]
      BY <2>2 DEF CatalogueInv, ImportFits
    <3> QED
      BY <2>3, <3>1
  <2>5. imp'.pc = i.pc /\ imp'.k = i.k /\ imp'.route = i.route
    BY <2>4
  <2>6. \A name : Named(routes', name) \subseteq Named(routes, name)
    BY <1>2 DEF Named
  <2>7. imp' = [pc |-> imp'.pc, k |-> imp'.k, cache |-> imp'.cache, route |-> imp'.route,
                undisturbed |-> imp'.undisturbed]
    BY <2>4
  <2> QED
    BY <2>2, <2>5, <2>6, <2>7 DEF CatalogueInv, ImportFits, row
<1>9. SeedFits'
  <2>1. ASSUME sdr.pc = "legs"
        PROVE  sdr.route \in routes'
    <3>1. sdr.route \in routes /\ sdr.route.name \in SeedRouteNames
      BY <2>1, Families DEF CatalogueInv, SeedFits
    <3> QED
      BY <1>1, <1>2, <3>1, SeededRoute
  <2> QED
    BY <1>2, <2>1 DEF CatalogueInv, SeedFits
<1>10. ASSUME NEW q \in Tools \ {p}
       PROVE  Spares(q)
  <2>1. PICK v : v = tx[q]
    OBVIOUS
  <2>2. v = [v EXCEPT !.undisturbed = v.undisturbed]
    BY <2>1, SameRecord DEF CatalogueInv, ToolsFit, TxFits, DeadFits, TxRecord
  <2> QED
    BY <1>2, <1>4, <2>1, <2>2 DEF Spares, CatalogueInv, TablesFit, MadeFits
<1>11. \A q \in Tools \ {p} : TxFits(q)'
  BY <1>7, <1>10, AsideStep DEF CatalogueInv
<1>12. ClearedSoFar'
  <2>1. CASE p = "clear"
    BY <1>3, <1>4, <2>1 DEF ClearedSoFar
  <2>2. CASE p = "cleanup"
    <3>1. Undisturbed
      BY <1>2, <1>4, <2>2 DEF Undisturbed, Tools
    <3> QED
      BY <1>10, <2>2, <3>1, SparedClear DEF CatalogueInv, ToolsFit, Tools
  <2> QED
    BY <2>1, <2>2 DEF Tools
<1> QED
  BY <1>4, <1>5, <1>7, <1>8, <1>9, <1>11, <1>12 DEF CatalogueInv, ToolsFit

(* A code is issued only for a route that no open transaction has deleted.    *)
LEMMA IssueCodeStep ==
    ASSUME CatalogueInv, NEW r \in routes, IssueCode(r)
    PROVE  CatalogueInv'
<1>1. /\ UNCHANGED <<tables, made, imp, sdr, tx>> /\ codes' = codes \cup {[route |-> r, old |-> FALSE]}
      /\ \A p \in DOMAIN tx : r \notin tx[p].dead.routes
  BY DEF IssueCode, Locked
<1>2. \A c \in codes' \ codes : c.route = r
  BY <1>1
<1>3. TablesFit'
  <2>1. TypeOK'
    BY <1>1, <1>2 DEF CatalogueInv, TablesFit, TypeOK, tables
  <2> QED
    BY <1>1, <2>1 DEF CatalogueInv, TablesFit, NamesUnique, MadeFits, Sources, tables
<1>4. /\ DOMAIN tx' = Tools
      /\ \A p \in Tools : tx'[p] = [tx[p] EXCEPT !.undisturbed = tx'[p].undisturbed]
  BY <1>1, SameTx DEF CatalogueInv
<1>5. \A p \in Tools : Spares(p)
  BY <1>1, <1>2, <1>4 DEF Spares, CatalogueInv, TablesFit, MadeFits, ToolsFit, tables
<1>6. Undisturbed
  BY <1>1 DEF Undisturbed, tables
<1>7. ToolsFit'
  BY <1>3, <1>4, <1>5, <1>6, WriteStep DEF CatalogueInv
<1>8. ImportFits' /\ SeedFits'
  BY <1>1 DEF CatalogueInv, ImportFits, SeedFits, Named, row, tables
<1> QED
  BY <1>3, <1>7, <1>8 DEF CatalogueInv

-----------------------------------------------------------------------------
(* The steps, by who takes them.                                              *)
Importing ==
    \/ StartImport \/ LookUpRoute \/ GetOrCreateStop \/ CreateCatalogueRoute
    \/ CreateCatalogueRouteLeg \/ CreateRouteGeometry \/ InterruptImport
Seeding == StartSeed \/ SeedStop \/ SeedRoute \/ SeedLeg \/ InterruptSeed
Clearing ==
    \/ CountRoutes \/ CountStops \/ DeleteGeometries \/ DeleteCatalogueLegs
    \/ DeleteCatalogueRoutes \/ DeleteCatalogueStops
Cleaning ==
    \/ SweepCodes \/ MatchJunk \/ DeleteCodes \/ DeleteJunkLegs
    \/ DeleteJunkRoutes \/ DeleteJunkStops
Serving == Asking \/ \E r \in routes : IssueCode(r)

(* A step is taken by the importer, the seeder, a tool or the server.         *)
LEMMA Steps ==
    ASSUME CatalogueInv, Next
    PROVE  Importing \/ Seeding \/ Clearing \/ Cleaning \/ Serving
           \/ \E p \in Tools : Commit(p) \/ InterruptTx(p)
  BY DEF Next, Importing, Seeding, Clearing, Cleaning, Serving, Asking, CatalogueInv, ToolsFit

(* Every step of every run, request and tool preserves the invariant.         *)
LEMMA CatalogueNext ==
    ASSUME CatalogueInv, [Next]_vars
    PROVE  CatalogueInv'
<1>1. CASE UNCHANGED vars
  <2>1. TablesFit' /\ ToolsFit'
    BY <1>1, QuietStep DEF CatalogueInv, vars, tables
  <2>2. ImportFits' /\ SeedFits'
    BY <1>1 DEF CatalogueInv, ImportFits, SeedFits, Named, row, vars, tables
  <2> QED
    BY <2>1, <2>2 DEF CatalogueInv
<1>2. CASE Importing
  BY <1>2, ImportReads, GetOrCreateStopStep, CreateCatalogueRouteStep, CreateLegStep, CreateGeometryStep
  DEF Importing
<1>3. CASE Seeding
  BY <1>3, SeedReads, SeedStopStep, SeedRouteStep, SeedLegStep DEF Seeding
<1>4. CASE Clearing
  BY <1>4, CountRoutesStep, CountStopsStep, DeleteGeometriesStep, DeleteCatalogueLegsStep,
     DeleteCatalogueRoutesStep, DeleteCatalogueStopsStep
  DEF Clearing
<1>5. CASE Cleaning
  BY <1>5, SweepCodesStep, MatchJunkStep, DeleteCodesStep, DeleteJunkLegsStep, DeleteJunkRoutesStep,
     DeleteJunkStopsStep
  DEF Cleaning
<1>6. CASE Serving
  BY <1>6, RequestStep, IssueCodeStep DEF Serving
<1>7. CASE \E p \in Tools : Commit(p) \/ InterruptTx(p)
  BY <1>7, CommitStep, InterruptTxStep
<1> QED
  BY <1>1, <1>2, <1>3, <1>4, <1>5, <1>6, <1>7, Steps

(* The invariant holds in every state of every behaviour.                     *)
LEMMA CatalogueSafe == Spec => []CatalogueInv
<1>1. CatalogueInv /\ [Next]_vars => CatalogueInv'
  BY CatalogueNext
<1> QED
  BY <1>1, CatalogueInit, PTL DEF Spec

(* However the statements of importer, seeder and tools interleave, and       *)
(* wherever a run dies, every row refers to rows that exist.                  *)
THEOREM TypeCorrect == Spec => []TypeOK
<1>1. CatalogueInv => TypeOK
  BY DEF CatalogueInv, TablesFit
<1> QED
  BY <1>1, CatalogueSafe, PTL

(* However often the file is imported and the corridors are seeded, no stop   *)
(* or route is there twice (ExistingRoute, getOrCreateStop): nothing but the  *)
(* order of the statements forbids it.                                        *)
THEOREM NothingTwice == Spec => []NamesUnique
<1>1. CatalogueInv => NamesUnique
  BY DEF CatalogueInv, TablesFit
<1> QED
  BY <1>1, CatalogueSafe, PTL

-----------------------------------------------------------------------------
(* Only a COMMIT removes anything but codes long expired.                     *)
Keeps ==
    /\ stops \subseteq stops' /\ routes \subseteq routes' /\ legs \subseteq legs'
    /\ \A c \in codes \ codes' : c.old

(* No step but COMMIT removes a stop, route or leg, or a fresh code.          *)
LEMMA OthersKeep ==
    ASSUME Importing \/ Seeding \/ Clearing \/ Cleaning \/ Serving \/ \E p \in Tools : InterruptTx(p)
    PROVE  Keeps
<1>1. CASE Importing
  BY <1>1 DEF Importing, Keeps, tables, StartImport, LookUpRoute, GetOrCreateStop, CreateCatalogueRoute,
              CreateCatalogueRouteLeg, CreateRouteGeometry, InterruptImport
<1>2. CASE Seeding
  BY <1>2 DEF Seeding, Keeps, tables, StartSeed, SeedStop, SeedRoute, SeedLeg, InterruptSeed
<1>3. CASE Clearing
  BY <1>3 DEF Clearing, Keeps, tables, CountRoutes, CountStops, DeleteGeometries, DeleteCatalogueLegs,
              DeleteCatalogueRoutes, DeleteCatalogueStops, DeleteRoutes, DeleteStops
<1>4. CASE Cleaning
  BY <1>4 DEF Cleaning, Keeps, tables, SweepCodes, MatchJunk, DeleteCodes, DeleteJunkLegs,
              DeleteJunkRoutes, DeleteJunkStops, DeleteRoutes, DeleteStops
<1>5. CASE Asking
  BY <1>5 DEF Keeps, tables, Asking, AskRoute, AskSearch, ResolveStop, GetRouteByID, ListAllRoutes,
              LoadLegs, FindPath, NameStops
<1>6. CASE \E r \in routes : IssueCode(r)
  BY <1>6 DEF Keeps, tables, IssueCode
<1>7. CASE \E p \in Tools : InterruptTx(p)
  BY <1>7 DEF Keeps, tables, InterruptTx
<1> QED
  BY <1>1, <1>2, <1>3, <1>4, <1>5, <1>6, <1>7 DEF Serving

(* What a step deletes is not of the baseline.                                *)
Untouched ==
    /\ \A s \in stops \ stops' : s.source = "catalogue" \/ s.name \in stopNamePatterns
    /\ \A r \in routes \ routes' : r.source = "catalogue" \/ r.name \in routeNamePatterns
    /\ \A l \in legs \ legs' : l.route \notin routes'
    /\ \A c \in codes \ codes' : c.old \/ c.route.name \in routeNamePatterns

(* COMMIT removes only what the tool may delete, a leg only with its route.   *)
LEMMA CommitTouches ==
    ASSUME CatalogueInv, NEW p \in Tools, Commit(p)
    PROVE  Untouched
<1>1. PICK d : d = tx[p].dead
  OBVIOUS
<1>2. /\ stops' = stops \ d.stops /\ routes' = routes \ d.routes /\ legs' = legs \ d.legs
      /\ codes' = codes \ d.codes /\ tx[p].pc = "commit" /\ TxFits(p)
  BY <1>1 DEF Commit, CatalogueInv, ToolsFit, At
<1>3. /\ \A s \in d.stops : MayDeleteStop(p, s)
      /\ \A r \in d.routes : MayDeleteRoute(p, r)
  BY <1>1, <1>2 DEF TxFits, DeadFits
<1>4. \A l \in d.legs : l.route \notin routes'
  BY <1>1, <1>2 DEF TxFits, RoutesFollowLegs
<1>5. \A c \in d.codes : c.route.name \in routeNamePatterns
  <2>1. \A c \in d.codes : p = "cleanup" /\ MayDeleteRoute(p, c.route)
    BY <1>1, <1>2 DEF TxFits, DeadFits
  <2> QED
    BY <2>1 DEF MayDeleteRoute
<1> QED
  BY <1>2, <1>3, <1>4, <1>5 DEF Untouched, MayDeleteStop, MayDeleteRoute

(* "Structurally unreachable": no tool ever removes a seeded stop, route or   *)
(* leg, or a code that is not long expired, except under the tests' names.    *)
THEOREM BaselineSafe == Spec => BaselineUntouched
<1>1. ASSUME CatalogueInv, [Next]_vars
      PROVE  [Untouched]_vars
  <2>1. CASE \E p \in Tools : Commit(p)
    BY <1>1, <2>1, CommitTouches
  <2>2. CASE Importing \/ Seeding \/ Clearing \/ Cleaning \/ Serving \/ \E p \in Tools : InterruptTx(p)
    BY <2>2, OthersKeep DEF Keeps, Untouched
  <2> QED
    BY <1>1, <2>1, <2>2, Steps
<1>2. Spec => [][Untouched]_vars
  BY <1>1, CatalogueSafe, PTL DEF Spec
<1> QED
  BY <1>2 DEF BaselineUntouched, Untouched

-----------------------------------------------------------------------------
(* cmd/clearcatalogue ends normally by a count that finds nothing, or by its  *)
(* COMMIT.                                                                    *)
Ending == At("clear", "done")' /\ ~At("clear", "done")

(* Nobody else moves cmd/clearcatalogue on.                                   *)
LEMMA OthersDoNotEnd ==
    ASSUME CatalogueInv,
           Importing \/ Seeding \/ Serving \/ Cleaning \/ Commit("cleanup") \/ InterruptTx("cleanup")
    PROVE  tx'["clear"].pc = tx["clear"].pc
<1>1. CASE UNCHANGED tx
  BY <1>1
<1>2. CASE Disturb("clear")
  <2>1. PICK t, u : t = tx["clear"] /\ u = tx'["clear"]
    OBVIOUS
  <2>2. u = [t EXCEPT !.undisturbed = u.undisturbed] /\ TxRecord(t)
    BY <1>2, <2>1, DisturbedTx DEF CatalogueInv, ToolsFit, Tools, TxFits, DeadFits, TxRecord
  <2>3. u.pc = t.pc
    BY <2>2 DEF TxRecord
  <2> QED
    BY <2>1, <2>3
<1>3. CASE tx'["clear"] = tx["clear"]
  BY <1>3
<1>4. CASE Importing
  BY <1>1, <1>2, <1>4
  DEF Importing, StartImport, LookUpRoute, GetOrCreateStop, CreateCatalogueRoute,
      CreateCatalogueRouteLeg, CreateRouteGeometry, InterruptImport
<1>5. CASE Seeding
  BY <1>1, <1>5 DEF Seeding, StartSeed, SeedStop, SeedRoute, SeedLeg, InterruptSeed
<1>6. CASE Serving
  BY <1>1, <1>6 DEF Serving, IssueCode, Asking, AskRoute, AskSearch, ResolveStop, GetRouteByID,
                    ListAllRoutes, LoadLegs, FindPath, NameStops
<1>7. CASE Cleaning \/ Commit("cleanup") \/ InterruptTx("cleanup")
  <2>1. DOMAIN tx = Tools
    BY DEF CatalogueInv, ToolsFit
  <2>2. tx'["clear"] = tx["clear"]
    BY <1>7, <2>1 DEF Tools, Cleaning, SweepCodes, MatchJunk, DeleteCodes, DeleteJunkLegs,
       DeleteJunkRoutes, DeleteJunkStops, DeleteRoutes, DeleteStops, Delete, Commit, InterruptTx
  <2> QED
    BY <2>2
<1> QED
  BY <1>4, <1>5, <1>6, <1>7

(* It is done after CountStops or COMMIT.                                     *)
LEMMA EndsBy ==
    ASSUME CatalogueInv, Next, Ending
    PROVE  CountStops \/ Commit("clear")
<1>1. /\ DOMAIN tx = Tools /\ "clear" \in Tools /\ ToolsFit
      /\ tx'["clear"].pc = "done" /\ tx["clear"].pc # "done"
  BY DEF CatalogueInv, ToolsFit, Tools, Ending, At
<1>2. tx' # [tx EXCEPT !["clear"] = NoTx]
  <2>1. NoTx.pc = "idle"
    BY DEF NoTx
  <2> QED
    BY <1>1, <2>1
<1>3. ~InterruptTx("clear")
  BY <1>2 DEF InterruptTx
<1>4. ~CountRoutes
  <2>1. SUFFICES ASSUME CountRoutes PROVE FALSE
    OBVIOUS
  <2>2. PICK b : b = (FromCatalogue(routes) = {})
    OBVIOUS
  <2>3. tx'["clear"] = [NoTx EXCEPT !.pc = "count", !.none = b]
    BY <1>1, <2>1, <2>2 DEF CountRoutes
  <2>4. [NoTx EXCEPT !.pc = "count", !.none = b].pc = "count"
    BY DEF NoTx
  <2> QED
    BY <1>1, <2>3, <2>4
<1>5. ASSUME NEW table \in {"stops", "routes", "legs", "geoms", "codes"}, NEW rows, NEW label,
             label # "done", Delete("clear", table, rows, label)
      PROVE  FALSE
  BY <1>1, <1>5, Deleted
<1>6. ~(DeleteGeometries \/ DeleteCatalogueLegs \/ DeleteCatalogueRoutes \/ DeleteCatalogueStops)
  BY <1>2, <1>5
  DEF DeleteGeometries, DeleteCatalogueLegs, DeleteCatalogueRoutes, DeleteCatalogueStops,
      DeleteRoutes, DeleteStops
<1> QED
  BY <1>1, <1>3, <1>4, <1>6, Steps, OthersDoNotEnd DEF Clearing, Tools

(* Nothing of the catalogue is left.                                          *)
Restored == FromCatalogue(stops)' = {} /\ FromCatalogue(routes)' = {} /\ geoms' = {}

(* Whichever it was, nothing of the catalogue is left.                        *)
LEMMA EndRestores ==
    ASSUME CatalogueInv, Next, Ending, tx["clear"].undisturbed
    PROVE  Restored
<1>1. ClearedSoFar /\ Sources /\ geoms \subseteq routes
  BY DEF CatalogueInv, ToolsFit, TablesFit, TypeOK
<1>2. CASE CountStops
  <2>1. tx["clear"].pc = "count" /\ UNCHANGED tables
    BY <1>2 DEF CountStops, At
  <2>2. tx["clear"].none /\ FromCatalogue(stops) = {}
    <3>1. DOMAIN tx = Tools /\ "clear" \in Tools /\ tx'["clear"].pc = "done"
      BY DEF CatalogueInv, ToolsFit, Tools, Ending, At
    <3>2. tx' # [tx EXCEPT !["clear"] = NoTx]
      <4>1. NoTx.pc = "idle"
        BY DEF NoTx
      <4> QED
        BY <3>1, <4>1
    <3>3. PICK label : /\ label = IF tx["clear"].none /\ FromCatalogue(stops) = {} THEN "done"
                                  ELSE "geoms"
                       /\ tx' = [tx EXCEPT !["clear"].pc = label]
      BY <1>2, <3>2 DEF CountStops
    <3>4. PICK t : t = tx["clear"] /\ TxRecord(t)
      BY <3>1 DEF CatalogueInv, ToolsFit, TxFits, DeadFits, TxRecord
    <3>5. tx'["clear"] = [t EXCEPT !.pc = label]
      BY <3>1, <3>3, <3>4
    <3>6. label = "done"
      BY <3>1, <3>4, <3>5, SetPc
    <3> QED
      BY <3>3, <3>6
  <2>3. FromCatalogue(routes) = {} /\ geoms = {}
    BY <1>1, <2>1, <2>2 DEF ClearedSoFar, Sources, FromCatalogue
  <2> QED
    BY <2>1, <2>2, <2>3 DEF Restored, FromCatalogue, tables
<1>3. CASE Commit("clear")
  <2>1. PICK d : d = tx["clear"].dead
    OBVIOUS
  <2>2. /\ stops' = stops \ d.stops /\ routes' = routes \ d.routes /\ geoms' = geoms \ d.geoms
        /\ tx["clear"].pc = "commit"
    BY <1>3, <2>1 DEF Commit, At
  <2>3. geoms \subseteq d.geoms /\ FromCatalogue(routes) \subseteq d.routes
        /\ FromCatalogue(stops) \subseteq d.stops
    BY <1>1, <2>1, <2>2 DEF ClearedSoFar
  <2> QED
    BY <2>2, <2>3 DEF Restored, FromCatalogue
<1> QED
  BY <1>2, <1>3, EndsBy

(* A run of cmd/clearcatalogue -apply that ends normally has left nothing of  *)
(* the catalogue, unless an import wrote something in the meantime.           *)
THEOREM ClearRestores == Spec => ClearRestoresBaseline
<1>1. ASSUME CatalogueInv, [Next]_vars
      PROVE  [Ending /\ tx["clear"].undisturbed => Restored]_vars
  BY <1>1, EndRestores
<1>2. Spec => [][Ending /\ tx["clear"].undisturbed => Restored]_vars
  BY <1>1, CatalogueSafe, PTL DEF Spec
<1> QED
  BY <1>2 DEF ClearRestoresBaseline, Ending, Restored

-----------------------------------------------------------------------------
(* The legs that a route of each name has in the end: a corridor's, or the    *)
(* one of a row of the file or of a test's route.                             *)
Itineraries ==
    Corridors \cup
    {[name |-> x.name, legs |-> <<[from |-> x.from, to |-> x.to, fare |-> x.fare]>>] :
        x \in ToSet(Rows) \cup Leftovers}

(* A leg is the one that its place in an itinerary asks for.                  *)
Follows(l, it) ==
    /\ l.route.name = it.name /\ l.seq \in DOMAIN it.legs
    /\ l.from.name = it.legs[l.seq].from /\ l.to.name = it.legs[l.seq].to
    /\ l.fare = it.legs[l.seq].fare

(* The columns of a leg.                                                      *)
LegRecord(l) ==
    l = [route |-> l.route, seq |-> l.seq, from |-> l.from, to |-> l.to, fare |-> l.fare]

(* The first legs of a route are there whenever a later one is.               *)
Filled(r, n) == \A k \in 1 .. n : \E l \in legs : l.route = r /\ l.seq = k

(* Whatever was inserted and deleted, the legs of a route are the first ones  *)
(* of its itinerary.                                                          *)
LegsFit ==
    /\ IsFiniteSet(legs) /\ IsFiniteSet(routes)
    /\ \A l \in legs : /\ LegRecord(l) /\ Filled(l.route, l.seq)
                       /\ \E it \in Itineraries : Follows(l, it)

(* The rows a route can have.                                                 *)
RouteRows == [name : RouteNames, n : Nat, source : {"seed", "catalogue"}]

(* What the importer remembers: the stops it has found, the route it has      *)
(* inserted, whose leg precedes its geometry, and, undisturbed, the rows that *)
(* are done.                                                                  *)
ImportRemembers ==
    /\ \A name \in DOMAIN imp.cache : imp.cache[name].name = name
    /\ IF imp.pc \in {"leg", "geom"}
       THEN imp.route \in RouteRows /\ imp.route.name = row.name
       ELSE imp.route = NULL
    /\ imp.pc = "leg" => {row.from, row.to} \subseteq DOMAIN imp.cache
    /\ imp.pc = "geom" /\ imp.route \in routes => LegsOf(legs, imp.route) # {}
    /\ imp.pc # "idle" /\ imp.undisturbed =>
           \A j \in 1 .. Len(Rows) :
               imp.pc = "done" \/ j < imp.k => Named(routes, Rows[j].name) # {}

(* A route of the file is whole, in the making, or was given up.              *)
WholeRoutes ==
    \A r \in routes : r.name \in FileRoutes =>
        \/ r \in halted \/ (imp.pc \in {"leg", "geom"} /\ r = imp.route)
        \/ r \in geoms /\ LegsOf(legs, r) # {}

(* What the seeder remembers: how many legs its route has, and the corridors  *)
(* that have theirs.                                                          *)
SeedRemembers ==
    /\ sdr.pc = "legs" => /\ Filled(sdr.route, sdr.leg - 1)
                          /\ \A l \in LegsOf(legs, sdr.route) : l.seq < sdr.leg
    /\ sdr.pc \in {"routes", "legs", "done"} =>
           \A j \in 1 .. Len(SeedRoutes) : sdr.pc = "done" \/ j < sdr.k =>
               \E r \in Named(routes, SeedRoutes[j].name) : LegsOf(legs, r) # {}

(* A corridor's route has all its legs, or none, is in the making, or was     *)
(* given up.                                                                  *)
WholeCorridors ==
    \A r \in routes : \A c \in Corridors : r.name = c.name =>
        \/ r \in halted \/ (sdr.pc = "legs" /\ r = sdr.route)
        \/ LegsOf(legs, r) = {} \/ \E l \in LegsOf(legs, r) : l.seq = Len(c.legs)

(* Only cmd/clearcatalogue deletes geometries, and then their routes.         *)
GeomsFit ==
    /\ tx["cleanup"].dead.geoms = {}
    /\ LET t == tx["clear"]
       IN  /\ \A r \in t.dead.geoms :
                  r.source = "catalogue" /\ r.name \in RouteNames /\ r.n \in 1 .. made.route[r.name]
           /\ t.pc \in {"stops", "commit"} => t.dead.geoms \cap routes \subseteq t.dead.routes

(* The inductive invariant of FinishedRunIsWhole.                             *)
WholeInv == LegsFit /\ ImportRemembers /\ WholeRoutes /\ SeedRemembers /\ WholeCorridors /\ GeomsFit

-----------------------------------------------------------------------------
(* What is in a sequence has a place in it.                                   *)
LEMMA MemberOf ==
    ASSUME NEW S, NEW q \in Seq(S), NEW x \in ToSet(q)
    PROVE  x \in S /\ \E k \in 1 .. Len(q) : x = q[k]
<1>1. PICK k \in DOMAIN q : x = q[k]
  BY DEF ToSet
<1> QED
  BY <1>1

(* The legs of an itinerary: one or more, with integer fares; a corridor      *)
(* never comes back to a stop.                                                *)
LEMMA ItineraryFits ==
    ASSUME NEW it \in Itineraries
    PROVE  /\ it.name \in RouteNames /\ Len(it.legs) \in Nat \ {0} /\ DOMAIN it.legs = 1 .. Len(it.legs)
           /\ \A i \in 1 .. Len(it.legs) :
                  /\ it.legs[i] = [from |-> it.legs[i].from, to |-> it.legs[i].to,
                                   fare |-> it.legs[i].fare]
                  /\ it.legs[i].fare \in Int
           /\ it.legs \in Seq(ToSet(it.legs))
           /\ it = [name |-> it.name, legs |-> it.legs]
           /\ \/ it \in Corridors /\ Simple(it.legs)
              \/ Len(it.legs) = 1
<1>1. CASE it \in Corridors
  <2>1. PICK L : L = [from : ToSet(SeedStops), to : ToSet(SeedStops), fare : Int]
    OBVIOUS
  <2>2. it \in [name : RouteNames, legs : Seq(L) \ {<<>>}]
    <3>1. SeedRoutes \in Seq([name : RouteNames, legs : Seq(L) \ {<<>>}])
      BY <2>1, NamesAssumption
    <3> QED
      BY <1>1, <3>1, MemberOf DEF Corridors
  <2>3. PICK s : s = it.legs
    OBVIOUS
  <2>4. s \in Seq(L) /\ s # <<>> /\ it.name \in RouteNames /\ it = [name |-> it.name, legs |-> s]
    BY <2>2, <2>3
  <2>5. Len(s) \in Nat \ {0} /\ DOMAIN s = 1 .. Len(s) /\ \A i \in 1 .. Len(s) : s[i] \in L
    BY <2>4
  <2>6. s \in Seq(ToSet(s))
    <3>1. s \in [1 .. Len(s) -> ToSet(s)]
      BY <2>4, <2>5 DEF ToSet
    <3> QED
      BY <2>5, <3>1
  <2>7. Simple(s)
    BY <1>1, <2>3, RoutesAssumption DEF Corridors
  <2> QED
    BY <1>1, <2>1, <2>3, <2>4, <2>5, <2>6, <2>7
<1>2. CASE it \notin Corridors
  <2>1. PICK x \in ToSet(Rows) \cup Leftovers :
            it = [name |-> x.name, legs |-> <<[from |-> x.from, to |-> x.to, fare |-> x.fare]>>]
    BY <1>2 DEF Itineraries
  <2>2. x.name \in RouteNames /\ x.fare \in Int
    <3>1. CASE x \in Leftovers
      BY <3>1, NamesAssumption, RoutesAssumption DEF routeNamePatterns
    <3>2. CASE x \in ToSet(Rows)
      <4>1. x \in FileRow
        <5>1. Rows \in Seq(FileRow)
          BY NamesAssumption DEF FileRow
        <5> QED
          BY <3>2, <5>1, MemberOf
      <4> QED
        BY <4>1 DEF FileRow
    <3> QED
      BY <3>1, <3>2
  <2>3. PICK l : l = [from |-> x.from, to |-> x.to, fare |-> x.fare]
    OBVIOUS
  <2>4. it = [name |-> x.name, legs |-> <<l>>] /\ l.fare \in Int
        /\ l = [from |-> l.from, to |-> l.to, fare |-> l.fare]
    BY <2>1, <2>2, <2>3
  <2>5. <<l>> \in Seq(ToSet(<<l>>))
    BY DEF ToSet
  <2> QED
    BY <2>2, <2>4, <2>5
<1> QED
  BY <1>1, <1>2

(* The itineraries of the corridors, the file and the tests go by names of    *)
(* their own.                                                                 *)
LEMMA OneItinerary ==
    ASSUME NEW a \in Itineraries, NEW b \in Itineraries, a.name = b.name
    PROVE  a = b
<1> DEFINE single(x) ==
               [name |-> x.name, legs |-> <<[from |-> x.from, to |-> x.to, fare |-> x.fare]>>]
<1>1. \A x : single(x).name = x.name
  OBVIOUS
<1>2. ASSUME NEW it \in Itineraries
      PROVE  \/ it \in Corridors /\ it.name \in SeedRouteNames
             \/ \E x \in ToSet(Rows) : it = single(x) /\ x.name = it.name /\ x.name \in FileRoutes
             \/ \E x \in Leftovers : it = single(x) /\ x.name = it.name /\ x.name \in routeNamePatterns
  <2>1. it \in Corridors \/ \E x \in ToSet(Rows) \cup Leftovers : it = single(x)
    BY DEF Itineraries
  <2> HIDE DEF single
  <2> QED
    BY <1>1, <2>1 DEF Corridors, SeedRouteNames, FileRoutes, routeNamePatterns
<1>3. a.name \in RouteNames
  BY ItineraryFits
<1>4. /\ ~ (a.name \in FileRoutes /\ a.name \in SeedRouteNames \cup routeNamePatterns)
      /\ ~ (a.name \in SeedRouteNames /\ a.name \in routeNamePatterns)
  BY <1>3, Families
<1> HIDE DEF single
<1> QED
  BY <1>2, <1>4, RoutesAssumption DEF Corridors

(* The itinerary of a row of the file and of a corridor.                      *)
LEMMA RowItinerary ==
    ASSUME NEW x \in ToSet(Rows)
    PROVE  \E it \in Itineraries :
               /\ it.name = x.name /\ DOMAIN it.legs = {1}
               /\ it.legs[1].from = x.from /\ it.legs[1].to = x.to /\ it.legs[1].fare = x.fare
<1>1. PICK l : l = [from |-> x.from, to |-> x.to, fare |-> x.fare]
  OBVIOUS
<1>2. PICK it : it = [name |-> x.name, legs |-> <<l>>]
  OBVIOUS
<1>3. it \in Itineraries
  BY <1>1, <1>2 DEF Itineraries
<1> QED
  BY <1>1, <1>2, <1>3

(* A route has one leg of each number.                                        *)
LEMMA LegsAlike ==
    ASSUME TablesFit, LegsFit, NEW l \in legs, NEW m \in legs, l.route = m.route, l.seq = m.seq
    PROVE  l = m
<1>1. PICK a \in Itineraries : Follows(l, a)
  BY DEF LegsFit
<1>2. PICK b \in Itineraries : Follows(m, b)
  BY DEF LegsFit
<1>3. a = b
  BY <1>1, <1>2, OneItinerary DEF Follows
<1>4. l.from.name = m.from.name /\ l.to.name = m.to.name /\ l.fare = m.fare
  BY <1>1, <1>2, <1>3 DEF Follows
<1>5. {l.from, l.to, m.from, m.to} \subseteq stops
  BY DEF TablesFit, TypeOK
<1>6. l.from = m.from /\ l.to = m.to
  BY <1>4, <1>5 DEF TablesFit, NamesUnique
<1> QED
  BY <1>4, <1>6 DEF LegsFit, LegRecord

(* A leg's number is one of its itinerary.                                    *)
LEMMA LegNumber ==
    ASSUME LegsFit, NEW l \in legs
    PROVE  l.seq \in Nat \ {0}
<1>1. PICK it \in Itineraries : Follows(l, it)
  BY DEF LegsFit
<1> QED
  BY <1>1, ItineraryFits DEF Follows

(* ListLegsForRoute returns the legs of a route in the order of their         *)
(* numbers, and these are 1, 2, 3 and so on.                                  *)
LEMMA Listed ==
    ASSUME TablesFit, LegsFit, NEW r
    PROVE  LET s == ListLegsForRoute(r)
           IN  /\ s \in Seq(LegsOf(legs, r)) /\ Len(s) \in Nat /\ DOMAIN s = 1 .. Len(s)
               /\ \A i \in 1 .. Len(s) : s[i] \in legs /\ s[i].route = r /\ s[i].seq = i
               /\ \A l \in LegsOf(legs, r) : l.seq \in 1 .. Len(s) /\ s[l.seq] = l
<1> DEFINE S == LegsOf(legs, r)
<1>1. PICK key : key = [l \in LegsOf(legs, r) |-> l.seq]
  OBVIOUS
<1>2. \A l \in S : l \in legs /\ l.route = r /\ key[l] = l.seq
  BY <1>1 DEF LegsOf
<1>3. IsFiniteSet(S)
  BY FS_Subset DEF LegsFit, LegsOf
<1>4. \A l \in S : key[l] \in Nat \ {0}
  BY <1>2, LegNumber
<1>5. SortKeys(S, key)
  BY <1>2, <1>4, LegsAlike DEF SortKeys
<1>6. \A l \in S : \A k \in 1 .. key[l] : \E m \in S : key[m] = k
  BY <1>2 DEF LegsFit, Filled, LegsOf
<1>7. PICK s : s = OrderBy(S, key)
  OBVIOUS
<1>8. /\ s \in Seq(S) /\ \A i \in 1 .. Len(s) : key[s[i]] = i
      /\ \A l \in S : key[l] \in 1 .. Len(s) /\ s[key[l]] = l
  <2> HIDE DEF S
  <2> QED
    BY <1>3, <1>4, <1>5, <1>6, <1>7, NumberedRows
<1>9. s = ListLegsForRoute(r)
  BY <1>1, <1>7 DEF ListLegsForRoute
<1>10. Len(s) \in Nat /\ DOMAIN s = 1 .. Len(s) /\ \A i \in 1 .. Len(s) : s[i] \in S
  <2> HIDE DEF S
  <2> QED
    BY <1>8
<1> QED
  BY <1>2, <1>8, <1>9, <1>10

(* They are the first of the route's itinerary.                               *)
LEMMA ListedFollows ==
    ASSUME TablesFit, LegsFit, NEW r, NEW it \in Itineraries, it.name = r.name
    PROVE  LET s == ListLegsForRoute(r)
           IN  /\ Len(s) <= Len(it.legs)
               /\ \A i \in 1 .. Len(s) : i \in 1 .. Len(it.legs) /\ Follows(s[i], it)
<1>1. PICK s : s = ListLegsForRoute(r)
  OBVIOUS
<1>2. Len(s) \in Nat /\ \A i \in 1 .. Len(s) : s[i] \in legs /\ s[i].route = r /\ s[i].seq = i
  BY <1>1, Listed
<1>3. Len(it.legs) \in Nat /\ DOMAIN it.legs = 1 .. Len(it.legs)
  BY ItineraryFits
<1>4. ASSUME NEW i \in 1 .. Len(s) PROVE Follows(s[i], it) /\ i \in 1 .. Len(it.legs)
  <2>1. PICK b \in Itineraries : Follows(s[i], b)
    BY <1>2 DEF LegsFit
  <2>2. b = it
    BY <1>2, <2>1, OneItinerary DEF Follows
  <2> QED
    BY <1>2, <1>3, <2>1, <2>2 DEF Follows
<1>5. Len(s) <= Len(it.legs)
  <2>1. CASE Len(s) = 0
    BY <1>3, <2>1
  <2>2. CASE Len(s) # 0
    BY <1>2, <1>3, <1>4, <2>2
  <2> QED
    BY <2>1, <2>2
<1> QED
  BY <1>1, <1>4, <1>5

(* Nobody else touches what the seeder has to do with: the corridors' routes  *)
(* and their legs.                                                            *)
CorridorsSame ==
    /\ UNCHANGED sdr /\ halted \subseteq halted'
    /\ \A r : r.name \in SeedRouteNames =>
           (r \in routes' <=> r \in routes) /\ LegsOf(legs', r) = LegsOf(legs, r)

(* Then what the seeder remembers stays true.                                 *)
LEMMA SeederAside ==
    ASSUME CatalogueInv, SeedRemembers, WholeCorridors, CorridorsSame
    PROVE  SeedRemembers' /\ WholeCorridors'
<1>1. \A j \in 1 .. Len(SeedRoutes) : SeedRoutes[j].name \in SeedRouteNames
  BY Families
<1>2. \A c \in Corridors : c.name \in SeedRouteNames
  BY DEF Corridors, SeedRouteNames
<1>3. sdr' = sdr /\ halted \subseteq halted'
  BY DEF CorridorsSame
<1>4. ASSUME sdr.pc = "legs"
      PROVE  Filled(sdr.route, sdr.leg - 1)' /\ \A l \in LegsOf(legs', sdr.route) : l.seq < sdr.leg
  <2>1. LegsOf(legs', sdr.route) = LegsOf(legs, sdr.route)
    BY <1>1, <1>4 DEF CatalogueInv, SeedFits, CorridorsSame
  <2>2. Filled(sdr.route, sdr.leg - 1) /\ \A l \in LegsOf(legs, sdr.route) : l.seq < sdr.leg
    BY <1>4 DEF SeedRemembers
  <2> QED
    BY <1>3, <2>1, <2>2 DEF Filled, LegsOf
<1>5. ASSUME sdr.pc \in {"routes", "legs", "done"}, NEW j \in 1 .. Len(SeedRoutes),
             sdr.pc = "done" \/ j < sdr.k
      PROVE  \E r \in Named(routes', SeedRoutes[j].name) : LegsOf(legs', r) # {}
  <2>1. PICK r \in Named(routes, SeedRoutes[j].name) : LegsOf(legs, r) # {}
    BY <1>5 DEF SeedRemembers
  <2>2. r \in Named(routes', SeedRoutes[j].name) /\ LegsOf(legs', r) # {}
    BY <1>1, <2>1 DEF Named, CorridorsSame
  <2> QED
    BY <2>2
<1>6. SeedRemembers'
  BY <1>3, <1>4, <1>5 DEF SeedRemembers
<1>7. ASSUME NEW r \in routes', NEW c \in Corridors, r.name = c.name
      PROVE  \/ r \in halted' \/ (sdr'.pc = "legs" /\ r = sdr'.route)
             \/ LegsOf(legs', r) = {} \/ \E l \in LegsOf(legs', r) : l.seq = Len(c.legs)
  <2>1. r \in routes /\ LegsOf(legs', r) = LegsOf(legs, r)
    BY <1>2, <1>7 DEF CorridorsSame
  <2> QED
    BY <1>3, <1>7, <2>1 DEF WholeCorridors
<1> QED
  BY <1>6, <1>7 DEF WholeCorridors

(* Nobody else touches what the importer has to do with, except that          *)
(* cmd/clearcatalogue deletes whole routes.                                   *)
FileSame ==
    /\ imp'.pc = imp.pc /\ imp'.k = imp.k /\ imp'.cache = imp.cache /\ imp'.route = imp.route
    /\ imp'.undisturbed => imp.undisturbed
    /\ halted \subseteq halted'
    /\ \A r : r.name \in FileRoutes =>
           /\ r \in routes' => /\ r \in routes /\ LegsOf(legs', r) = LegsOf(legs, r)
                               /\ r \in geoms => r \in geoms'
           /\ imp'.undisturbed /\ r \in routes => r \in routes'

(* Then what the importer remembers stays true.                               *)
LEMMA ImporterAside ==
    ASSUME CatalogueInv, ImportRemembers, WholeRoutes, FileSame
    PROVE  ImportRemembers' /\ WholeRoutes'
<1>1. \A j \in 1 .. Len(Rows) : Rows[j].name \in FileRoutes
  BY Families
<1>2. /\ imp'.pc = imp.pc /\ imp'.k = imp.k /\ imp'.cache = imp.cache /\ imp'.route = imp.route
      /\ imp'.undisturbed => imp.undisturbed
      /\ halted \subseteq halted' /\ row' = row
  BY DEF FileSame, row
<1>3. ASSUME imp.pc = "geom", imp.route \in routes'
      PROVE  LegsOf(legs', imp.route) # {}
  <2>1. imp.route.name \in FileRoutes
    BY <1>3, RowNames DEF CatalogueInv, ImportRemembers
  <2> QED
    BY <1>3, <2>1 DEF FileSame, ImportRemembers
<1>4. ASSUME imp.pc # "idle", imp'.undisturbed, NEW j \in 1 .. Len(Rows), imp.pc = "done" \/ j < imp.k
      PROVE  Named(routes', Rows[j].name) # {}
  <2>1. PICK r \in routes : r.name = Rows[j].name
    BY <1>2, <1>4 DEF ImportRemembers, Named
  <2>2. r \in routes'
    BY <1>1, <1>4, <2>1 DEF FileSame
  <2> QED
    BY <2>1, <2>2 DEF Named
<1>5. ImportRemembers'
  BY <1>2, <1>3, <1>4 DEF ImportRemembers
<1>6. ASSUME NEW r \in routes', r.name \in FileRoutes
      PROVE  \/ r \in halted' \/ (imp'.pc \in {"leg", "geom"} /\ r = imp'.route)
             \/ r \in geoms' /\ LegsOf(legs', r) # {}
  BY <1>2, <1>6 DEF FileSame, WholeRoutes
<1> QED
  BY <1>5, <1>6 DEF WholeRoutes

-----------------------------------------------------------------------------
(* The steps of the seeder write rows of corridors, ...                       *)
LEMMA SeedingAdds ==
    ASSUME CatalogueInv, Seeding
    PROVE  /\ UNCHANGED <<imp, geoms, tx>> /\ halted \subseteq halted'
           /\ routes \subseteq routes' /\ legs \subseteq legs' /\ stops \subseteq stops'
           /\ \A r \in routes' \ routes : r.name \in SeedRouteNames \cap RouteNames
           /\ \A l \in legs' \ legs : l.route.name \in SeedRouteNames \cap RouteNames
<1>1. CASE StartSeed \/ SeedStop \/ InterruptSeed
  BY <1>1 DEF StartSeed, SeedStop, InterruptSeed, tables
<1>2. CASE SeedRoute
  <2>1. SeedRoutes[sdr.k].name \in SeedRouteNames \cap RouteNames
    BY <1>2, Families DEF SeedRoute, CatalogueInv, SeedFits
  <2>2. \A r \in routes' \ routes : r = Row("route", SeedRoutes[sdr.k].name, "seed")
    BY <1>2 DEF SeedRoute
  <2>3. UNCHANGED <<stops, legs, geoms, imp, tx, halted>>
    BY <1>2 DEF SeedRoute
  <2>4. routes \subseteq routes'
    BY OthersKeep DEF Keeps
  <2>5. \A r \in routes' \ routes : r.name = SeedRoutes[sdr.k].name
    BY <2>2 DEF Row
  <2> QED
    BY <2>1, <2>3, <2>4, <2>5
<1>3. CASE SeedLeg
  <2>1. sdr.route.name \in SeedRouteNames \cap RouteNames
    BY <1>3, Families DEF SeedLeg, CatalogueInv, SeedFits
  <2>2. \A l \in legs' \ legs : l.route = sdr.route
    <3>1. PICK l : l.route = sdr.route /\ legs' = legs \cup {l}
      BY <1>3 DEF SeedLeg
    <3> QED
      BY <3>1
  <2>3. legs \subseteq legs' /\ UNCHANGED <<stops, routes, geoms, imp, tx, halted>>
    BY <1>3 DEF SeedLeg
  <2> QED
    BY <2>1, <2>2, <2>3
<1> QED
  BY <1>1, <1>2, <1>3 DEF Seeding

(* ... and those of the importer rows of the file.                            *)
LEMMA ImportingAdds ==
    ASSUME CatalogueInv, Importing
    PROVE  /\ UNCHANGED sdr /\ routes \subseteq routes' /\ legs \subseteq legs'
           /\ halted \subseteq halted' /\ geoms \subseteq geoms' /\ stops \subseteq stops'
           /\ \A r \in routes' \ routes : r.name \in FileRoutes \cap RouteNames
           /\ \A l \in legs' \ legs : l.route = imp.route /\ imp.pc = "leg"
<1>1. CASE StartImport \/ LookUpRoute \/ GetOrCreateStop \/ CreateRouteGeometry \/ InterruptImport
  BY <1>1 DEF StartImport, LookUpRoute, GetOrCreateStop, CreateRouteGeometry, InterruptImport,
              EndImport, tables
<1>2. CASE CreateCatalogueRoute
  <2>1. row.name \in FileRoutes \cap RouteNames
    BY <1>2, RowNames DEF CreateCatalogueRoute, CatalogueInv
  <2>2. \A r \in routes' \ routes : r = Row("route", row.name, "catalogue")
    BY <1>2 DEF CreateCatalogueRoute
  <2> QED
    BY <1>2, <2>1, <2>2 DEF CreateCatalogueRoute, Row
<1>3. CASE CreateCatalogueRouteLeg
  <2>1. \A l \in legs' \ legs : l.route = imp.route
    BY <1>3 DEF CreateCatalogueRouteLeg
  <2> QED
    BY <1>3, <2>1 DEF CreateCatalogueRouteLeg, EndImport
<1> QED
  BY <1>1, <1>2, <1>3 DEF Importing

(* Nobody else writes anything but codes.                                     *)
LEMMA OthersWriteNothing ==
    ASSUME Clearing \/ Cleaning \/ Serving \/ \E p \in Tools : InterruptTx(p)
    PROVE  UNCHANGED <<stops, routes, legs, geoms, imp, sdr, halted, made>>
<1>1. CASE Clearing
  BY <1>1 DEF Clearing, tables, CountRoutes, CountStops, DeleteGeometries, DeleteCatalogueLegs,
              DeleteCatalogueRoutes, DeleteCatalogueStops, DeleteRoutes, DeleteStops
<1>2. CASE Cleaning
  BY <1>2 DEF Cleaning, tables, SweepCodes, MatchJunk, DeleteCodes, DeleteJunkLegs,
              DeleteJunkRoutes, DeleteJunkStops, DeleteRoutes, DeleteStops
<1>3. CASE Asking
  BY <1>3 DEF tables, Asking, AskRoute, AskSearch, ResolveStop, GetRouteByID, ListAllRoutes,
              LoadLegs, FindPath, NameStops
<1>4. CASE \E r \in routes : IssueCode(r)
  BY <1>4 DEF tables, IssueCode
<1>5. CASE \E p \in Tools : InterruptTx(p)
  BY <1>5 DEF tables, InterruptTx
<1> QED
  BY <1>1, <1>2, <1>3, <1>4, <1>5 DEF Serving

(* COMMIT removes no row of a corridor; what it leaves keeps its legs and its *)
(* geometry.                                                                  *)
LEMMA CommitKeeps ==
    ASSUME CatalogueInv, GeomsFit, NEW p \in Tools, Commit(p)
    PROVE  /\ UNCHANGED <<sdr, halted, made>>
           /\ routes' \subseteq routes /\ legs' \subseteq legs
           /\ \A r \in routes' : LegsOf(legs', r) = LegsOf(legs, r) /\ (r \in geoms => r \in geoms')
           /\ \A r \in routes : r.name \in SeedRouteNames => r \in routes'
           /\ \A r \in routes : p = "cleanup" /\ r.name \in FileRoutes => r \in routes'
           /\ imp'.pc = imp.pc /\ imp'.k = imp.k /\ imp'.cache = imp.cache /\ imp'.route = imp.route
           /\ imp'.undisturbed => imp.undisturbed /\ p # "clear"
<1>1. PICK d : d = tx[p].dead
  OBVIOUS
<1>2. /\ routes' = routes \ d.routes /\ legs' = legs \ d.legs /\ geoms' = geoms \ d.geoms
      /\ UNCHANGED <<sdr, halted, made>> /\ tx[p].pc = "commit"
  BY <1>1 DEF Commit, At
<1>3. ASSUME NEW r \in routes'
      PROVE  LegsOf(legs', r) = LegsOf(legs, r) /\ (r \in geoms => r \in geoms')
  <2>1. \A l \in legs \ legs' : l.route \notin routes'
    BY CommitTouches DEF Untouched
  <2>2. r \in geoms => r \in geoms'
    BY <1>1, <1>2 DEF GeomsFit, Tools
  <2> QED
    BY <1>2, <2>1, <2>2 DEF LegsOf
<1>4. \A r \in routes : r.name \in SeedRouteNames => r \in routes'
  BY <1>1, <1>2, SeededRoute
<1>5. ASSUME NEW r \in routes, p = "cleanup", r.name \in FileRoutes
      PROVE  r \in routes'
  <2>1. \A x \in d.routes : x.name \in routeNamePatterns
    BY <1>1, <1>5 DEF CatalogueInv, ToolsFit, TxFits, DeadFits, MayDeleteRoute
  <2>2. r.name \notin routeNamePatterns
    BY <1>5, Families DEF CatalogueInv, TablesFit, TypeOK
  <2> QED
    BY <1>2, <2>1, <2>2
<1>6. /\ imp'.pc = imp.pc /\ imp'.k = imp.k /\ imp'.cache = imp.cache /\ imp'.route = imp.route
      /\ imp'.undisturbed => imp.undisturbed /\ p # "clear"
  <2>1. PICK i, b : i = imp /\ b = (imp.undisturbed /\ p # "clear")
    BY Zenon
  <2>2. imp' = [i EXCEPT !.undisturbed = b]
    BY <2>1, Zenon DEF Commit
  <2>3. i = [pc |-> i.pc, k |-> i.k, cache |-> i.cache, route |-> i.route,
             undisturbed |-> i.undisturbed]
    BY <2>1 DEF CatalogueInv, ImportFits
  <2>4. imp' = [pc |-> i.pc, k |-> i.k, cache |-> i.cache, route |-> i.route, undisturbed |-> b]
    BY <2>2, <2>3
  <2>5. /\ imp'.pc = i.pc /\ imp'.k = i.k /\ imp'.cache = i.cache /\ imp'.route = i.route
        /\ imp'.undisturbed = b
    BY <2>4
  <2> QED
    BY <2>1, <2>5, Zenon
<1> QED
  BY <1>2, <1>3, <1>4, <1>5, <1>6

(* So a step of anybody but the seeder leaves the seeder's rows alone, ...    *)
LEMMA SeederLeftAlone ==
    ASSUME CatalogueInv, ImportRemembers, GeomsFit,
           \/ Importing \/ Clearing \/ Cleaning \/ Serving
           \/ \E p \in Tools : Commit(p) \/ InterruptTx(p)
    PROVE  CorridorsSame
<1>1. CASE Importing
  <2>1. \A r \in routes' \ routes : r.name \notin SeedRouteNames
    BY <1>1, ImportingAdds, Families
  <2>2. \A l \in legs' \ legs : l.route.name \notin SeedRouteNames
    <3>1. imp.pc = "leg" => imp.route.name \in FileRoutes \cap RouteNames
      BY RowNames DEF CatalogueInv, ImportRemembers
    <3> QED
      BY <1>1, <3>1, ImportingAdds, Families
  <2> QED
    BY <1>1, <2>1, <2>2, ImportingAdds DEF CorridorsSame, LegsOf
<1>2. CASE Clearing \/ Cleaning \/ Serving \/ \E p \in Tools : InterruptTx(p)
  BY <1>2, OthersWriteNothing DEF CorridorsSame
<1>3. CASE \E p \in Tools : Commit(p)
  <2>1. PICK p \in Tools : Commit(p)
    BY <1>3
  <2>2. /\ UNCHANGED <<sdr, halted>> /\ routes' \subseteq routes /\ legs' \subseteq legs
        /\ \A r \in routes' : LegsOf(legs', r) = LegsOf(legs, r)
        /\ \A r \in routes : r.name \in SeedRouteNames => r \in routes'
    BY <2>1, CommitKeeps
  <2>3. ASSUME NEW r, r \notin routes
        PROVE  LegsOf(legs, r) = {} /\ LegsOf(legs', r) = {}
    BY <2>2, <2>3 DEF CatalogueInv, TablesFit, TypeOK, LegsOf
  <2> QED
    BY <2>2, <2>3 DEF CorridorsSame
<1> QED
  BY <1>1, <1>2, <1>3

(* ... and one of anybody but the importer the importer's.                    *)
LEMMA ImporterLeftAlone ==
    ASSUME CatalogueInv, GeomsFit,
           \/ Seeding \/ Clearing \/ Cleaning \/ Serving
           \/ \E p \in Tools : Commit(p) \/ InterruptTx(p)
    PROVE  FileSame
<1>1. CASE Seeding
  <2>1. \A r \in routes' \ routes : r.name \notin FileRoutes
    BY <1>1, SeedingAdds, Families
  <2>2. \A l \in legs' \ legs : l.route.name \notin FileRoutes
    BY <1>1, SeedingAdds, Families
  <2> QED
    BY <1>1, <2>1, <2>2, SeedingAdds DEF FileSame, LegsOf
<1>2. CASE Clearing \/ Cleaning \/ Serving \/ \E p \in Tools : InterruptTx(p)
  BY <1>2, OthersWriteNothing DEF FileSame
<1>3. CASE \E p \in Tools : Commit(p)
  <2>1. PICK p \in Tools : Commit(p)
    BY <1>3
  <2>2. /\ halted' = halted /\ routes' \subseteq routes
        /\ \A r \in routes' : LegsOf(legs', r) = LegsOf(legs, r) /\ (r \in geoms => r \in geoms')
        /\ \A r \in routes : p = "cleanup" /\ r.name \in FileRoutes => r \in routes'
        /\ imp'.pc = imp.pc /\ imp'.k = imp.k /\ imp'.cache = imp.cache /\ imp'.route = imp.route
        /\ imp'.undisturbed => imp.undisturbed /\ p # "clear"
    BY <2>1, CommitKeeps
  <2> QED
    BY <2>2 DEF FileSame, Tools
<1> QED
  BY <1>1, <1>2, <1>3

-----------------------------------------------------------------------------
(* The legs of a route stay the first of its itinerary: when a route is       *)
(* inserted, ...                                                              *)
LEMMA LegsFitRoutes ==
    ASSUME LegsFit, legs' = legs, NEW new, routes' \subseteq routes \cup {new}
    PROVE  LegsFit'
<1>1. IsFiniteSet(routes')
  BY FS_AddElement, FS_Subset DEF LegsFit
<1> QED
  BY <1>1 DEF LegsFit, Filled

(* ... when the next leg is, ...                                              *)
LEMMA LegsFitLeg ==
    ASSUME LegsFit, routes' = routes, NEW l, legs' = legs \cup {l}, LegRecord(l), l.seq \in Nat \ {0},
           Filled(l.route, l.seq - 1), \E it \in Itineraries : Follows(l, it)
    PROVE  LegsFit'
<1>1. IsFiniteSet(legs')
  BY FS_AddElement DEF LegsFit
<1>2. ASSUME NEW m \in legs
      PROVE  Filled(m.route, m.seq)'
  BY DEF LegsFit, Filled
<1>3. Filled(l.route, l.seq)'
  <2>1. ASSUME NEW k \in 1 .. l.seq
        PROVE  \E m \in legs' : m.route = l.route /\ m.seq = k
    <3>1. CASE k = l.seq
      BY <3>1
    <3>2. CASE k # l.seq
      <4>1. k \in 1 .. l.seq - 1
        BY <3>2
      <4> QED
        BY <4>1 DEF Filled
    <3> QED
      BY <3>1, <3>2
  <2> QED
    BY <2>1 DEF Filled
<1> QED
  BY <1>1, <1>2, <1>3 DEF LegsFit

(* ... and when a tool's COMMIT removes routes with their legs.               *)
LEMMA LegsFitCommit ==
    ASSUME CatalogueInv, CatalogueInv', LegsFit, GeomsFit, NEW p \in Tools, Commit(p)
    PROVE  LegsFit'
<1>1. /\ routes' \subseteq routes /\ legs' \subseteq legs
      /\ \A r \in routes' : LegsOf(legs', r) = LegsOf(legs, r)
  BY CommitKeeps
<1>2. IsFiniteSet(legs') /\ IsFiniteSet(routes')
  BY <1>1, FS_Subset DEF LegsFit
<1>3. ASSUME NEW l \in legs'
      PROVE  Filled(l.route, l.seq)'
  <2>1. l \in legs /\ LegsOf(legs', l.route) = LegsOf(legs, l.route)
    BY <1>1 DEF CatalogueInv, TablesFit, TypeOK
  <2> QED
    BY <2>1 DEF LegsFit, Filled, LegsOf
<1> QED
  BY <1>1, <1>2, <1>3 DEF LegsFit

(* CreateCatalogueRouteLeg and SeedLeg insert the leg that is due.            *)
LEMMA LegsFitNext ==
    ASSUME CatalogueInv, CatalogueInv', LegsFit, ImportRemembers, SeedRemembers, GeomsFit, [Next]_vars
    PROVE  LegsFit'
<1>1. CASE CreateCatalogueRouteLeg
  <2>1. CASE RefersToRows(imp.route, Ends)
    <3>1. PICK l : l = [route |-> imp.route, seq |-> 1, from |-> imp.cache[row.from],
                        to |-> imp.cache[row.to], fare |-> row.fare]
      OBVIOUS
    <3>2. legs' = legs \cup {l} /\ routes' = routes /\ imp.pc = "leg"
      BY <1>1, <2>1, <3>1 DEF CreateCatalogueRouteLeg
    <3>3. /\ l.route.name = row.name /\ l.from.name = row.from /\ l.to.name = row.to
          /\ l.seq = 1 /\ l.fare = row.fare /\ LegRecord(l)
      BY <3>1, <3>2 DEF ImportRemembers, LegRecord
    <3>4. PICK it \in Itineraries :
             /\ it.name = row.name /\ DOMAIN it.legs = {1}
             /\ it.legs[1].from = row.from /\ it.legs[1].to = row.to /\ it.legs[1].fare = row.fare
      <4>1. row \in ToSet(Rows)
        <5>1. imp.k \in 1 .. Len(Rows)
          BY <3>2 DEF CatalogueInv, ImportFits
        <5>2. Rows[imp.k] \in ToSet(Rows)
          <6>1. PICK S : Rows \in Seq(S)
            BY NamesAssumption
          <6> QED
            BY <5>1, <6>1, Members
        <5> QED
          BY <5>2 DEF row
      <4> QED
        BY <4>1, RowItinerary
    <3>5. Follows(l, it)
      BY <3>3, <3>4 DEF Follows
    <3>6. Filled(l.route, l.seq - 1)
      BY <3>3 DEF Filled
    <3> QED
      BY <3>2, <3>3, <3>5, <3>6, LegsFitLeg
  <2>2. CASE ~RefersToRows(imp.route, Ends)
    <3>1. legs' = legs /\ routes' = routes
      BY <1>1, <2>2 DEF CreateCatalogueRouteLeg
    <3> QED
      BY <3>1, LegsFitRoutes
  <2> QED
    BY <2>1, <2>2
<1>2. CASE SeedLeg
  <2>1. PICK c : c = SeedRoutes[sdr.k]
    OBVIOUS
  <2>2. /\ sdr.pc = "legs" /\ sdr.k \in 1 .. Len(SeedRoutes) /\ sdr.leg \in 1 .. Len(c.legs)
        /\ sdr.route.name = c.name /\ routes' = routes
    BY <1>2, <2>1 DEF SeedLeg, CatalogueInv, SeedFits
  <2>3. PICK from \in Named(stops, c.legs[sdr.leg].from), to \in Named(stops, c.legs[sdr.leg].to) :
           legs' = legs \cup {[route |-> sdr.route, seq |-> sdr.leg, from |-> from, to |-> to,
                              fare |-> c.legs[sdr.leg].fare]}
    BY <1>2, <2>1 DEF SeedLeg
  <2>4. PICK l : /\ l = [route |-> sdr.route, seq |-> sdr.leg, from |-> from, to |-> to,
                         fare |-> c.legs[sdr.leg].fare]
                 /\ legs' = legs \cup {l}
    BY <2>3
  <2>5. c \in Itineraries
    <3>1. c \in ToSet(SeedRoutes)
      BY <2>1, <2>2, NamesAssumption, Members
    <3> QED
      BY <3>1 DEF Itineraries, Corridors
  <2>6. /\ LegRecord(l) /\ l.route = sdr.route /\ l.seq = sdr.leg /\ l.from.name = c.legs[l.seq].from
        /\ l.to.name = c.legs[l.seq].to /\ l.fare = c.legs[l.seq].fare
    BY <2>3, <2>4 DEF LegRecord, Named
  <2>7. Follows(l, c)
    BY <2>2, <2>5, <2>6, ItineraryFits DEF Follows
  <2>8. Filled(l.route, l.seq - 1) /\ l.seq \in Nat \ {0}
    BY <2>2, <2>5, <2>6, ItineraryFits DEF SeedRemembers
  <2> QED
    BY <2>2, <2>4, <2>5, <2>6, <2>7, <2>8, LegsFitLeg
<1>3. CASE CreateCatalogueRoute \/ SeedRoute
  <2>1. legs' = legs /\ \E new : routes' \subseteq routes \cup {new}
    BY <1>3 DEF CreateCatalogueRoute, SeedRoute
  <2> QED
    BY <2>1, LegsFitRoutes
<1>4. CASE UNCHANGED <<routes, legs>>
  BY <1>4, LegsFitRoutes
<1>5. CASE Importing
  BY <1>1, <1>3, <1>4, <1>5 DEF Importing, StartImport, LookUpRoute, GetOrCreateStop, CreateRouteGeometry,
                                InterruptImport, tables
<1>6. CASE Seeding
  BY <1>2, <1>3, <1>4, <1>6 DEF Seeding, StartSeed, SeedStop, InterruptSeed, tables
<1>7. CASE Clearing \/ Cleaning \/ Serving \/ \E p \in Tools : InterruptTx(p)
  BY <1>4, <1>7, OthersWriteNothing
<1>8. CASE \E p \in Tools : Commit(p)
  BY <1>8, LegsFitCommit
<1>9. CASE UNCHANGED vars
  BY <1>4, <1>9 DEF vars, tables
<1> QED
  BY <1>5, <1>6, <1>7, <1>8, <1>9, Steps

(* The importer's steps keep what it remembers.  It goes on with the next row *)
(* when the row's route is there, ...                                         *)
LEMMA NextRowRemembers ==
    ASSUME CatalogueInv, ImportRemembers, imp.pc \in {"look", "geom"}, NextRow,
           routes' = routes, Named(routes, row.name) # {}
    PROVE  ImportRemembers' /\ imp'.route = NULL /\ imp'.pc \in {"look", "done"}
<1>1. imp.k \in 1 .. Len(Rows) /\ Len(Rows) \in Nat
  BY Lengths DEF CatalogueInv, ImportFits
<1>2. imp.undisturbed => \A j \in 1 .. imp.k : Named(routes', Rows[j].name) # {}
  BY <1>1 DEF ImportRemembers, row
<1>3. CASE imp.k = Len(Rows)
  <2>1. imp' = [pc |-> "done", k |-> imp.k, cache |-> imp.cache, route |-> NULL,
                undisturbed |-> imp.undisturbed]
    BY <1>3 DEF NextRow, CatalogueInv, ImportFits
  <2> QED
    BY <1>1, <1>2, <1>3, <2>1 DEF ImportRemembers
<1>4. CASE imp.k # Len(Rows)
  <2>1. imp' = [pc |-> "look", k |-> imp.k + 1, cache |-> imp.cache, route |-> NULL,
                undisturbed |-> imp.undisturbed]
    BY <1>4 DEF NextRow, CatalogueInv, ImportFits
  <2> QED
    BY <1>1, <1>2, <1>4, <2>1 DEF ImportRemembers
<1> QED
  BY <1>3, <1>4

(* ... and forgets all when it ends early, but for the route it gives up.     *)
LEMMA EndImportRemembers ==
    ASSUME ImportRemembers, WholeRoutes, EndImport, routes' = routes, legs' = legs, geoms' = geoms
    PROVE  ImportRemembers' /\ WholeRoutes'
<1>1. imp' = [pc |-> "idle", k |-> 1, cache |-> <<>>, route |-> NULL, undisturbed |-> TRUE]
  BY DEF EndImport, NoImport
<1>2. ImportRemembers'
  BY <1>1 DEF ImportRemembers
<1>3. ASSUME imp.pc \in {"leg", "geom"}
      PROVE  imp.route \in halted'
  <2>1. imp.route # NULL
    BY <1>3, NullAssumption DEF ImportRemembers, RouteRows
  <2> QED
    BY <2>1 DEF EndImport
<1>4. halted \subseteq halted'
  BY DEF EndImport
<1>5. WholeRoutes'
  BY <1>3, <1>4 DEF WholeRoutes
<1> QED
  BY <1>2, <1>5

(* StartImport, LookUpRoute, GetOrCreateStop: no route is in the making.      *)
LEMMA ImportReadsRemember ==
    ASSUME CatalogueInv, ImportRemembers, WholeRoutes, StartImport \/ LookUpRoute \/ GetOrCreateStop
    PROVE  ImportRemembers' /\ WholeRoutes'
<1>1. /\ UNCHANGED <<routes, legs, geoms, halted>> /\ imp.pc \notin {"leg", "geom"}
  BY DEF StartImport, LookUpRoute, GetOrCreateStop, tables
<1>2. WholeRoutes'
  BY <1>1 DEF WholeRoutes
<1>3. CASE StartImport
  <2>1. imp' = [pc |-> IF Rows = <<>> THEN "done" ELSE "look", k |-> 1, cache |-> <<>>, route |-> NULL,
                undisturbed |-> TRUE]
    BY <1>3 DEF StartImport, NoImport
  <2>2. Rows = <<>> => Len(Rows) = 0
    OBVIOUS
  <2> QED
    BY <1>2, <2>1, <2>2 DEF ImportRemembers
<1>4. CASE LookUpRoute
  <2>1. CASE Named(routes, row.name) # {}
    BY <1>1, <1>2, <1>4, <2>1, NextRowRemembers DEF LookUpRoute
  <2>2. CASE Named(routes, row.name) = {}
    <3>1. imp.pc = "look" /\ imp' = [imp EXCEPT !.pc = "stops"]
      BY <1>4, <2>2 DEF LookUpRoute
    <3>2. imp' = [pc |-> "stops", k |-> imp.k, cache |-> imp.cache, route |-> imp.route,
                  undisturbed |-> imp.undisturbed]
      BY <3>1 DEF CatalogueInv, ImportFits
    <3> QED
      BY <1>1, <1>2, <3>1, <3>2 DEF ImportRemembers
  <2> QED
    BY <2>1, <2>2
<1>5. CASE GetOrCreateStop
  <2>1. PICK name, s, cache :
           /\ s.name = name /\ imp' = [imp EXCEPT !.cache = cache]
           /\ cache = [x \in {name} \cup DOMAIN imp.cache |->
                         IF x = name THEN s ELSE imp.cache[x]]
    <3>1. PICK name, new : /\ name = IF row.from \in Missing THEN row.from ELSE row.to
                           /\ new = Row("stop", name, "catalogue")
      OBVIOUS
    <3>2. new.name = name
      BY <3>1 DEF Row
    <3>3. \E s : /\ s.name = name
                 /\ imp' = [imp EXCEPT !.cache =
                              [x \in {name} \cup DOMAIN imp.cache |->
                                  IF x = name THEN s ELSE imp.cache[x]]]
      <4>1. CASE Named(stops, name) # {}
        BY <1>5, <3>1, <4>1 DEF GetOrCreateStop, Named
      <4>2. CASE Named(stops, name) = {}
        BY <1>5, <3>1, <3>2, <4>2 DEF GetOrCreateStop
      <4> QED
        BY <4>1, <4>2
    <3>4. PICK s, cache :
             /\ s.name = name /\ imp' = [imp EXCEPT !.cache = cache]
             /\ cache = [x \in {name} \cup DOMAIN imp.cache |->
                           IF x = name THEN s ELSE imp.cache[x]]
      BY <3>3, Zenon
    <3> QED
      BY <3>4, Zenon
  <2>2. \A x \in DOMAIN cache : cache[x].name = x
    BY <2>1 DEF ImportRemembers
  <2>3. imp.pc = "stops" /\ imp' = [imp EXCEPT !.cache = cache]
    <3>1. imp.pc = "stops"
      BY <1>5 DEF GetOrCreateStop
    <3> QED
      BY <2>1, <3>1
  <2>4. imp' = [pc |-> "stops", k |-> imp.k, cache |-> cache, route |-> imp.route,
                undisturbed |-> imp.undisturbed]
    BY <2>3 DEF CatalogueInv, ImportFits
  <2> QED
    BY <1>1, <1>2, <2>2, <2>3, <2>4 DEF ImportRemembers
<1> QED
  BY <1>3, <1>4, <1>5

(* CreateCatalogueRoute: a route of the file is in the making.                *)
LEMMA CreateRouteRemembers ==
    ASSUME CatalogueInv, ImportRemembers, WholeRoutes, CreateCatalogueRoute
    PROVE  ImportRemembers' /\ WholeRoutes'
<1>1. PICK new : new = Row("route", row.name, "catalogue")
  OBVIOUS
<1>2. /\ imp.pc = "stops" /\ Missing = {} /\ routes' = routes \cup {new}
      /\ imp' = [imp EXCEPT !.pc = "leg", !.route = new] /\ UNCHANGED <<legs, geoms, halted>>
  BY <1>1 DEF CreateCatalogueRoute
<1>3. imp' = [pc |-> "leg", k |-> imp.k, cache |-> imp.cache, route |-> new,
              undisturbed |-> imp.undisturbed]
  BY <1>2 DEF CatalogueInv, ImportFits
<1>4. new \in RouteRows /\ new.name = row.name
  <2>1. row.name \in RouteNames
    BY <1>2, RowNames DEF CatalogueInv
  <2>2. made.route[row.name] \in Nat
    BY <2>1 DEF CatalogueInv, TablesFit, MadeFits
  <2> QED
    BY <1>1, <2>1, <2>2 DEF Row, RouteRows
<1>5. {row.from, row.to} \subseteq DOMAIN imp.cache
  BY <1>2 DEF Missing
<1>6. \A name : Named(routes, name) \subseteq Named(routes', name)
  BY <1>2 DEF Named
<1>7. ImportRemembers'
  <2>1. /\ imp'.pc = "leg" /\ imp'.k = imp.k /\ imp'.cache = imp.cache /\ imp'.route = new
        /\ imp'.undisturbed = imp.undisturbed
    BY <1>3
  <2>2. row' = row
    BY <2>1 DEF row
  <2>3. \A name \in DOMAIN imp'.cache : imp'.cache[name].name = name
    BY <2>1 DEF ImportRemembers
  <2>4. imp'.route \in RouteRows /\ imp'.route.name = row'.name
    BY <1>4, <2>1, <2>2
  <2>5. {row'.from, row'.to} \subseteq DOMAIN imp'.cache
    BY <1>5, <2>1, <2>2
  <2>6. ASSUME imp'.undisturbed, NEW j \in 1 .. Len(Rows), j < imp'.k
        PROVE  Named(routes', Rows[j].name) # {}
    <3>1. imp.pc = "stops" /\ imp.undisturbed /\ j < imp.k
      BY <1>2, <2>1, <2>6
    <3>2. Named(routes, Rows[j].name) # {}
      BY <3>1 DEF ImportRemembers
    <3> QED
      BY <1>6, <3>2
  <2> QED
    BY <2>1, <2>3, <2>4, <2>5, <2>6 DEF ImportRemembers
<1>8. WholeRoutes'
  BY <1>2, <1>3 DEF WholeRoutes
<1> QED
  BY <1>7, <1>8

(* CreateCatalogueRouteLeg.                                                   *)
LEMMA CreateLegRemembers ==
    ASSUME CatalogueInv, ImportRemembers, WholeRoutes, CreateCatalogueRouteLeg
    PROVE  ImportRemembers' /\ WholeRoutes'
<1>1. imp.pc = "leg" /\ UNCHANGED <<routes, geoms>>
  BY DEF CreateCatalogueRouteLeg
<1>2. CASE RefersToRows(imp.route, Ends)
  <2>1. PICK l : l = [route |-> imp.route, seq |-> 1, from |-> imp.cache[row.from],
                      to |-> imp.cache[row.to], fare |-> row.fare]
    OBVIOUS
  <2>2. /\ legs' = legs \cup {l} /\ imp' = [imp EXCEPT !.pc = "geom"] /\ halted' = halted
    BY <1>2, <2>1 DEF CreateCatalogueRouteLeg
  <2>3. imp' = [pc |-> "geom", k |-> imp.k, cache |-> imp.cache, route |-> imp.route,
                undisturbed |-> imp.undisturbed]
    BY <2>2 DEF CatalogueInv, ImportFits
  <2>4. LegsOf(legs', imp.route) # {} /\ \A r : LegsOf(legs, r) \subseteq LegsOf(legs', r)
    BY <2>1, <2>2 DEF LegsOf
  <2>5. ImportRemembers'
    BY <1>1, <2>3, <2>4 DEF ImportRemembers, row
  <2>6. WholeRoutes'
    BY <1>1, <2>2, <2>3, <2>4 DEF WholeRoutes
  <2> QED
    BY <2>5, <2>6
<1>3. CASE ~RefersToRows(imp.route, Ends)
  <2>1. EndImport /\ legs' = legs
    BY <1>3 DEF CreateCatalogueRouteLeg
  <2> QED
    BY <1>1, <2>1, EndImportRemembers
<1> QED
  BY <1>2, <1>3

(* CreateRouteGeometry: with it, the route is whole.                          *)
LEMMA CreateGeometryRemembers ==
    ASSUME CatalogueInv, ImportRemembers, WholeRoutes, CreateRouteGeometry
    PROVE  ImportRemembers' /\ WholeRoutes'
<1>1. imp.pc = "geom" /\ UNCHANGED <<routes, legs>>
  BY DEF CreateRouteGeometry
<1>2. CASE RefersToRows(imp.route, {})
  <2>1. geoms' = geoms \cup {imp.route} /\ NextRow /\ halted' = halted /\ imp.route \in routes
    BY <1>2 DEF CreateRouteGeometry, RefersToRows
  <2>2. imp.route.name = row.name /\ LegsOf(legs, imp.route) # {}
    BY <1>1, <2>1 DEF ImportRemembers
  <2>3. Named(routes, row.name) # {}
    BY <2>1, <2>2 DEF Named
  <2>4. ImportRemembers' /\ imp'.pc \in {"look", "done"}
    BY <1>1, <2>1, <2>3, NextRowRemembers
  <2>5. WholeRoutes'
    BY <1>1, <2>1, <2>2, <2>4 DEF WholeRoutes
  <2> QED
    BY <2>4, <2>5
<1>3. CASE ~RefersToRows(imp.route, {})
  <2>1. EndImport /\ geoms' = geoms
    BY <1>3 DEF CreateRouteGeometry
  <2> QED
    BY <1>1, <2>1, EndImportRemembers
<1> QED
  BY <1>2, <1>3

(* All of them.                                                               *)
LEMMA ImporterRemembers ==
    ASSUME CatalogueInv, ImportRemembers, WholeRoutes, Importing
    PROVE  ImportRemembers' /\ WholeRoutes'
<1>1. CASE InterruptImport
  <2>1. EndImport /\ UNCHANGED <<routes, legs, geoms>>
    BY <1>1 DEF InterruptImport, tables
  <2> QED
    BY <2>1, EndImportRemembers
<1> QED
  BY <1>1, ImportReadsRemember, CreateRouteRemembers, CreateLegRemembers, CreateGeometryRemembers
  DEF Importing

(* The corridor of that number has its route, with legs.                      *)
HasLegs(j) == \E r \in Named(routes, SeedRoutes[j].name) : LegsOf(legs, r) # {}

(* The seeder's steps keep what it remembers.  It goes on with the next       *)
(* corridor when the route has legs, ...                                      *)
LEMMA NextSeedRemembers ==
    ASSUME CatalogueInv, SeedRemembers, sdr.pc \in {"routes", "legs"}, sdr' = NextSeedRoute(sdr),
           \A j \in 1 .. sdr.k : HasLegs(j)'
    PROVE  SeedRemembers' /\ sdr'.pc \in {"routes", "done"}
<1>1. sdr.k \in 1 .. Len(SeedRoutes) /\ Len(SeedRoutes) \in Nat
  BY Lengths DEF CatalogueInv, SeedFits
<1>2. CASE sdr.k = Len(SeedRoutes)
  <2>1. sdr' = [pc |-> "done", k |-> 1, leg |-> 1, route |-> NULL]
    BY <1>2 DEF NextSeedRoute, NoSeed
  <2> QED
    BY <1>2, <2>1 DEF SeedRemembers, HasLegs
<1>3. CASE sdr.k # Len(SeedRoutes)
  <2>1. sdr' = [pc |-> "routes", k |-> sdr.k + 1, leg |-> 1, route |-> NULL]
    BY <1>3 DEF NextSeedRoute, NoSeed
  <2> QED
    BY <1>1, <1>3, <2>1 DEF SeedRemembers, HasLegs
<1> QED
  BY <1>2, <1>3

(* ... and forgets all when it is interrupted, but for the route it gives up. *)
LEMMA SeedReadsRemember ==
    ASSUME CatalogueInv, LegsFit, SeedRemembers, WholeCorridors,
           StartSeed \/ SeedStop \/ InterruptSeed
    PROVE  SeedRemembers' /\ WholeCorridors'
<1>1. UNCHANGED <<routes, legs>>
  BY DEF StartSeed, SeedStop, InterruptSeed, tables
<1>2. CASE StartSeed
  <2>1. sdr' = [pc |-> "stops", k |-> 1, leg |-> 1, route |-> NULL] /\ halted' = halted
        /\ sdr.pc # "legs"
    BY <1>2 DEF StartSeed, NoSeed
  <2> QED
    BY <1>1, <2>1 DEF SeedRemembers, WholeCorridors
<1>3. CASE SeedStop
  <2>1. sdr.pc = "stops" /\ halted' = halted
    BY <1>3 DEF SeedStop
  <2>2. WholeCorridors'
    <3>1. sdr'.pc # "legs"
      BY <1>3, <2>1 DEF SeedStop, NoSeed, CatalogueInv, SeedFits
    <3> QED
      BY <1>1, <2>1, <3>1 DEF WholeCorridors
  <2>3. CASE sdr.k = Len(SeedStops)
    <3>1. sdr' = [pc |-> "routes", k |-> 1, leg |-> 1, route |-> NULL]
      BY <1>3, <2>3 DEF SeedStop, NoSeed
    <3> QED
      BY <2>2, <3>1 DEF SeedRemembers
  <2>4. CASE sdr.k # Len(SeedStops)
    <3>1. sdr' = [pc |-> "stops", k |-> sdr.k + 1, leg |-> sdr.leg, route |-> sdr.route]
      BY <1>3, <2>1, <2>4 DEF SeedStop, CatalogueInv, SeedFits
    <3> QED
      BY <2>2, <3>1 DEF SeedRemembers
  <2> QED
    BY <2>3, <2>4
<1>4. CASE InterruptSeed
  <2>1. sdr' = [pc |-> "idle", k |-> 1, leg |-> 1, route |-> NULL]
        /\ halted' = IF sdr.leg = 1 THEN halted ELSE halted \cup {sdr.route}
    BY <1>4 DEF InterruptSeed, NoSeed
  <2>2. SeedRemembers'
    BY <2>1 DEF SeedRemembers
  <2>3. sdr.pc = "legs" /\ sdr.leg = 1 => LegsOf(legs, sdr.route) = {}
    BY LegNumber DEF SeedRemembers, LegsOf
  <2>4. WholeCorridors'
    BY <1>1, <2>1, <2>3 DEF WholeCorridors
  <2> QED
    BY <2>2, <2>4
<1> QED
  BY <1>2, <1>3, <1>4

(* getOrCreateRoute: the route has its legs, or they are to be inserted.      *)
LEMMA SeedRouteRemembers ==
    ASSUME CatalogueInv, SeedRemembers, WholeCorridors, SeedRoute
    PROVE  SeedRemembers' /\ WholeCorridors'
<1>1. PICK name, new : name = SeedRoutes[sdr.k].name /\ new = Row("route", name, "seed")
  OBVIOUS
<1>2. /\ sdr.pc = "routes" /\ sdr.leg = 1 /\ UNCHANGED <<legs, halted>>
      /\ sdr.k \in 1 .. Len(SeedRoutes)
  BY DEF SeedRoute, CatalogueInv, SeedFits
<1>3. \A j \in 1 .. Len(SeedRoutes) : j < sdr.k => HasLegs(j)
  BY <1>2 DEF SeedRemembers, HasLegs
<1>4. CASE Named(routes, name) # {}
  <2>1. routes' = routes
    BY <1>1, <1>4 DEF SeedRoute
  <2>2. PICK r \in Named(routes, name) :
           sdr' = IF LegsOf(legs, r) # {} THEN NextSeedRoute(sdr)
                  ELSE [sdr EXCEPT !.pc = "legs", !.route = r]
    BY <1>1, <1>4 DEF SeedRoute
  <2>3. CASE LegsOf(legs, r) # {}
    <3>1. sdr' = NextSeedRoute(sdr)
      BY <2>2, <2>3
    <3>2. \A j \in 1 .. sdr.k : HasLegs(j)'
      <4>1. HasLegs(sdr.k)
        BY <1>1, <2>2, <2>3 DEF HasLegs
      <4> QED
        BY <1>2, <1>3, <2>1, <4>1, Lengths DEF HasLegs
    <3>3. SeedRemembers' /\ sdr'.pc # "legs"
      BY <1>2, <3>1, <3>2, NextSeedRemembers
    <3> QED
      BY <1>2, <2>1, <3>3 DEF WholeCorridors
  <2>4. CASE LegsOf(legs, r) = {}
    <3>1. sdr' = [pc |-> "legs", k |-> sdr.k, leg |-> 1, route |-> r]
      BY <1>2, <2>2, <2>4 DEF CatalogueInv, SeedFits
    <3>2. SeedRemembers'
      BY <1>2, <1>3, <2>1, <2>4, <3>1 DEF SeedRemembers, Filled, HasLegs
    <3>3. WholeCorridors'
      BY <1>2, <2>1, <3>1 DEF WholeCorridors
    <3> QED
      BY <3>2, <3>3
  <2> QED
    BY <2>3, <2>4
<1>5. CASE Named(routes, name) = {}
  <2>1. routes' = routes \cup {new} /\ sdr' = [sdr EXCEPT !.pc = "legs", !.route = new]
    BY <1>1, <1>5 DEF SeedRoute
  <2>2. sdr' = [pc |-> "legs", k |-> sdr.k, leg |-> 1, route |-> new]
    BY <1>2, <2>1 DEF CatalogueInv, SeedFits
  <2>3. LegsOf(legs, new) = {}
    <3>1. new.name = name
      BY <1>1 DEF Row
    <3>2. new \notin routes
      BY <1>5, <3>1 DEF Named
    <3> QED
      BY <3>2 DEF CatalogueInv, TablesFit, TypeOK, LegsOf
  <2>4. \A x : Named(routes, x) \subseteq Named(routes', x)
    BY <2>1 DEF Named
  <2>5. SeedRemembers'
    BY <1>2, <1>3, <2>2, <2>3, <2>4 DEF SeedRemembers, Filled, HasLegs
  <2>6. WholeCorridors'
    BY <1>2, <2>1, <2>2 DEF WholeCorridors
  <2> QED
    BY <2>5, <2>6
<1> QED
  BY <1>4, <1>5

(* The next leg of the route; with the last one it has them all.              *)
LEMMA SeedLegRemembers ==
    ASSUME CatalogueInv, LegsFit, SeedRemembers, WholeCorridors, SeedLeg
    PROVE  SeedRemembers' /\ WholeCorridors'
<1>1. PICK all : all = SeedRoutes[sdr.k].legs
  OBVIOUS
<1>2. /\ sdr.pc = "legs" /\ UNCHANGED <<routes, halted>>
      /\ sdr.k \in 1 .. Len(SeedRoutes) /\ sdr.leg \in 1 .. Len(all) /\ Len(all) \in Nat
      /\ sdr.route \in routes /\ sdr.route.name = SeedRoutes[sdr.k].name
  BY <1>1, Lengths DEF SeedLeg, CatalogueInv, SeedFits
<1>3. PICK l : legs' = legs \cup {l} /\ l.route = sdr.route /\ l.seq = sdr.leg
  <2>1. PICK from, to : legs' = legs \cup {[route |-> sdr.route, seq |-> sdr.leg, from |-> from,
                                            to |-> to, fare |-> all[sdr.leg].fare]}
    BY <1>1 DEF SeedLeg
  <2>2. PICK l : l = [route |-> sdr.route, seq |-> sdr.leg, from |-> from, to |-> to,
                      fare |-> all[sdr.leg].fare]
    OBVIOUS
  <2> QED
    BY <2>1, <2>2
<1>4. /\ \A r : r # sdr.route => LegsOf(legs', r) = LegsOf(legs, r)
      /\ \A r : LegsOf(legs, r) \subseteq LegsOf(legs', r)
      /\ LegsOf(legs', sdr.route) = LegsOf(legs, sdr.route) \cup {l}
  BY <1>3 DEF LegsOf
<1>5. \A j \in 1 .. Len(SeedRoutes) : j < sdr.k => HasLegs(j)'
  BY <1>2, <1>4 DEF SeedRemembers, HasLegs
<1>6. \A j \in 1 .. sdr.k : HasLegs(j)'
  <2>1. sdr.route \in Named(routes', SeedRoutes[sdr.k].name) /\ LegsOf(legs', sdr.route) # {}
    BY <1>2, <1>4 DEF Named
  <2> QED
    BY <1>2, <1>5, <2>1, Lengths DEF HasLegs
<1>7. CASE sdr.leg = Len(all)
  <2>1. sdr' = NextSeedRoute(sdr)
    BY <1>1, <1>7 DEF SeedLeg
  <2>2. SeedRemembers' /\ sdr'.pc # "legs"
    BY <1>2, <1>6, <2>1, NextSeedRemembers
  <2>3. ASSUME NEW c \in Corridors, sdr.route.name = c.name
        PROVE  l \in LegsOf(legs', sdr.route) /\ l.seq = Len(c.legs)
    <3>1. SeedRoutes[sdr.k] \in Corridors
      BY <1>2, NamesAssumption, Members DEF Corridors
    <3>2. c = SeedRoutes[sdr.k]
      BY <1>2, <2>3, <3>1, RoutesAssumption DEF Corridors
    <3> QED
      BY <1>1, <1>3, <1>4, <1>7, <3>2
  <2>4. WholeCorridors'
    BY <1>2, <1>4, <2>2, <2>3 DEF WholeCorridors
  <2> QED
    BY <2>2, <2>4
<1>8. CASE sdr.leg # Len(all)
  <2>1. sdr' = [pc |-> "legs", k |-> sdr.k, leg |-> sdr.leg + 1, route |-> sdr.route]
    BY <1>1, <1>2, <1>8 DEF CatalogueInv, SeedFits, SeedLeg
  <2>2. Filled(sdr.route, sdr.leg - 1)'
    <3>1. ASSUME NEW k \in 1 .. sdr.leg
          PROVE  \E m \in legs' : m.route = sdr.route /\ m.seq = k
      <4>1. CASE k = sdr.leg
        BY <1>3, <4>1
      <4>2. CASE k # sdr.leg
        <5>1. k \in 1 .. sdr.leg - 1
          BY <1>2, <4>2
        <5> QED
          BY <1>2, <1>3, <5>1 DEF SeedRemembers, Filled
      <4> QED
        BY <4>1, <4>2
    <3>2. sdr'.route = sdr.route /\ sdr'.leg - 1 = sdr.leg
      BY <1>2, <2>1
    <3> QED
      BY <3>1, <3>2 DEF Filled
  <2>3. \A m \in LegsOf(legs', sdr.route) : m.seq < sdr.leg + 1
    <3>1. \A m \in LegsOf(legs, sdr.route) : m.seq \in Nat /\ m.seq < sdr.leg
      BY <1>2, LegNumber DEF SeedRemembers, LegsOf
    <3>2. sdr.leg \in Nat
      BY <1>2
    <3> QED
      BY <1>3, <1>4, <3>1, <3>2
  <2>4. SeedRemembers'
    BY <1>2, <1>5, <2>1, <2>2, <2>3 DEF SeedRemembers, HasLegs
  <2>5. WholeCorridors'
    BY <1>2, <1>4, <2>1 DEF WholeCorridors
  <2> QED
    BY <2>4, <2>5
<1> QED
  BY <1>7, <1>8

(* All of them.                                                               *)
LEMMA SeederRemembers ==
    ASSUME CatalogueInv, LegsFit, SeedRemembers, WholeCorridors, Seeding
    PROVE  SeedRemembers' /\ WholeCorridors'
  BY SeedReadsRemember, SeedRouteRemembers, SeedLegRemembers DEF Seeding

(* A new route has a new number.                                              *)
LEMMA NewNumbers ==
    ASSUME CatalogueInv, CatalogueInv', Next
    PROVE  /\ \A r \in routes' \ routes : r.n > made.route[r.name]
           /\ \A name \in RouteNames :
                  /\ made.route[name] \in Nat /\ made'.route[name] \in Nat
                  /\ made'.route[name] >= made.route[name]
<1>1. \A name \in RouteNames : made.route[name] \in Nat /\ made'.route[name] \in Nat
  BY DEF CatalogueInv, TablesFit, MadeFits
<1>2. ASSUME NEW name \in RouteNames, NEW source, Count("route", name),
             routes' = routes \cup {Row("route", name, source)}
      PROVE  /\ \A r \in routes' \ routes : r.n > made.route[r.name]
             /\ \A x \in RouteNames : made'.route[x] >= made.route[x]
  <2>1. PICK new : new = Row("route", name, source)
    OBVIOUS
  <2>2. new.name = name /\ new.n = made.route[name] + 1
    BY <2>1 DEF Row
  <2>3. made'.route = [made.route EXCEPT ![name] = @ + 1]
    BY <1>2, CountRoute DEF CatalogueInv, TablesFit
  <2>4. \A x \in RouteNames : made'.route[x] >= made.route[x]
    BY <1>1, <2>3 DEF CatalogueInv, TablesFit, MadeFits
  <2> QED
    BY <1>1, <1>2, <2>1, <2>2, <2>4
<1>3. ASSUME NEW name \in StopNames, Count("stop", name)
      PROVE  made'.route = made.route
  BY <1>3, CountStop DEF CatalogueInv, TablesFit
<1>4. CASE UNCHANGED <<routes, made>>
  BY <1>1, <1>4
<1>5. CASE GetOrCreateStop
  <2>1. PICK name : name = IF row.from \in Missing THEN row.from ELSE row.to
    OBVIOUS
  <2>2. name \in StopNames
    BY <1>5, <2>1, RowNames DEF CatalogueInv, GetOrCreateStop
  <2>3. routes' = routes /\ (made' = made \/ Count("stop", name))
    BY <1>5, <2>1 DEF GetOrCreateStop
  <2> QED
    BY <1>1, <1>3, <2>2, <2>3
<1>6. CASE CreateCatalogueRoute
  <2>1. row.name \in RouteNames
    BY <1>6, RowNames DEF CreateCatalogueRoute, CatalogueInv
  <2>2. routes' = routes \cup {Row("route", row.name, "catalogue")} /\ Count("route", row.name)
    BY <1>6 DEF CreateCatalogueRoute
  <2> QED
    BY <1>1, <1>2, <2>1, <2>2
<1>7. CASE SeedStop
  <2>1. PICK name : name = SeedStops[sdr.k]
    OBVIOUS
  <2>2. name \in StopNames
    BY <1>7, <2>1, Families DEF CatalogueInv, SeedFits, SeedStop
  <2>3. routes' = routes /\ (made' = made \/ Count("stop", name))
    BY <1>7, <2>1 DEF SeedStop
  <2> QED
    BY <1>1, <1>3, <2>2, <2>3
<1>8. CASE SeedRoute
  <2>1. PICK name : name = SeedRoutes[sdr.k].name
    OBVIOUS
  <2>2. name \in RouteNames
    BY <1>8, <2>1, Families DEF CatalogueInv, SeedFits, SeedRoute
  <2>3. \/ UNCHANGED <<routes, made>>
        \/ routes' = routes \cup {Row("route", name, "seed")} /\ Count("route", name)
    BY <1>8, <2>1 DEF SeedRoute
  <2> QED
    BY <1>1, <1>2, <1>4, <2>2, <2>3
<1>9. CASE Importing
  BY <1>4, <1>5, <1>6, <1>9 DEF Importing, StartImport, LookUpRoute, CreateCatalogueRouteLeg,
                                CreateRouteGeometry, InterruptImport, tables
<1>10. CASE Seeding
  BY <1>4, <1>7, <1>8, <1>10 DEF Seeding, StartSeed, SeedLeg, InterruptSeed, tables
<1>11. CASE Clearing \/ Cleaning \/ Serving \/ \E p \in Tools : InterruptTx(p)
  BY <1>4, <1>11, OthersWriteNothing
<1>12. CASE \E p \in Tools : Commit(p)
  <2>1. routes' \subseteq routes /\ made' = made
    BY <1>12 DEF Commit
  <2> QED
    BY <1>1, <2>1
<1> QED
  BY <1>9, <1>10, <1>11, <1>12, Steps

-----------------------------------------------------------------------------
(* A step that leaves cmd/clearcatalogue where it is.                         *)
LEMMA GeomsAside ==
    ASSUME CatalogueInv, CatalogueInv', GeomsFit, Next, tx'["cleanup"].dead.geoms = {},
           tx'["clear"].dead = tx["clear"].dead, tx'["clear"].pc = tx["clear"].pc
    PROVE  GeomsFit'
<1>1. PICK d : d = tx["clear"].dead
  OBVIOUS
<1>2. /\ \A r \in routes' \ routes : r.n > made.route[r.name]
      /\ \A name \in RouteNames :
             /\ made.route[name] \in Nat /\ made'.route[name] \in Nat
             /\ made'.route[name] >= made.route[name]
  BY NewNumbers
<1>3. \A r \in d.geoms : r.source = "catalogue" /\ r.name \in RouteNames /\ r.n \in 1 .. made.route[r.name]
  BY <1>1 DEF GeomsFit
<1>4. \A r \in d.geoms : r.n \in 1 .. made'.route[r.name] /\ (r \in routes' => r \in routes)
  BY <1>2, <1>3
<1> QED
  BY <1>1, <1>3, <1>4 DEF GeomsFit

(* Importer, seeder and server leave the tools where they are.                *)
LEMMA ToolsStay ==
    ASSUME CatalogueInv, Importing \/ Seeding \/ Serving
    PROVE  \A p \in Tools : tx'[p].pc = tx[p].pc /\ tx'[p].dead = tx[p].dead
<1>1. CASE UNCHANGED tx
  BY <1>1
<1>2. CASE Disturb("clear")
  <2>1. ASSUME NEW p \in Tools
        PROVE  tx'[p].pc = tx[p].pc /\ tx'[p].dead = tx[p].dead
    <3>1. PICK t, u : t = tx[p] /\ u = tx'[p]
      OBVIOUS
    <3>2. u = [t EXCEPT !.undisturbed = u.undisturbed] /\ TxRecord(t)
      BY <1>2, <3>1, DisturbedTx DEF CatalogueInv, ToolsFit, TxFits, DeadFits, TxRecord
    <3>3. u.pc = t.pc /\ u.dead = t.dead
      BY <3>2 DEF TxRecord
    <3> QED
      BY <3>1, <3>3
  <2> QED
    BY <2>1
<1>3. CASE Importing
  BY <1>1, <1>2, <1>3
  DEF Importing, StartImport, LookUpRoute, GetOrCreateStop, CreateCatalogueRoute,
      CreateCatalogueRouteLeg, CreateRouteGeometry, InterruptImport
<1>4. CASE Seeding
  BY <1>1, <1>4 DEF Seeding, StartSeed, SeedStop, SeedRoute, SeedLeg, InterruptSeed
<1>5. CASE Serving
  BY <1>1, <1>5 DEF Serving, IssueCode, Asking, AskRoute, AskSearch, ResolveStop, GetRouteByID,
                    ListAllRoutes, LoadLegs, FindPath, NameStops
<1> QED
  BY <1>3, <1>4, <1>5

(* A tool that starts, ends or is rolled back has deleted nothing.            *)
LEMMA ToolsRestart ==
    ASSUME CatalogueInv, NEW p \in Tools,
           \/ p = "clear" /\ CountRoutes
           \/ p = "cleanup" /\ SweepCodes
           \/ tx' = [tx EXCEPT ![p] = NoTx]
           \/ Commit(p)
    PROVE  tx'[p].dead = Nothing /\ tx'[p].pc \in {"count", "match", "idle", "done"}
<1>1. DOMAIN tx = Tools
  BY DEF CatalogueInv, ToolsFit
<1>2. CASE p = "clear" /\ CountRoutes
  <2>1. PICK b, t : b = (FromCatalogue(routes) = {}) /\ t = [NoTx EXCEPT !.pc = "count"]
    BY Zenon
  <2>2. PICK no, yes : no = FALSE /\ yes = TRUE
    BY Zenon
  <2>3. t = [pc |-> "count", none |-> no, matched |-> {}, dead |-> Nothing, undisturbed |-> yes]
    BY <2>1, <2>2 DEF NoTx
  <2>4. [t EXCEPT !.none = b] =
            [pc |-> "count", none |-> b, matched |-> {}, dead |-> Nothing, undisturbed |-> yes]
    BY <2>3, SetNone
  <2>5. PICK u : u = [NoTx EXCEPT !.pc = "count", !.none = b] /\ tx' = [tx EXCEPT ![p] = u]
    BY <1>2, <2>1, Zenon DEF CountRoutes
  <2>6. u = [t EXCEPT !.none = b]
    BY <2>1, <2>5, Zenon
  <2>7. u.pc = "count" /\ u.dead = Nothing
    BY <2>4, <2>6
  <2> QED
    BY <1>1, <2>5, <2>7
<1>3. CASE p = "cleanup" /\ SweepCodes
  <2>1. tx' = [tx EXCEPT ![p] = [NoTx EXCEPT !.pc = "match"]]
    BY <1>3 DEF SweepCodes
  <2>2. [NoTx EXCEPT !.pc = "match"].dead = Nothing /\ [NoTx EXCEPT !.pc = "match"].pc = "match"
    BY DEF NoTx
  <2> QED
    BY <1>1, <2>1, <2>2
<1>4. CASE tx' = [tx EXCEPT ![p] = NoTx]
  BY <1>1, <1>4 DEF NoTx
<1>5. CASE Commit(p)
  <2>1. PICK v, x, no, yes :
           v = [NoTx EXCEPT !.pc = "done"] /\ x = tx[p].undisturbed /\ no = FALSE /\ yes = TRUE
    BY Zenon
  <2>2. v = [pc |-> "done", none |-> no, matched |-> {}, dead |-> Nothing, undisturbed |-> yes]
    BY <2>1 DEF NoTx
  <2>3. [v EXCEPT !.undisturbed = x] =
            [pc |-> "done", none |-> no, matched |-> {}, dead |-> Nothing, undisturbed |-> x]
    BY <2>2, SetUndisturbed
  <2>4. PICK u : /\ u = [NoTx EXCEPT !.pc = "done", !.undisturbed = x]
                 /\ tx' = [tx EXCEPT ![p] = u]
    BY <1>5, <2>1, Zenon DEF Commit
  <2>5. u = [v EXCEPT !.undisturbed = x]
    BY <2>1, <2>4, Zenon
  <2>6. u.pc = "done" /\ u.dead = Nothing
    BY <2>3, <2>5
  <2> QED
    BY <1>1, <2>4, <2>6
<1> QED
  BY <1>2, <1>3, <1>4, <1>5

(* cmd/cleanup deletes no geometry, ...                                       *)
LEMMA CleanupDeletesNone ==
    ASSUME CatalogueInv, GeomsFit, Cleaning \/ Commit("cleanup") \/ InterruptTx("cleanup")
    PROVE  tx'["cleanup"].dead.geoms = {} /\ tx'["clear"] = tx["clear"]
<1>1. DOMAIN tx = Tools /\ Tools = {"clear", "cleanup"} /\ ToolsFit
  BY DEF CatalogueInv, ToolsFit, Tools
<1>2. tx'["clear"] = tx["clear"]
  BY <1>1 DEF Cleaning, SweepCodes, MatchJunk, DeleteCodes, DeleteJunkLegs, DeleteJunkRoutes,
              DeleteJunkStops, DeleteRoutes, DeleteStops, Delete, Commit, InterruptTx
<1>3. CASE tx'["cleanup"].dead = Nothing
  BY <1>2, <1>3 DEF Nothing
<1>4. CASE \E table \in {"stops", "routes", "legs", "codes"} : \E rows, label :
               Delete("cleanup", table, rows, label)
  <2>0. PICK table \in {"stops", "routes", "legs", "codes"} :
           \E rows, label : Delete("cleanup", table, rows, label)
    BY <1>4
  <2>1. PICK rows, label : Delete("cleanup", table, rows, label)
    BY <2>0
  <2>2. tx'["cleanup"].dead.geoms = tx["cleanup"].dead.geoms
    <3>1. ToolsFit /\ "cleanup" \in Tools
      BY <1>1
    <3>2. "geoms" # table
      OBVIOUS
    <3> QED
      BY <2>1, <3>1, <3>2, Deleted DEF Grown
  <2> QED
    BY <1>2, <2>2 DEF GeomsFit
<1>5. CASE MatchJunk
  <2>1. PICK label, junk : tx' = [tx EXCEPT !["cleanup"].matched = junk, !["cleanup"].pc = label]
    BY <1>5, Zenon DEF MatchJunk
  <2>2. tx' = [tx EXCEPT !["cleanup"] = [tx["cleanup"] EXCEPT !.matched = junk, !.pc = label]]
    BY <1>1, <2>1
  <2>3. PICK t, u : t = tx["cleanup"] /\ u = tx'["cleanup"]
    OBVIOUS
  <2>4. Matches(u, t, junk, label) /\ TxRecord(t)
    BY <1>1, <2>2, <2>3 DEF Matches, ToolsFit, TxFits, DeadFits, TxRecord
  <2>5. u.dead = t.dead
    BY <2>4, SetMatched
  <2> QED
    BY <1>2, <2>3, <2>5 DEF GeomsFit
<1>6. CASE SweepCodes \/ Commit("cleanup") \/ tx' = [tx EXCEPT !["cleanup"] = NoTx]
  BY <1>1, <1>3, <1>6, ToolsRestart
<1> QED
  BY <1>4, <1>5, <1>6 DEF Cleaning, DeleteCodes, DeleteJunkLegs, DeleteJunkRoutes, DeleteJunkStops,
     DeleteRoutes, DeleteStops, InterruptTx

(* ... and cmd/clearcatalogue those of the routes that it deletes next.       *)
LEMMA ClearGeoms ==
    ASSUME CatalogueInv, CatalogueInv', GeomsFit, Clearing \/ Commit("clear") \/ InterruptTx("clear")
    PROVE  GeomsFit'
<1>1. DOMAIN tx = Tools /\ Tools = {"clear", "cleanup"} /\ ToolsFit
  BY DEF CatalogueInv, ToolsFit, Tools
<1>2. tx'["cleanup"] = tx["cleanup"] /\ made' = made /\ routes' \subseteq routes
  BY <1>1 DEF Clearing, CountRoutes, CountStops, DeleteGeometries, DeleteCatalogueLegs,
              DeleteCatalogueRoutes, DeleteCatalogueStops, DeleteRoutes, DeleteStops, Delete, Commit,
              InterruptTx, tables
<1>3. CASE tx'["clear"].dead = Nothing
  BY <1>2, <1>3 DEF Nothing, GeomsFit
<1>4. CASE CountRoutes \/ Commit("clear") \/ tx' = [tx EXCEPT !["clear"] = NoTx]
  BY <1>1, <1>3, <1>4, ToolsRestart
<1>5. CASE CountStops /\ tx' # [tx EXCEPT !["clear"] = NoTx]
  <2>1. PICK label : label \in {"done", "geoms"} /\ tx' = [tx EXCEPT !["clear"].pc = label]
    BY <1>5 DEF CountStops
  <2>2. PICK t : t = tx["clear"] /\ TxRecord(t)
    BY <1>1 DEF ToolsFit, TxFits, DeadFits, TxRecord
  <2>3. tx'["clear"] = [t EXCEPT !.pc = label]
    BY <1>1, <2>1, <2>2
  <2>4. tx'["clear"].dead = t.dead /\ tx'["clear"].pc = label
    BY <2>2, <2>3, SetPc
  <2> QED
    BY <1>2, <2>1, <2>2, <2>4 DEF GeomsFit
<1>6. PICK d, e : d = tx["clear"].dead /\ e = tx'["clear"].dead
  OBVIOUS
<1>7. CASE DeleteGeometries
  <2>1. PICK rows : rows = geoms \cap FromCatalogue(routes) /\ Delete("clear", "geoms", rows, "legs")
    BY <1>7 DEF DeleteGeometries
  <2>2. e.geoms = d.geoms \cup rows /\ tx'["clear"].pc = "legs"
    <3>1. ToolsFit /\ "clear" \in Tools /\ Delete("clear", "geoms", rows, "legs")
      BY <1>1, <2>1
    <3>2. tx'["clear"].pc = "legs"
      BY <3>1, Deleted
    <3>3. e.geoms = Grown(d, "geoms", rows, "geoms")
      BY <1>6, <3>1, Deleted
    <3> QED
      BY <3>2, <3>3 DEF Grown
  <2>3. \A r \in rows : r.source = "catalogue" /\ r.name \in RouteNames /\ r.n \in 1 .. made.route[r.name]
    BY <2>1 DEF FromCatalogue, CatalogueInv, TablesFit, TypeOK
  <2> QED
    BY <1>2, <1>6, <2>2, <2>3 DEF GeomsFit
<1>8. CASE DeleteCatalogueLegs
  <2>1. PICK rows : Delete("clear", "legs", rows, "routes")
    BY <1>8 DEF DeleteCatalogueLegs
  <2>2. e.geoms = d.geoms /\ tx'["clear"].pc = "routes"
    <3>1. ToolsFit /\ "clear" \in Tools
      BY <1>1
    <3>2. tx'["clear"].pc = "routes"
      BY <2>1, <3>1, Deleted
    <3>3. e.geoms = Grown(d, "legs", rows, "geoms")
      BY <1>6, <2>1, <3>1, Deleted
    <3> QED
      BY <3>2, <3>3 DEF Grown
  <2> QED
    BY <1>2, <1>6, <2>2 DEF GeomsFit
<1>9. CASE DeleteCatalogueRoutes /\ tx' # [tx EXCEPT !["clear"] = NoTx]
  <2>1. PICK rows : rows = FromCatalogue(routes) /\ Delete("clear", "routes", rows, "stops")
    BY <1>9 DEF DeleteCatalogueRoutes, DeleteRoutes
  <2>2. e.geoms = d.geoms /\ e.routes = d.routes \cup rows
    BY <1>1, <1>6, <2>1, Deleted DEF Grown
  <2> QED
    BY <1>2, <1>6, <2>1, <2>2 DEF GeomsFit, FromCatalogue
<1>10. CASE DeleteCatalogueStops
  <2>1. PICK rows : Delete("clear", "stops", rows, "commit") /\ tx["clear"].pc = "stops"
    BY <1>10 DEF DeleteCatalogueStops, DeleteStops, At
  <2>2. e.geoms = d.geoms /\ e.routes = d.routes
    BY <1>1, <1>6, <2>1, Deleted DEF Grown
  <2> QED
    BY <1>2, <1>6, <2>1, <2>2 DEF GeomsFit
<1> QED
  BY <1>4, <1>5, <1>7, <1>8, <1>9, <1>10 DEF Clearing, InterruptTx

(* The deleted geometries fit after every step.                               *)
LEMMA GeomsFitNext ==
    ASSUME CatalogueInv, CatalogueInv', GeomsFit, [Next]_vars
    PROVE  GeomsFit'
<1>1. CASE UNCHANGED vars
  BY <1>1 DEF GeomsFit, vars, tables
<1>2. CASE Next /\ (Importing \/ Seeding \/ Serving)
  BY <1>2, ToolsStay, GeomsAside DEF Tools, GeomsFit
<1>3. CASE Next /\ (Cleaning \/ Commit("cleanup") \/ InterruptTx("cleanup"))
  BY <1>3, CleanupDeletesNone, GeomsAside
<1>4. CASE Clearing \/ Commit("clear") \/ InterruptTx("clear")
  BY <1>4, ClearGeoms
<1> QED
  BY <1>1, <1>2, <1>3, <1>4, Steps DEF Tools

(* Every step preserves what importer, seeder and tools remember.             *)
LEMMA WholeNext ==
    ASSUME CatalogueInv, CatalogueInv', WholeInv, [Next]_vars
    PROVE  WholeInv'
<1>1. LegsFit' /\ GeomsFit'
  BY LegsFitNext, GeomsFitNext DEF WholeInv
<1>2. CASE Importing
  <2>1. CorridorsSame
    BY <1>2, SeederLeftAlone DEF WholeInv
  <2> QED
    BY <1>1, <1>2, <2>1, ImporterRemembers, SeederAside DEF WholeInv
<1>3. CASE Seeding
  <2>1. FileSame
    BY <1>3, ImporterLeftAlone DEF WholeInv
  <2> QED
    BY <1>1, <1>3, <2>1, SeederRemembers, ImporterAside DEF WholeInv
<1>4. CASE Clearing \/ Cleaning \/ Serving \/ \E p \in Tools : Commit(p) \/ InterruptTx(p)
  <2>1. CorridorsSame /\ FileSame
    BY <1>4, SeederLeftAlone, ImporterLeftAlone DEF WholeInv
  <2> QED
    BY <1>1, <2>1, SeederAside, ImporterAside DEF WholeInv
<1>5. CASE UNCHANGED vars
  <2>1. CorridorsSame /\ FileSame
    BY <1>5 DEF CorridorsSame, FileSame, vars, tables
  <2> QED
    BY <1>1, <2>1, SeederAside, ImporterAside DEF WholeInv
<1> QED
  BY <1>2, <1>3, <1>4, <1>5, Steps

-----------------------------------------------------------------------------
(* At the beginning there are finitely many legs, those of the corridors or   *)
(* none and those of the tests.                                               *)
FirstLegsOf(c) == {FirstLeg(c.name, k, c.legs[k]) : k \in DOMAIN c.legs}

(* Each corridor has finitely many.                                           *)
LEMMA FirstLegsFinite ==
    ASSUME NEW seeded, seeded \in {{}, ToSet(SeedRoutes)},
           legs = (UNION {FirstLegsOf(c) : c \in seeded}) \cup {FirstLeg(x.name, 1, x) : x \in Leftovers}
    PROVE  IsFiniteSet(legs)
<1>1. ASSUME NEW q, NEW S, q \in Seq(S)
      PROVE  IsFiniteSet(ToSet(q)) /\ IsFiniteSet(DOMAIN q)
  <2>1. IsFiniteSet(1 .. Len(q)) /\ DOMAIN q = 1 .. Len(q)
    BY <1>1, FS_Interval
  <2>2. ToSet(q) = {q[i] : i \in 1 .. Len(q)}
    BY <2>1 DEF ToSet
  <2> QED
    BY <2>1, <2>2, FiniteImage
<1>2. IsFiniteSet(seeded)
  <2>1. PICK S : SeedRoutes \in Seq(S)
    BY NamesAssumption
  <2> QED
    BY <1>1, <2>1, FS_EmptySet
<1>3. PICK f : f = [c \in seeded |-> FirstLegsOf(c)]
  OBVIOUS
<1>4. ASSUME NEW c \in seeded
      PROVE  IsFiniteSet(f[c])
  <2>1. c \in Itineraries
    BY DEF Itineraries, Corridors
  <2>2. IsFiniteSet(DOMAIN c.legs)
    BY <1>1, <2>1, ItineraryFits
  <2>3. PICK g : g = [k \in DOMAIN c.legs |-> FirstLeg(c.name, k, c.legs[k])]
    OBVIOUS
  <2>4. f[c] = {g[k] : k \in DOMAIN c.legs}
    BY <1>3, <2>3 DEF FirstLegsOf
  <2> QED
    BY <2>2, <2>4, FiniteImage
<1>5. PICK F : F = {f[c] : c \in seeded}
  OBVIOUS
<1>6. IsFiniteSet(UNION F)
  <2>1. IsFiniteSet(F)
    BY <1>2, <1>5, FiniteImage
  <2> QED
    BY <1>4, <1>5, <2>1, FS_UNION
<1>7. PICK h : h = [x \in Leftovers |-> FirstLeg(x.name, 1, x)]
  OBVIOUS
<1>8. IsFiniteSet({h[x] : x \in Leftovers})
  BY FiniteImage, RoutesAssumption
<1>9. legs = (UNION F) \cup {h[x] : x \in Leftovers}
  <2>1. F = {FirstLegsOf(c) : c \in seeded}
    BY <1>3, <1>5
  <2>2. {h[x] : x \in Leftovers} = {FirstLeg(x.name, 1, x) : x \in Leftovers}
    BY <1>7
  <2> QED
    BY <2>1, <2>2
<1>10. PICK A, B : A = UNION F /\ B = {h[x] : x \in Leftovers}
  BY Zenon
<1>11. IsFiniteSet(A \cup B) /\ legs = A \cup B
  <2>1. legs = A \cup B
    BY <1>9, <1>10, Zenon
  <2> QED
    BY <1>6, <1>8, <1>10, <2>1, FS_Union
<1> QED
  BY <1>11

(* What the tests and the seeder have left is whole.                          *)
LEMMA WholeInit == Init => WholeInv
<1> SUFFICES ASSUME Init PROVE WholeInv
  OBVIOUS
<1>1. PICK seeded : seeded = IF left.seed > 0 THEN {} ELSE ToSet(SeedRoutes)
  OBVIOUS
<1>2. seeded \in {{}, ToSet(SeedRoutes)}
  BY <1>1
<1>3. /\ legs = (UNION {FirstLegsOf(c) : c \in seeded}) \cup {FirstLeg(x.name, 1, x) : x \in Leftovers}
      /\ routes = {FirstRow(x.name) : x \in Leftovers \cup seeded}
  BY <1>1 DEF Init, FirstLegsOf, FirstLeg, FirstRow
<1>4. /\ imp = NoImport /\ sdr = NoSeed /\ tx = [p \in Tools |-> NoTx] /\ CatalogueInv
  BY CatalogueInit DEF Init, Tools
<1>5. ASSUME NEW c \in seeded
      PROVE  /\ c \in Corridors /\ c \in Itineraries /\ c.name \in SeedRouteNames
             /\ Len(c.legs) \in Nat \ {0} /\ DOMAIN c.legs = 1 .. Len(c.legs)
             /\ \A k \in 1 .. Len(c.legs) : FirstLeg(c.name, k, c.legs[k]) \in legs
  <2>1. c \in Corridors /\ c \in Itineraries /\ c.name \in SeedRouteNames
    BY <1>2 DEF Corridors, Itineraries, SeedRouteNames
  <2>2. Len(c.legs) \in Nat \ {0} /\ DOMAIN c.legs = 1 .. Len(c.legs)
    BY <2>1, ItineraryFits
  <2>3. ASSUME NEW k \in DOMAIN c.legs
        PROVE  FirstLeg(c.name, k, c.legs[k]) \in legs
    <3>1. FirstLeg(c.name, k, c.legs[k]) \in FirstLegsOf(c)
      BY DEF FirstLegsOf
    <3> QED
      BY <1>3, <3>1
  <2> QED
    BY <2>1, <2>2, <2>3
<1>6. ASSUME NEW x \in Leftovers
      PROVE  x.name \in routeNamePatterns /\ FirstLeg(x.name, 1, x) \in legs
  BY <1>3 DEF routeNamePatterns
<1>7. LegsFit
  <2>1. IsFiniteSet(legs)
    BY <1>2, <1>3, FirstLegsFinite
  <2>2. IsFiniteSet(routes)
    <3>1. PICK f, S : S = Leftovers \cup seeded /\ f = [x \in S |-> FirstRow(x.name)]
      BY Zenon
    <3>2. IsFiniteSet(S)
      <4>1. IsFiniteSet(ToSet(SeedRoutes))
        <5>1. IsFiniteSet(1 .. Len(SeedRoutes)) /\ DOMAIN SeedRoutes = 1 .. Len(SeedRoutes)
          BY NamesAssumption, FS_Interval
        <5>2. ToSet(SeedRoutes) = {SeedRoutes[i] : i \in 1 .. Len(SeedRoutes)}
          BY <5>1 DEF ToSet
        <5> QED
          BY <5>1, <5>2, FiniteImage
      <4> QED
        BY <1>2, <3>1, <4>1, FS_EmptySet, FS_Union, RoutesAssumption
    <3>3. routes = {f[x] : x \in S}
      BY <1>3, <3>1
    <3> QED
      BY <3>2, <3>3, FiniteImage
  <2>3. ASSUME NEW c \in seeded, NEW k \in DOMAIN c.legs, NEW l, l = FirstLeg(c.name, k, c.legs[k])
        PROVE  LegRecord(l) /\ Filled(l.route, l.seq) /\ \E it \in Itineraries : Follows(l, it)
    <3>1. l.route = FirstRow(c.name) /\ l.seq = k /\ LegRecord(l)
      BY <2>3 DEF FirstLeg, LegRecord
    <3>2. Filled(l.route, l.seq)
      <4>1. ASSUME NEW j \in 1 .. k
            PROVE  FirstLeg(c.name, j, c.legs[j]) \in legs
        <5>1. j \in 1 .. Len(c.legs)
          BY <1>5
        <5> QED
          BY <1>5, <5>1
      <4> QED
        BY <3>1, <4>1 DEF Filled, FirstLeg
    <3>3. Follows(l, c)
      BY <2>3 DEF Follows, FirstLeg, FirstRow
    <3> QED
      BY <1>5, <3>1, <3>2, <3>3
  <2>4. ASSUME NEW x \in Leftovers, NEW l, l = FirstLeg(x.name, 1, x)
        PROVE  LegRecord(l) /\ Filled(l.route, l.seq) /\ \E it \in Itineraries : Follows(l, it)
    <3>1. l.route = FirstRow(x.name) /\ l.seq = 1 /\ LegRecord(l) /\ l \in legs
      BY <1>6, <2>4 DEF FirstLeg, LegRecord
    <3>2. PICK m, it : m = [from |-> x.from, to |-> x.to, fare |-> x.fare]
                       /\ it = [name |-> x.name, legs |-> <<m>>]
      BY Zenon
    <3>3. it \in Itineraries
      BY <3>2 DEF Itineraries
    <3>4. Follows(l, it)
      BY <2>4, <3>2 DEF Follows, FirstLeg, FirstRow
    <3> QED
      BY <3>1, <3>3, <3>4 DEF Filled
  <2> QED
    BY <1>3, <2>1, <2>2, <2>3, <2>4, FirstLegs DEF LegsFit, FirstLegsOf
<1>8. ImportRemembers /\ SeedRemembers
  BY <1>4 DEF ImportRemembers, SeedRemembers, NoImport, NoSeed
<1>9. ASSUME NEW r \in routes
      PROVE  r.name \in RouteNames /\ \E x \in Leftovers \cup seeded : r = FirstRow(x.name) /\ r.name = x.name
  BY <1>3, <1>4 DEF FirstRow, CatalogueInv, TablesFit, TypeOK
<1>10. WholeRoutes
  BY <1>5, <1>6, <1>9, Families DEF WholeRoutes
<1>11. ASSUME NEW r \in routes, NEW c \in Corridors, r.name = c.name
       PROVE  \E l \in LegsOf(legs, r) : l.seq = Len(c.legs)
  <2>1. PICK x \in Leftovers \cup seeded : r = FirstRow(x.name) /\ r.name = x.name
    BY <1>9
  <2>2. x \in seeded
    BY <1>6, <1>9, <1>11, <2>1, Families DEF Corridors, SeedRouteNames
  <2>3. x = c
    BY <1>5, <1>11, <2>1, <2>2, RoutesAssumption DEF Corridors
  <2>4. PICK l : l = FirstLeg(c.name, Len(c.legs), c.legs[Len(c.legs)])
    OBVIOUS
  <2>5. l \in legs /\ l.route = r /\ l.seq = Len(c.legs)
    <3>1. Len(c.legs) \in 1 .. Len(c.legs)
      BY <1>5, <2>2, <2>3
    <3> QED
      BY <1>5, <2>1, <2>2, <2>3, <2>4, <3>1 DEF FirstLeg
  <2> QED
    BY <2>5 DEF LegsOf
<1>12. WholeCorridors
  BY <1>11 DEF WholeCorridors
<1>13. GeomsFit
  BY <1>4 DEF GeomsFit, Tools, NoTx, Nothing
<1> QED
  BY <1>7, <1>8, <1>10, <1>12, <1>13 DEF WholeInv

(* Routes, legs and geometries fit what the tools remember in every state of  *)
(* every behaviour.                                                           *)
LEMMA WholeSafe == Spec => []WholeInv
<1>1. CatalogueInv /\ CatalogueInv' /\ WholeInv /\ [Next]_vars => WholeInv'
  BY WholeNext
<1> QED
  BY <1>1, CatalogueSafe, WholeInit, PTL DEF Spec

(* The legs of a corridor's route, as the seeder wrote them.                  *)
LEMMA AsSeeded ==
    ASSUME CatalogueInv, LegsFit, NEW c \in Corridors, NEW r, r.name = c.name
    PROVE  LET ls == ListLegsForRoute(r)
               asSeeded == [i \in DOMAIN ls |->
                   [from |-> ls[i].from.name, to |-> ls[i].to.name, fare |-> ls[i].fare]]
           IN  IF Len(ls) = Len(c.legs) THEN asSeeded = c.legs ELSE IsStrictPrefix(asSeeded, c.legs)
<1> DEFINE ls == ListLegsForRoute(r)
           f(i) == [from |-> ls[i].from.name, to |-> ls[i].to.name, fare |-> ls[i].fare]
           asSeeded == [i \in DOMAIN ls |-> f(i)]
<1>1. c \in Itineraries
  BY DEF Itineraries
<1>2. PICK s, n, m : s = c.legs /\ n = Len(ls) /\ m = Len(s)
  OBVIOUS
<1>3. /\ n \in Nat /\ DOMAIN ls = 1 .. n /\ n <= m /\ m \in Nat /\ DOMAIN s = 1 .. m
      /\ s \in Seq(ToSet(s))
  BY <1>1, <1>2, Listed, ListedFollows, ItineraryFits DEF CatalogueInv
<1>4. ASSUME NEW i \in 1 .. n
      PROVE  i \in 1 .. m /\ f(i) = s[i]
  <2>1. Follows(ls[i], c) /\ ls[i].seq = i /\ i \in 1 .. m
    BY <1>1, <1>2, Listed, ListedFollows DEF CatalogueInv
  <2>2. s[i] = [from |-> s[i].from, to |-> s[i].to, fare |-> s[i].fare]
    BY <1>1, <1>2, <2>1, ItineraryFits
  <2> QED
    BY <1>2, <2>1, <2>2 DEF Follows
<1>5. PICK t : t = asSeeded
  OBVIOUS
<1>6. t = [i \in 1 .. n |-> s[i]]
  BY <1>3, <1>4, <1>5
<1>7. t \in Seq(ToSet(s)) /\ Len(t) = n /\ \A i \in 1 .. n : t[i] = s[i]
  <2>1. t \in [1 .. n -> ToSet(s)]
    BY <1>3, <1>4, <1>6 DEF ToSet
  <2> QED
    BY <1>3, <1>6, <2>1
<1>8. CASE n = m
  <2>1. s \in [1 .. m -> ToSet(s)]
    BY <1>3
  <2>2. s = [i \in 1 .. m |-> s[i]]
    BY <2>1
  <2>3. t = s
    BY <1>6, <1>8, <2>2, Zenon
  <2> QED
    BY <1>2, <1>5, <1>8, <2>3
<1>9. CASE n # m
  <2>1. SubSeq(t, 1, n) = SubSeq(s, 1, n)
    BY <1>3, <1>7
  <2> QED
    BY <1>2, <1>3, <1>5, <1>7, <1>9, <2>1 DEF IsStrictPrefix, IsPrefix
<1> QED
  BY <1>8, <1>9

(* A run that is done has brought about what it should.                       *)
LEMMA DoneIsWhole ==
    ASSUME CatalogueInv, WholeInv
    PROVE  FinishedRunIsWhole
<1>1. ASSUME imp.pc = "done", imp.undisturbed, NEW x \in ToSet(Rows)
      PROVE  Imported(x)
  <2>1. PICK j \in 1 .. Len(Rows) : x = Rows[j]
    BY NamesAssumption, MemberOf
  <2>2. PICK r : r \in routes /\ r.name = x.name
    BY <1>1, <2>1 DEF WholeInv, ImportRemembers, Named
  <2>3. r \in halted \/ (r \in geoms /\ LegsOf(legs, r) # {})
    BY <1>1, <2>2 DEF WholeInv, WholeRoutes, FileRoutes
  <2>4. ASSUME NEW l \in LegsOf(legs, r)
        PROVE  l.from.name = x.from /\ l.to.name = x.to /\ l.fare = x.fare
    <3>1. PICK it \in Itineraries : Follows(l, it)
      BY DEF WholeInv, LegsFit, LegsOf
    <3>2. PICK own \in Itineraries :
              /\ own.name = x.name /\ DOMAIN own.legs = {1}
              /\ own.legs[1].from = x.from /\ own.legs[1].to = x.to /\ own.legs[1].fare = x.fare
      BY RowItinerary
    <3>3. it = own
      BY <2>2, <3>1, <3>2, OneItinerary DEF Follows, LegsOf
    <3> QED
      BY <3>1, <3>2, <3>3 DEF Follows
  <2> QED
    BY <2>2, <2>3, <2>4 DEF Imported, Named
<1>2. ASSUME sdr.pc = "done", NEW c \in Corridors
      PROVE  Seeded(c)
  <2>1. PICK j \in 1 .. Len(SeedRoutes) : c = SeedRoutes[j]
    BY NamesAssumption, MemberOf DEF Corridors
  <2>2. PICK r : r \in routes /\ r.name = c.name /\ LegsOf(legs, r) # {}
    BY <1>2, <2>1 DEF WholeInv, SeedRemembers, Named
  <2>3. PICK ls : ls = ListLegsForRoute(r)
    OBVIOUS
  <2>4. Len(ls) # Len(c.legs) => r \in halted
    <3>1. SUFFICES ASSUME r \notin halted PROVE Len(ls) = Len(c.legs)
      OBVIOUS
    <3>2. PICK l \in LegsOf(legs, r) : l.seq = Len(c.legs)
      BY <1>2, <2>2, <3>1 DEF WholeInv, WholeCorridors
    <3>3. Len(c.legs) <= Len(ls) /\ Len(ls) \in Nat
      BY <2>3, <3>2, Listed DEF CatalogueInv, WholeInv
    <3>4. Len(ls) <= Len(c.legs) /\ Len(c.legs) \in Nat
      <4>1. c \in Itineraries
        BY DEF Itineraries
      <4> QED
        BY <2>2, <2>3, <4>1, ListedFollows, ItineraryFits DEF CatalogueInv, WholeInv
    <3> QED
      BY <3>3, <3>4
  <2> QED
    BY <2>2, <2>3, <2>4, AsSeeded DEF WholeInv, Seeded, Named
<1> QED
  BY <1>1, <1>2 DEF FinishedRunIsWhole

(* A run of the importer that no clear disturbed has brought about every row  *)
(* of the file, and a run of the seeder every corridor, but for what a run    *)
(* left unfinished: wherever earlier runs died, and whatever importer,        *)
(* seeder, tools and requests did between its statements.                     *)
THEOREM FinishedIsWhole == Spec => []FinishedRunIsWhole
<1>1. CatalogueInv /\ WholeInv => FinishedRunIsWhole
  BY DoneIsWhole
<1> QED
  BY <1>1, CatalogueSafe, WholeSafe, PTL

-----------------------------------------------------------------------------
(* Requests: Search, GetRoute and ListStops.                                  *)

(* A row that there is, or was.                                               *)
Known(r) == r.name \in RouteNames /\ r.n \in 1 .. made.route[r.name]

(* Legs that were read are still there, unless their route is gone.           *)
LegsRead(ls) == \A l \in ls : Known(l.route) /\ (l.route \in routes => l \in legs)

(* The record of a request.                                                   *)
Request(pc, route, ask, ends, todo, net, owed, path, blank) ==
    [pc |-> pc, route |-> route, ask |-> ask, ends |-> ends, todo |-> todo, net |-> net,
     owed |-> owed, path |-> path, blank |-> blank]

(* A request has all its fields.                                              *)
ReqRecord ==
    req = Request(req.pc, req.route, req.ask, req.ends, req.todo, req.net, req.owed, req.path,
                  req.blank)

(* What a request has loaded can be searched: AllRoutesWithLegs, although its *)
(* queries see different states of the tables.                                *)
NetFits ==
    /\ req.net \in Seq(ToSet(req.net))
    /\ \A i \in DOMAIN req.net : Walkable(req.net[i].legs) /\ LegsRead(ToSet(req.net[i].legs))

(* What it has still to load: for GetRoute, the one route it is about.        *)
TodoFits ==
    /\ req.pc \in {"resolve", "list"} => req.route = NULL
    /\ req.pc = "route" => req.net = <<>>
    /\ req.pc = "load" => /\ req.todo \in Seq(ToSet(req.todo))
                          /\ req.route # NULL => Len(req.net) + Len(req.todo) = 1

(* The legs of an answer are legs that were read, and a route has a blank     *)
(* name only when it is gone.                                                 *)
Shown(path) == UNION {ToSet(s.legs) : s \in ToSet(path.segments)}

(* The path to be named is what Search found in the loaded routes, each leg   *)
(* of it was read from the tables, and what was left blank belongs to routes  *)
(* that are gone.                                                             *)
AnswerFits ==
    /\ req.pc = "name" => /\ req.route = NULL => req.path = Search(req.net, req.ends[1], req.ends[2])
                          /\ LegsRead(Shown(req.path))
    /\ \A r \in req.blank : Known(r) /\ r \notin routes

(* A direct ride for the fare that the request is owed.                       *)
Offers(x, o, d) == req.owed \in RideFares(x, o, d)

(* A corridor's route r offers a ride between two stops of the names asked    *)
(* for.                                                                       *)
RideThere(r, o, d) ==
    /\ r \in routes /\ r.name \in SeedRouteNames /\ o # d
    /\ o \in Named(stops, req.ask[1]) /\ d \in Named(stops, req.ask[2])
    /\ Offers([legs |-> ListLegsForRoute(r)], o, d)

(* The request has loaded a ride from o to d, or will when it comes to r.     *)
Loads(r, o, d) == r \in ToSet(req.todo) \/ \E i \in DOMAIN req.net : Offers(req.net[i], o, d)

(* ... as far as the request has come, its stops are the ones of the ride,    *)
(* and the ride is loaded or will be.                                         *)
RideAhead ==
    \E r \in routes, o, d \in stops :
        /\ RideThere(r, o, d)
        /\ req.pc = "resolve" => req.ends \in {<<>>, <<o>>}
        /\ req.pc \in {"list", "load"} => req.ends = <<o, d>>
        /\ req.pc = "load" => Loads(r, o, d)

(* While a direct ride is owed, it is ahead; then it is found for no more.    *)
OwedFits ==
    req.owed # NULL =>
        /\ req.route = NULL /\ req.pc # "route"
        /\ req.pc \in {"resolve", "list", "load"} => RideAhead
        /\ req.pc \in {"name", "answered"} =>
               Len(req.path.segments) = 1 /\ req.path.fare <= req.owed

(* The inductive invariant of the three properties of a request.              *)
RequestInv == ReqRecord /\ NetFits /\ TodoFits /\ AnswerFits /\ OwedFits

-----------------------------------------------------------------------------
(* What any step may do to the tables while a request is served: no route     *)
(* comes back, a leg stays as long as its route, and a corridor's route for   *)
(* ever.                                                                      *)
Moves ==
    /\ \A name \in RouteNames : /\ made.route[name] \in Nat /\ made'.route[name] \in Nat
                                /\ made'.route[name] >= made.route[name]
    /\ \A r \in routes' \ routes : r.n > made.route[r.name]
    /\ \A l \in legs : l.route \in routes' => l \in legs'
    /\ \A r \in routes : r.name \in SeedRouteNames => r \in routes'

(* Every step does no more.                                                   *)
LEMMA EveryMove ==
    ASSUME CatalogueInv, CatalogueInv', WholeInv, [Next]_vars
    PROVE  Moves
<1>1. CASE UNCHANGED vars
  <2>1. UNCHANGED <<made, routes, legs>>
    BY <1>1 DEF vars, tables
  <2>2. \A name \in RouteNames : made.route[name] \in Nat
    BY DEF CatalogueInv, TablesFit, MadeFits
  <2> QED
    BY <2>1, <2>2 DEF Moves
<1>2. CASE Next
  <2>1. /\ \A r \in routes' \ routes : r.n > made.route[r.name]
        /\ \A name \in RouteNames :
               /\ made.route[name] \in Nat /\ made'.route[name] \in Nat
               /\ made'.route[name] >= made.route[name]
    BY <1>2, NewNumbers
  <2>2. /\ \A l \in legs : l.route \in routes' => l \in legs'
        /\ \A r \in routes : r.name \in SeedRouteNames => r \in routes'
    <3>1. CASE Importing
      BY <3>1, ImportingAdds
    <3>2. CASE Seeding
      BY <3>2, SeedingAdds
    <3>3. CASE Clearing \/ Cleaning \/ Serving \/ \E p \in Tools : InterruptTx(p)
      BY <3>3, OthersWriteNothing
    <3>4. ASSUME NEW p \in Tools, Commit(p)
          PROVE  /\ \A l \in legs : l.route \in routes' => l \in legs'
                 /\ \A r \in routes : r.name \in SeedRouteNames => r \in routes'
      <4>1. /\ \A r \in routes' : LegsOf(legs', r) = LegsOf(legs, r)
            /\ \A r \in routes : r.name \in SeedRouteNames => r \in routes'
        BY <3>4, CommitKeeps DEF WholeInv
      <4> QED
        BY <4>1 DEF LegsOf
    <3> QED
      BY <1>2, <3>1, <3>2, <3>3, <3>4, Steps
  <2> QED
    BY <2>1, <2>2 DEF Moves
<1> QED
  BY <1>1, <1>2

(* A route that is gone stays gone, ...                                       *)
LEMMA GoneForGood ==
    ASSUME Moves, NEW r, Known(r)
    PROVE  /\ r.name \in RouteNames /\ r.n \in 1 .. made'.route[r.name]
           /\ r \in routes' => r \in routes
  BY DEF Moves, Known

(* ... so that legs that were read stay as long as their route.               *)
LEMMA ReadStays ==
    ASSUME Moves, NEW ls, LegsRead(ls)
    PROVE  \A l \in ls : /\ l.route.name \in RouteNames /\ l.route.n \in 1 .. made'.route[l.route.name]
                         /\ l.route \in routes' => l \in legs'
<1>1. ASSUME NEW l \in ls
      PROVE  /\ l.route.name \in RouteNames /\ l.route.n \in 1 .. made'.route[l.route.name]
             /\ l.route \in routes' => l \in legs'
  <2>1. Known(l.route) /\ (l.route \in routes => l \in legs)
    BY DEF LegsRead
  <2> QED
    BY <2>1, GoneForGood DEF Moves
<1> QED
  BY <1>1

-----------------------------------------------------------------------------
(* The legs of a corridor's route never come back to a stop, however many of  *)
(* them were seeded.                                                          *)
LEMMA CorridorSimple ==
    ASSUME TablesFit, LegsFit, NEW r, NEW it \in Corridors, it.name = r.name, Simple(it.legs)
    PROVE  Simple(ListLegsForRoute(r))
<1>1. PICK q : q = ListLegsForRoute(r)
  OBVIOUS
<1>2. PICK w : w = it.legs
  OBVIOUS
<1>3. it \in Itineraries
  BY DEF Itineraries
<1>4. /\ Len(q) \in Nat /\ DOMAIN q = 1 .. Len(q) /\ q \in Seq(LegsOf(legs, r))
      /\ \A i \in 1 .. Len(q) : q[i] \in legs
  BY <1>1, Listed
<1>5. /\ Len(q) <= Len(w) /\ \A i \in 1 .. Len(q) : i \in 1 .. Len(w) /\ Follows(q[i], it)
      /\ \A i \in 1 .. Len(q) : q[i].seq = i
  BY <1>1, <1>2, <1>3, Listed, ListedFollows
<1>6. \A i \in 1 .. Len(q) : q[i].from.name = w[i].from /\ q[i].to.name = w[i].to
  BY <1>2, <1>5 DEF Follows
<1>7. \A i \in 1 .. Len(q) : q[i].from \in stops /\ q[i].to \in stops
  BY <1>4 DEF TablesFit, TypeOK
<1>8. w \in Seq(ToSet(w)) /\ Len(w) \in Nat \ {0}
  BY <1>2, <1>3, ItineraryFits
<1>9. \A i \in 1 .. Len(w) - 1 : w[i].to = w[i + 1].from
  BY <1>2 DEF Simple
<1>10. IsInjective(stopsOf(w))
  BY <1>2 DEF Simple
<1>11. ASSUME NEW i \in 1 .. Len(q) - 1
       PROVE  q[i].to = q[i + 1].from
  <2>1. i \in 1 .. Len(q) /\ i + 1 \in 1 .. Len(q) /\ i \in 1 .. Len(w) - 1
    BY <1>4, <1>5, <1>8
  <2>2. q[i].to.name = q[i + 1].from.name
    BY <1>6, <1>9, <2>1
  <2> QED
    BY <1>7, <2>1, <2>2 DEF TablesFit, NamesUnique
<1>12. CASE q = <<>>
  <2>1. stopsOf(q) = <<>>
    BY <1>12 DEF stopsOf
  <2> QED
    BY <1>1, <1>12, <2>1 DEF Simple, IsInjective
<1>13. CASE q # <<>>
  <2>1. q \in Seq(ToSet(q)) /\ 1 \in 1 .. Len(q)
    <3>1. q \in [1 .. Len(q) -> ToSet(q)]
      BY <1>4 DEF ToSet
    <3> QED
      BY <1>4, <1>13, <3>1
  <2>2. PICK s, v : s = stopsOf(q) /\ v = stopsOf(w)
    OBVIOUS
  <2>3. /\ Len(s) = Len(q) + 1 /\ DOMAIN s = 1 .. Len(s) /\ s[1] = q[1].from
        /\ \A i \in 1 .. Len(q) : s[i + 1] = q[i].to
    BY <1>13, <2>1, <2>2, StopsAlong
  <2>4. /\ Len(v) = Len(w) + 1 /\ DOMAIN v = 1 .. Len(v) /\ v[1] = w[1].from
        /\ \A i \in 1 .. Len(w) : v[i + 1] = w[i].to
    <3>1. w # <<>>
      BY <1>8
    <3> QED
      BY <1>8, <2>2, <3>1, StopsAlong
  <2>5. ASSUME NEW k \in DOMAIN s PROVE k \in DOMAIN v /\ s[k].name = v[k]
    <3>1. CASE k = 1
      BY <1>5, <1>6, <1>8, <2>1, <2>3, <2>4, <3>1
    <3>2. CASE k # 1
      <4>1. PICK i : i = k - 1
        OBVIOUS
      <4>2. i \in 1 .. Len(q) /\ k = i + 1 /\ i \in 1 .. Len(w)
        BY <1>4, <1>5, <2>3, <3>2, <4>1
      <4>3. s[k].name = v[k]
        BY <1>6, <2>3, <2>4, <4>2
      <4> QED
        BY <1>4, <1>5, <1>8, <2>4, <4>2, <4>3
    <3> QED
      BY <3>1, <3>2
  <2>6. IsInjective(s)
    BY <1>10, <2>2, <2>5 DEF IsInjective
  <2> QED
    BY <1>1, <1>11, <2>2, <2>6 DEF Simple
<1> QED
  BY <1>12, <1>13

(* What ListLegsForRoute returns for any route can be searched.               *)
LEMMA ListFits ==
    ASSUME CatalogueInv, LegsFit, NEW r
    PROVE  Walkable(ListLegsForRoute(r)) /\ LegsRead(ToSet(ListLegsForRoute(r)))
<1>1. PICK q : q = ListLegsForRoute(r)
  OBVIOUS
<1>2. TablesFit
  BY DEF CatalogueInv
<1>3. /\ Len(q) \in Nat /\ DOMAIN q = 1 .. Len(q) /\ q \in Seq(LegsOf(legs, r))
      /\ \A i \in 1 .. Len(q) : q[i] \in legs /\ q[i].route = r /\ q[i].seq = i
  BY <1>1, <1>2, Listed
<1>4. q \in Seq(ToSet(q))
  <2>1. q \in [1 .. Len(q) -> ToSet(q)]
    BY <1>3 DEF ToSet
  <2> QED
    BY <1>3, <2>1
<1>5. LegsRead(ToSet(q))
  BY <1>2, <1>3 DEF LegsRead, Known, ToSet, TablesFit, TypeOK
<1>6. CASE q = <<>>
  <2>1. stopsOf(q) = <<>>
    BY <1>6 DEF stopsOf
  <2>2. Simple(q)
    BY <1>6, <2>1 DEF Simple, IsInjective
  <2> QED
    BY <1>1, <1>3, <1>4, <1>5, <1>6, <2>2 DEF Walkable, Searchable
<1>7. CASE q # <<>>
  <2>1. 1 \in 1 .. Len(q)
    BY <1>3, <1>7
  <2>2. PICK it \in Itineraries : Follows(q[1], it)
    BY <1>3, <2>1 DEF LegsFit
  <2>3. it.name = r.name
    BY <1>3, <2>1, <2>2 DEF Follows
  <2>4. /\ Len(q) <= Len(it.legs)
        /\ \A i \in 1 .. Len(q) : i \in 1 .. Len(it.legs) /\ Follows(q[i], it)
    BY <1>1, <1>2, <2>3, ListedFollows
  <2>5. \A i \in 1 .. Len(it.legs) : it.legs[i].fare \in Int
    BY ItineraryFits
  <2>6. \A i \in DOMAIN q : q[i].fare \in Int
    BY <1>3, <2>4, <2>5 DEF Follows
  <2>7. Searchable(q)
    <3>1. CASE it \in Corridors /\ Simple(it.legs)
      BY <1>1, <1>2, <2>3, <3>1, CorridorSimple DEF Searchable
    <3>2. CASE Len(it.legs) = 1
      <4>1. Len(q) = 1
        BY <1>3, <2>1, <2>4, <3>2
      <4> QED
        BY <4>1 DEF Searchable
    <3> QED
      BY <3>1, <3>2, ItineraryFits
  <2> QED
    BY <1>1, <1>4, <1>5, <2>6, <2>7 DEF Walkable
<1> QED
  BY <1>6, <1>7

-----------------------------------------------------------------------------
(* In a state that fits, ListLegsForRoute returns the legs of any route, in   *)
(* order, ...                                                                 *)
AllListed ==
    \A r : LET s == ListLegsForRoute(r)
           IN  /\ s \in Seq(ToSet(s)) /\ Len(s) \in Nat /\ DOMAIN s = 1 .. Len(s)
               /\ \A i \in 1 .. Len(s) : s[i] \in legs /\ s[i].route = r /\ s[i].seq = i
               /\ \A l \in LegsOf(legs, r) : l.seq \in 1 .. Len(s) /\ s[l.seq] = l

(* It holds of the tables as they are, because sequence numbers have no gaps. *)
LEMMA ListedNow == TablesFit /\ LegsFit => AllListed
<1> SUFFICES ASSUME TablesFit, LegsFit, NEW r
             PROVE  LET s == ListLegsForRoute(r)
                    IN  /\ s \in Seq(ToSet(s)) /\ Len(s) \in Nat /\ DOMAIN s = 1 .. Len(s)
                        /\ \A i \in 1 .. Len(s) : s[i] \in legs /\ s[i].route = r /\ s[i].seq = i
                        /\ \A l \in LegsOf(legs, r) : l.seq \in 1 .. Len(s) /\ s[l.seq] = l
  BY DEF AllListed
<1>1. PICK s : s = ListLegsForRoute(r)
  OBVIOUS
<1>2. /\ Len(s) \in Nat /\ DOMAIN s = 1 .. Len(s) /\ s \in Seq(LegsOf(legs, r))
      /\ \A i \in 1 .. Len(s) : s[i] \in legs /\ s[i].route = r /\ s[i].seq = i
      /\ \A l \in LegsOf(legs, r) : l.seq \in 1 .. Len(s) /\ s[l.seq] = l
  BY <1>1, Listed
<1>3. s \in Seq(ToSet(s))
  <2>1. s \in [1 .. Len(s) -> ToSet(s)]
    BY <1>2 DEF ToSet
  <2> QED
    BY <1>2, <2>1
<1> QED
  BY <1>1, <1>2, <1>3

(* ... and so after a step.                                                   *)
LEMMA ListedLater == TablesFit' /\ LegsFit' => AllListed'
<1>1. (TablesFit /\ LegsFit => AllListed)'
  BY ListedNow, PTL
<1> QED
  BY <1>1, PTL

(* A ride on a corridor stays, whatever a step does to the tables.            *)
LEMMA RideStays ==
    ASSUME CatalogueInv, CatalogueInv', LegsFit, LegsFit', Moves, UNCHANGED req,
           NEW r, NEW o, NEW d, RideThere(r, o, d)
    PROVE  RideThere(r, o, d)' /\ r \in routes' /\ o \in stops' /\ d \in stops'
<1>1. PICK p : p = ListLegsForRoute(r)
  OBVIOUS
<1>2. PICK q : q = ListLegsForRoute(r)'
  OBVIOUS
<1>3. /\ r \in routes /\ r.name \in SeedRouteNames /\ o # d
      /\ o \in Named(stops, req.ask[1]) /\ d \in Named(stops, req.ask[2])
      /\ req.owed \in RideFares([legs |-> p], o, d)
  BY <1>1 DEF RideThere, Offers
<1>4. r \in routes'
  BY <1>3 DEF Moves
<1>5. /\ p \in Seq(ToSet(p)) /\ Len(p) \in Nat /\ DOMAIN p = 1 .. Len(p)
      /\ \A i \in 1 .. Len(p) : p[i] \in legs /\ p[i].route = r /\ p[i].seq = i
  BY <1>1, ListedNow DEF CatalogueInv, AllListed
<1>6. /\ q \in Seq(ToSet(q)) /\ Len(q) \in Nat
      /\ \A l \in LegsOf(legs', r) : l.seq \in 1 .. Len(q) /\ q[l.seq] = l
  BY <1>2, ListedLater DEF CatalogueInv, AllListed
<1>7. \A i \in 1 .. Len(p) : p[i] \in legs'
  BY <1>4, <1>5 DEF Moves
<1>8. \A i \in 1 .. Len(p) : i \in 1 .. Len(q) /\ q[i] = p[i]
  BY <1>5, <1>6, <1>7 DEF LegsOf
<1>9. Len(p) <= Len(q)
  <2>1. CASE Len(p) = 0
    BY <1>6, <2>1
  <2>2. CASE Len(p) # 0
    <3>1. Len(p) \in 1 .. Len(p)
      BY <1>5, <2>2
    <3>2. Len(p) \in 1 .. Len(q)
      BY <1>8, <3>1
    <3> QED
      BY <1>5, <1>6, <3>2
  <2> QED
    BY <2>1, <2>2
<1>10. RideFares([legs |-> p], o, d) \subseteq RideFares([legs |-> q], o, d)
  <2>1. PICK a, b : a = [legs |-> p] /\ b = [legs |-> q]
    OBVIOUS
  <2>2. a.legs = p /\ b.legs = q
    BY <2>1
  <2> QED
    BY <1>5, <1>6, <1>8, <1>9, <2>1, <2>2, MoreRides
<1>11. o \in stops' /\ d \in stops'
  <2>1. PICK a : a = [legs |-> p]
    OBVIOUS
  <2>2. PICK k \in ToSet(p), m \in ToSet(p) : k.from = o /\ m.to = d
    BY <1>3, <1>5, <2>1, RideEnds
  <2>3. k \in legs' /\ m \in legs'
    BY <1>5, <1>7 DEF ToSet
  <2> QED
    BY <2>2, <2>3 DEF CatalogueInv, TablesFit, TypeOK
<1>12. RideThere(r, o, d)'
  BY <1>2, <1>3, <1>4, <1>10, <1>11 DEF RideThere, Offers, Named
<1> QED
  BY <1>4, <1>11, <1>12

(* A step that is not the request's leaves what it has to do with as it was.  *)
LEMMA RequestAside ==
    ASSUME CatalogueInv, CatalogueInv', LegsFit, LegsFit', Moves, UNCHANGED req, RequestInv
    PROVE  RequestInv'
<1>1. ReqRecord' /\ TodoFits'
  BY DEF RequestInv, ReqRecord, TodoFits
<1>2. NetFits'
  <2>1. ASSUME NEW i \in DOMAIN req.net
        PROVE  Walkable(req.net[i].legs) /\ LegsRead(ToSet(req.net[i].legs))'
    <3>1. PICK ls : ls = ToSet(req.net[i].legs)
      OBVIOUS
    <3>2. Walkable(req.net[i].legs) /\ LegsRead(ls)
      BY <3>1 DEF RequestInv, NetFits
    <3> QED
      BY <3>1, <3>2, ReadStays DEF LegsRead, Known
  <2> QED
    BY <2>1 DEF RequestInv, NetFits
<1>3. AnswerFits'
  <2>1. ASSUME req.pc = "name"
        PROVE  LegsRead(Shown(req.path))'
    <3>1. PICK ls : ls = Shown(req.path)
      OBVIOUS
    <3>2. LegsRead(ls)
      BY <2>1, <3>1 DEF RequestInv, AnswerFits
    <3>3. Shown(req.path)' = ls
      BY <3>1 DEF Shown
    <3> QED
      BY <3>2, <3>3, ReadStays DEF LegsRead, Known
  <2>2. \A r \in req.blank : Known(r)' /\ r \notin routes'
    BY GoneForGood DEF RequestInv, AnswerFits, Known
  <2> QED
    BY <2>1, <2>2 DEF RequestInv, AnswerFits
<1>4. OwedFits'
  <2>1. ASSUME RideAhead PROVE RideAhead'
    <3>1. PICK r \in routes, o \in stops, d \in stops :
              /\ RideThere(r, o, d)
              /\ req.pc = "resolve" => req.ends \in {<<>>, <<o>>}
              /\ req.pc \in {"list", "load"} => req.ends = <<o, d>>
              /\ req.pc = "load" => Loads(r, o, d)
      BY <2>1 DEF RideAhead
    <3>2. RideThere(r, o, d)' /\ r \in routes' /\ o \in stops' /\ d \in stops'
      BY <3>1, RideStays
    <3>3. Loads(r, o, d) => Loads(r, o, d)'
      BY DEF Loads, Offers
    <3> QED
      BY <3>1, <3>2, <3>3 DEF RideAhead
  <2> QED
    BY <2>1 DEF RequestInv, OwedFits
<1> QED
  BY <1>1, <1>2, <1>3, <1>4 DEF RequestInv

-----------------------------------------------------------------------------
(* The fields of a request.                                                   *)
LEMMA RequestFields ==
    ASSUME NEW pc, NEW route, NEW ask, NEW ends, NEW todo, NEW net, NEW owed, NEW path, NEW blank,
           NEW u, u = Request(pc, route, ask, ends, todo, net, owed, path, blank)
    PROVE  /\ u.pc = pc /\ u.route = route /\ u.ask = ask /\ u.ends = ends /\ u.todo = todo
           /\ u.net = net /\ u.owed = owed /\ u.path = path /\ u.blank = blank
           /\ u = Request(u.pc, u.route, u.ask, u.ends, u.todo, u.net, u.owed, u.path, u.blank)
  BY DEF Request

(* Answer changes seven of them ...                                           *)
LEMMA AnswerFields ==
    ASSUME ReqRecord, NEW path, NEW blank, Answer(path, blank)
    PROVE  /\ req'.pc = "answered" /\ req'.net = <<>> /\ req'.path = path /\ req'.blank = blank
           /\ req'.owed = req.owed /\ req'.route = req.route /\ ReqRecord'
<1>1. PICK pc, net : pc = "answered" /\ net = <<>>
  OBVIOUS
<1>2. req' = Request(pc, req.route, req.ask, net, net, net, req.owed, path, blank)
  BY <1>1 DEF ReqRecord, Request, Answer
<1>3. req' = Request(req'.pc, req'.route, req'.ask, req'.ends, req'.todo, req'.net, req'.owed,
                     req'.path, req'.blank)
  BY <1>2, RequestFields
<1> QED
  BY <1>1, <1>2, <1>3, RequestFields DEF ReqRecord

(* ... and ends the request.                                                  *)
LEMMA Answered ==
    ASSUME ReqRecord, NEW path, NEW blank, Answer(path, blank), UNCHANGED <<tables, made>>,
           \A r \in blank : Known(r) /\ r \notin routes,
           req.owed # NULL =>
               req.route = NULL /\ Len(path.segments) = 1 /\ path.fare <= req.owed
    PROVE  RequestInv'
<1>1. /\ req'.pc = "answered" /\ req'.net = <<>> /\ req'.path = path /\ req'.blank = blank
      /\ req'.owed = req.owed /\ req'.route = req.route /\ ReqRecord'
  BY AnswerFields
<1>2. NetFits'
  BY <1>1 DEF NetFits, ToSet
<1>3. AnswerFits'
  BY <1>1 DEF AnswerFits, Known, tables
<1>4. TodoFits' /\ OwedFits'
  BY <1>1 DEF TodoFits, OwedFits
<1> QED
  BY <1>1, <1>2, <1>3, <1>4 DEF RequestInv

-----------------------------------------------------------------------------
(* A search is owed a direct ride on a corridor, if there is one.             *)
LEMMA OwedRide ==
    ASSUME CatalogueInv, LegsFit, NEW q, NEW fare \in SeededFares(q)
    PROVE  \E r \in routes, o \in Named(stops, q[1]), d \in Named(stops, q[2]) :
               /\ r.name \in SeedRouteNames /\ o # d
               /\ fare \in RideFares([legs |-> ListLegsForRoute(r)], o, d)
<1> DEFINE fares(r, o, d) == RideFares([legs |-> ListLegsForRoute(r)], o, d)
<1>1. PICK r \in {x \in routes : x.name \in SeedRouteNames},
           o \in Named(stops, q[1]), d \in Named(stops, q[2]) : fare \in fares(r, o, d)
  <2>1. SeededFares(q) = UNION {fares(r, o, d) : r \in {x \in routes : x.name \in SeedRouteNames},
                                               o \in Named(stops, q[1]), d \in Named(stops, q[2])}
    BY DEF SeededFares
  <2> HIDE DEF fares
  <2> QED
    BY <2>1
<1>2. PICK a, p : a = [legs |-> p] /\ p = ListLegsForRoute(r)
  OBVIOUS
<1>3. a.legs = p /\ p \in Seq(ToSet(p)) /\ fare \in RideFares(a, o, d)
  BY <1>1, <1>2, ListFits DEF Walkable
<1>4. Simple(p)
  <2>1. PICK c \in Corridors : c.name = r.name
    BY <1>1 DEF SeedRouteNames, Corridors
  <2>2. Simple(c.legs)
    BY RoutesAssumption DEF Corridors
  <2> QED
    BY <1>2, <2>1, <2>2, CorridorSimple DEF CatalogueInv
<1>5. o # d
  BY <1>3, <1>4, NoRoundTrip
<1> QED
  BY <1>1, <1>5

(* The search comes in.                                                       *)
LEMMA AskSearchKeeps ==
    ASSUME CatalogueInv, LegsFit, NEW q \in Questions, AskSearch(q)
    PROVE  RequestInv'
<1>1. PICK fare \in IF SeededFares(q) = {} THEN {NULL} ELSE SeededFares(q) :
          req' = [NoRequest EXCEPT !.pc = "resolve", !.ask = q, !.owed = fare]
  BY DEF AskSearch
<1>2. UNCHANGED <<stops, routes, legs, made>>
  BY DEF AskSearch, tables
<1>3. PICK pc, none, void : pc = "resolve" /\ none = <<>> /\ void = {}
  OBVIOUS
<1>4. req' = Request(pc, NULL, q, none, none, none, fare, NoPath, void)
  BY <1>1, <1>3 DEF Request, NoRequest
<1>5. /\ req'.pc = "resolve" /\ req'.route = NULL /\ req'.ask = q /\ req'.ends = <<>>
      /\ req'.net = <<>> /\ req'.owed = fare /\ req'.blank = {}
  BY <1>3, <1>4, RequestFields
<1>6. ReqRecord'
  BY <1>4, RequestFields DEF ReqRecord
<1>7. NetFits' /\ TodoFits' /\ AnswerFits'
  BY <1>5 DEF NetFits, TodoFits, AnswerFits, ToSet
<1>8. ASSUME fare # NULL PROVE RideAhead'
  <2>1. PICK r \in routes, o \in Named(stops, q[1]), d \in Named(stops, q[2]) :
            /\ r.name \in SeedRouteNames /\ o # d
            /\ fare \in RideFares([legs |-> ListLegsForRoute(r)], o, d)
    BY <1>1, <1>8, OwedRide
  <2>2. ListLegsForRoute(r)' = ListLegsForRoute(r)
    BY <1>2 DEF ListLegsForRoute
  <2>3. RideThere(r, o, d)'
    BY <1>2, <1>5, <2>1, <2>2 DEF RideThere, Offers, Named
  <2>4. r \in routes' /\ o \in stops' /\ d \in stops'
    BY <1>2, <2>1 DEF Named
  <2> QED
    BY <1>5, <2>3, <2>4 DEF RideAhead
<1>9. OwedFits'
  BY <1>5, <1>8 DEF OwedFits
<1> QED
  BY <1>6, <1>7, <1>9 DEF RequestInv

(* GET of one route comes in.                                                 *)
LEMMA AskRouteKeeps ==
    ASSUME NEW r, AskRoute(r)
    PROVE  RequestInv'
<1>1. req' = [NoRequest EXCEPT !.pc = "route", !.route = r]
  BY DEF AskRoute
<1>2. PICK pc, none, void : pc = "route" /\ none = <<>> /\ void = {}
  OBVIOUS
<1>3. req' = Request(pc, r, NULL, none, none, none, NULL, NoPath, void)
  BY <1>1, <1>2 DEF Request, NoRequest
<1>4. req'.pc = "route" /\ req'.net = <<>> /\ req'.owed = NULL /\ req'.blank = {}
  BY <1>2, <1>3, RequestFields
<1>5. ReqRecord'
  BY <1>3, RequestFields DEF ReqRecord
<1>6. NetFits' /\ TodoFits' /\ AnswerFits' /\ OwedFits'
  BY <1>4 DEF NetFits, TodoFits, AnswerFits, OwedFits, ToSet
<1> QED
  BY <1>5, <1>6 DEF RequestInv

(* What was loaded stays fit as long as nothing is added.                     *)
LEMMA SameNet ==
    ASSUME NetFits, UNCHANGED <<tables, made>>, req'.net = req.net
    PROVE  NetFits'
  BY DEF NetFits, LegsRead, Known, tables

(* No route gets a blank name before the answer.                              *)
LEMMA SameBlank ==
    ASSUME AnswerFits, UNCHANGED <<tables, made>>, req'.blank = req.blank, req'.pc # "name"
    PROVE  AnswerFits'
  BY DEF AnswerFits, Known, tables

(* Two stops, one after the other.                                            *)
LEMMA TwoEnds ==
    ASSUME NEW o, NEW d
    PROVE  Append(<<o>>, d) = <<o, d>>
<1>1. PICK S : S = {o, d}
  OBVIOUS
<1>2. PICK q, t : q = <<o>> /\ t = Append(q, d)
  OBVIOUS
<1>3. q \in Seq(S) /\ d \in S /\ Len(q) = 1 /\ q[1] = o
  BY <1>1, <1>2
<1>4. t \in Seq(S) /\ Len(t) = 2 /\ t[1] = o /\ t[2] = d
  BY <1>2, <1>3
<1>5. t = <<t[1], t[2]>>
  BY <1>4
<1> QED
  BY <1>2, <1>4, <1>5

-----------------------------------------------------------------------------
(* resolveStop finds the end of the ride that the search is owed.             *)
LEMMA ResolveStopKeeps ==
    ASSUME CatalogueInv, RequestInv, ResolveStop
    PROVE  RequestInv'
<1>1. /\ req.pc = "resolve" /\ UNCHANGED <<tables, made>>
      /\ ReqRecord /\ NetFits /\ TodoFits /\ AnswerFits /\ OwedFits
  BY DEF ResolveStop, RequestInv
<1>2. PICK found : found = Named(stops, req.ask[Len(req.ends) + 1])
  OBVIOUS
<1>3. ASSUME req.owed # NULL
      PROVE  \E r \in routes, o \in stops, d \in stops :
                 /\ RideThere(r, o, d)
                 /\ \/ req.ends = <<>> /\ found = Named(stops, req.ask[1]) /\ o \in found
                    \/ req.ends = <<o>> /\ found = Named(stops, req.ask[2]) /\ d \in found
  <2>1. PICK r \in routes, o \in stops, d \in stops :
            RideThere(r, o, d) /\ req.ends \in {<<>>, <<o>>}
    BY <1>1, <1>3 DEF OwedFits, RideAhead
  <2>2. o \in Named(stops, req.ask[1]) /\ d \in Named(stops, req.ask[2])
    BY <2>1 DEF RideThere
  <2>3. CASE req.ends = <<>>
    <3>1. Len(req.ends) + 1 = 1
      BY <2>3
    <3> QED
      BY <1>2, <2>1, <2>2, <2>3, <3>1
  <2>4. CASE req.ends = <<o>>
    <3>1. Len(req.ends) + 1 = 2
      BY <2>4
    <3> QED
      BY <1>2, <2>1, <2>2, <2>4, <3>1
  <2> QED
    BY <2>1, <2>3, <2>4
<1>4. CASE found = {}
  <2>1. Answer(NoPath, {})
    BY <1>2, <1>4 DEF ResolveStop
  <2>2. req.owed = NULL
    BY <1>3, <1>4
  <2> QED
    BY <1>1, <2>1, <2>2, Answered
<1>5. CASE found # {}
  <2>1. PICK s \in found :
            req' = [req EXCEPT !.ends = Append(@, s),
                               !.pc = IF req.ends = <<>> THEN "resolve" ELSE "list"]
    BY <1>2, <1>5 DEF ResolveStop
  <2>2. PICK pc, ends : pc = (IF req.ends = <<>> THEN "resolve" ELSE "list")
                        /\ ends = Append(req.ends, s)
    OBVIOUS
  <2>3. req' = Request(pc, req.route, req.ask, ends, req.todo, req.net, req.owed, req.path, req.blank)
    BY <1>1, <2>1, <2>2 DEF Request, ReqRecord
  <2>4. /\ req'.pc = pc /\ req'.route = req.route /\ req'.ask = req.ask /\ req'.ends = ends
        /\ req'.net = req.net /\ req'.owed = req.owed /\ req'.blank = req.blank
    BY <2>3, RequestFields
  <2>5. ReqRecord'
    BY <2>3, RequestFields DEF ReqRecord
  <2>6. NetFits' /\ AnswerFits' /\ TodoFits'
    BY <1>1, <2>2, <2>4, SameNet, SameBlank DEF TodoFits
  <2>7. ASSUME req.owed # NULL PROVE RideAhead'
    <3>1. PICK r \in routes, o \in stops, d \in stops :
              /\ RideThere(r, o, d)
              /\ \/ req.ends = <<>> /\ found = Named(stops, req.ask[1]) /\ o \in found
                 \/ req.ends = <<o>> /\ found = Named(stops, req.ask[2]) /\ d \in found
      BY <1>3, <2>7
    <3>2. \A a, b \in stops : a.name = b.name => a = b
      BY DEF CatalogueInv, TablesFit, NamesUnique
    <3>3. r \in routes' /\ o \in stops' /\ d \in stops'
      BY <1>1, <3>1 DEF tables
    <3>4. RideThere(r, o, d)'
      <4>1. ListLegsForRoute(r)' = ListLegsForRoute(r)
        BY <1>1 DEF ListLegsForRoute, tables
      <4> QED
        BY <1>1, <2>4, <3>1, <4>1 DEF RideThere, Offers, Named, tables
    <3>5. CASE req.ends = <<>> /\ found = Named(stops, req.ask[1]) /\ o \in found
      <4>1. s = o
        BY <3>2, <3>5 DEF Named
      <4>2. req'.pc = "resolve" /\ req'.ends = <<o>>
        BY <2>2, <2>4, <3>5, <4>1
      <4> QED
        BY <3>3, <3>4, <4>2 DEF RideAhead
    <3>6. CASE req.ends = <<o>> /\ found = Named(stops, req.ask[2]) /\ d \in found
      <4>1. s = d
        BY <3>2, <3>6 DEF Named
      <4>2. req'.pc = "list" /\ req'.ends = <<o, d>>
        <5>1. ends = <<o, d>>
          <6>1. ends = Append(<<o>>, d)
            BY <2>2, <3>6, <4>1
          <6>2. Append(<<o>>, d) = <<o, d>>
            BY TwoEnds
          <6> QED
            BY <6>1, <6>2
        <5>2. pc = "list"
          <6>1. <<o>> # <<>>
            OBVIOUS
          <6> QED
            BY <2>2, <3>6, <6>1
        <5> QED
          BY <2>4, <5>1, <5>2
      <4> QED
        BY <3>3, <3>4, <4>2 DEF RideAhead
    <3> QED
      BY <3>1, <3>5, <3>6
  <2>8. OwedFits'
    BY <1>1, <2>2, <2>4, <2>7 DEF OwedFits
  <2> QED
    BY <2>5, <2>6, <2>8 DEF RequestInv
<1> QED
  BY <1>4, <1>5

(* GetRouteByID finds the route, or that it is gone.                          *)
LEMMA GetRouteKeeps ==
    ASSUME RequestInv, GetRouteByID
    PROVE  RequestInv'
<1>1. /\ req.pc = "route" /\ UNCHANGED <<tables, made>>
      /\ ReqRecord /\ NetFits /\ TodoFits /\ AnswerFits /\ OwedFits
  BY DEF GetRouteByID, RequestInv
<1>2. req.owed = NULL /\ req.net = <<>>
  BY <1>1 DEF OwedFits, TodoFits
<1>3. CASE req.route \notin routes
  <2>1. Answer(NoPath, {})
    BY <1>3 DEF GetRouteByID
  <2> QED
    BY <1>1, <1>2, <2>1, Answered
<1>4. CASE req.route \in routes
  <2>1. PICK pc, todo : pc = "load" /\ todo = <<req.route>>
    OBVIOUS
  <2>2. req' = Request(pc, req.route, req.ask, req.ends, todo, req.net, req.owed, req.path, req.blank)
    BY <1>1, <1>4, <2>1 DEF GetRouteByID, Request, ReqRecord
  <2>3. /\ req'.pc = pc /\ req'.route = req.route /\ req'.todo = todo
        /\ req'.net = req.net /\ req'.owed = req.owed /\ req'.blank = req.blank
    BY <2>2, RequestFields
  <2>4. ReqRecord'
    BY <2>2, RequestFields DEF ReqRecord
  <2>5. NetFits' /\ AnswerFits' /\ OwedFits'
    BY <1>1, <1>2, <2>1, <2>3, SameNet, SameBlank DEF OwedFits
  <2>6. todo \in Seq(ToSet(todo)) /\ Len(req.net) + Len(todo) = 1
    BY <1>2, <2>1 DEF ToSet
  <2>7. TodoFits'
    BY <2>1, <2>3, <2>6 DEF TodoFits
  <2> QED
    BY <2>4, <2>5, <2>7 DEF RequestInv
<1> QED
  BY <1>3, <1>4

(* ListRoutes returns every route.                                            *)
LEMMA AllRoutesListed ==
    ASSUME TablesFit, LegsFit
    PROVE  ListRoutes \in Seq(ToSet(ListRoutes)) /\ routes \subseteq ToSet(ListRoutes)
<1> DEFINE place(r) == CHOOSE i \in DOMAIN NameOrder : NameOrder[i] = r.name
<1>1. PICK key : key = [r \in routes |-> place(r)]
  OBVIOUS
<1>2. ASSUME NEW r \in routes
      PROVE  key[r] \in Int /\ NameOrder[key[r]] = r.name
  <2>1. r.name \in ToSet(NameOrder) /\ NameOrder \in Seq(RouteNames)
    BY CatalogueAssumption DEF TablesFit, TypeOK
  <2>2. \E i \in DOMAIN NameOrder : NameOrder[i] = r.name
    BY <2>1 DEF ToSet
  <2>3. place(r) \in DOMAIN NameOrder /\ NameOrder[place(r)] = r.name
    BY <2>2
  <2>4. DOMAIN NameOrder \subseteq Int
    BY <2>1
  <2> QED
    BY <1>1, <2>3, <2>4
<1>3. SortKeys(routes, key)
  BY <1>2 DEF SortKeys, TablesFit, NamesUnique
<1>4. PICK s : s = OrderBy(routes, key)
  OBVIOUS
<1>5. s \in Seq(routes) /\ \A r \in routes : \E i \in 1 .. Len(s) : s[i] = r
  BY <1>3, <1>4, OrderedRows DEF LegsFit
<1>6. s = ListRoutes
  BY <1>1, <1>4 DEF ListRoutes
<1>7. s \in Seq(ToSet(s))
  <2>1. s \in [1 .. Len(s) -> ToSet(s)] /\ Len(s) \in Nat
    BY <1>5 DEF ToSet
  <2> QED
    BY <2>1
<1>8. routes \subseteq ToSet(s)
  BY <1>5 DEF ToSet
<1> QED
  BY <1>6, <1>7, <1>8

(* So the owed ride's route is among those that are loaded.                   *)
LEMMA ListRoutesKeeps ==
    ASSUME CatalogueInv, LegsFit, RequestInv, ListAllRoutes
    PROVE  RequestInv'
<1>1. /\ req.pc = "list" /\ UNCHANGED <<tables, made>>
      /\ ReqRecord /\ NetFits /\ TodoFits /\ AnswerFits /\ OwedFits
  BY DEF ListAllRoutes, RequestInv
<1>2. PICK pc, todo : pc = "load" /\ todo = ListRoutes
  OBVIOUS
<1>3. todo \in Seq(ToSet(todo)) /\ routes \subseteq ToSet(todo)
  BY <1>2, AllRoutesListed DEF CatalogueInv
<1>4. req' = Request(pc, req.route, req.ask, req.ends, todo, req.net, req.owed, req.path, req.blank)
  BY <1>1, <1>2 DEF ListAllRoutes, Request, ReqRecord
<1>5. /\ req'.pc = pc /\ req'.route = req.route /\ req'.ask = req.ask /\ req'.ends = req.ends
      /\ req'.todo = todo /\ req'.net = req.net /\ req'.owed = req.owed /\ req'.blank = req.blank
  BY <1>4, RequestFields
<1>6. ReqRecord'
  BY <1>4, RequestFields DEF ReqRecord
<1>7. NetFits' /\ AnswerFits' /\ TodoFits'
  BY <1>1, <1>2, <1>3, <1>5, SameNet, SameBlank DEF TodoFits
<1>8. ASSUME req.owed # NULL PROVE RideAhead'
  <2>1. PICK r \in routes, o \in stops, d \in stops : RideThere(r, o, d) /\ req.ends = <<o, d>>
    BY <1>1, <1>8 DEF OwedFits, RideAhead
  <2>2. r \in routes' /\ o \in stops' /\ d \in stops'
    BY <1>1 DEF tables
  <2>3. RideThere(r, o, d)'
    <3>1. ListLegsForRoute(r)' = ListLegsForRoute(r)
      BY <1>1 DEF ListLegsForRoute, tables
    <3> QED
      BY <1>1, <1>5, <2>1, <3>1 DEF RideThere, Offers, Named, tables
  <2>4. Loads(r, o, d)'
    BY <1>3, <1>5 DEF Loads
  <2> QED
    BY <1>2, <1>5, <2>1, <2>2, <2>3, <2>4 DEF RideAhead
<1>9. OwedFits'
  BY <1>1, <1>2, <1>5, <1>8 DEF OwedFits
<1> QED
  BY <1>6, <1>7, <1>9 DEF RequestInv

(* A sequence is one of its own members.                                      *)
LEMMA OwnMembers ==
    ASSUME NEW S, NEW q \in Seq(S)
    PROVE  q \in Seq(ToSet(q))
<1>1. Len(q) \in Nat /\ DOMAIN q = 1 .. Len(q) /\ q = [i \in 1 .. Len(q) |-> q[i]]
  OBVIOUS
<1>2. \A i \in 1 .. Len(q) : q[i] \in ToSet(q)
  BY <1>1 DEF ToSet
<1>3. PICK M : M = ToSet(q)
  OBVIOUS
<1>4. q \in [1 .. Len(q) -> M]
  BY <1>1, <1>2, <1>3
<1> QED
  BY <1>1, <1>3, <1>4

(* A sequence with one element more.                                          *)
Longer(t, q, x) == t = Append(q, x)

(* It has the elements it had and the new one.                                *)
LEMMA Appended ==
    ASSUME NEW q, q \in Seq(ToSet(q)), NEW x, NEW t, Longer(t, q, x)
    PROVE  /\ t \in Seq(ToSet(t)) /\ Len(q) \in Nat /\ Len(t) = Len(q) + 1
           /\ DOMAIN q = 1 .. Len(q) /\ DOMAIN t = 1 .. Len(t)
           /\ t[Len(t)] = x /\ \A i \in DOMAIN q : t[i] = q[i]
<1>1. PICK S : S = ToSet(q) \cup {x}
  OBVIOUS
<1>2. q \in Seq(S) /\ x \in S
  BY <1>1
<1>3. t \in Seq(S) /\ Len(q) \in Nat /\ Len(t) = Len(q) + 1 /\ DOMAIN q = 1 .. Len(q)
      /\ DOMAIN t = 1 .. Len(t) /\ t[Len(q) + 1] = x /\ \A i \in DOMAIN q : t[i] = q[i]
  BY <1>2 DEF Longer
<1>4. t \in Seq(ToSet(t))
  BY <1>3, OwnMembers
<1> QED
  BY <1>3, <1>4

(* A sequence without its first element.                                      *)
LEMMA Rest ==
    ASSUME NEW q, q \in Seq(ToSet(q)), q # <<>>, NEW t, t = Tail(q)
    PROVE  /\ t \in Seq(ToSet(t)) /\ Len(t) + 1 = Len(q) /\ Len(t) \in Nat
           /\ \A x \in ToSet(q) : x = Head(q) \/ x \in ToSet(t)
<1>1. PICK S : S = ToSet(q)
  OBVIOUS
<1>2. /\ t \in Seq(S) /\ Len(t) + 1 = Len(q) /\ Len(t) \in Nat /\ DOMAIN t = 1 .. Len(t)
      /\ \A i \in 1 .. Len(t) : t[i] = q[i + 1]
  BY <1>1
<1>3. ASSUME NEW x \in ToSet(q)
      PROVE  x = Head(q) \/ x \in ToSet(t)
  <2>1. PICK k \in 1 .. Len(q) : x = q[k]
    BY MemberOf
  <2>2. CASE k = 1
    BY <2>1, <2>2
  <2>3. CASE k # 1
    <3>1. PICK i : i = k - 1
      OBVIOUS
    <3>2. i \in 1 .. Len(t) /\ k = i + 1
      BY <1>2, <2>3, <3>1
    <3>3. t[i] = x /\ i \in DOMAIN t
      BY <1>2, <2>1, <3>2
    <3> QED
      BY <3>3 DEF ToSet
  <2> QED
    BY <2>2, <2>3
<1>4. t \in Seq(ToSet(t))
  BY <1>2, OwnMembers
<1> QED
  BY <1>2, <1>3, <1>4

(* The legs of one more route are loaded.                                     *)
LEMMA LoadLegsKeeps ==
    ASSUME CatalogueInv, LegsFit, RequestInv, LoadLegs
    PROVE  RequestInv'
<1>1. /\ req.pc = "load" /\ req.todo # <<>> /\ UNCHANGED <<tables, made>>
      /\ ReqRecord /\ NetFits /\ TodoFits /\ AnswerFits /\ OwedFits
  BY DEF LoadLegs, RequestInv
<1>2. PICK x, r : r = Head(req.todo) /\ x = [route |-> r, legs |-> ListLegsForRoute(r)]
  OBVIOUS
<1>3. PICK todo, net : todo = Tail(req.todo) /\ net = Append(req.net, x)
  OBVIOUS
<1>4. req' = Request(req.pc, req.route, req.ask, req.ends, todo, net, req.owed, req.path, req.blank)
  BY <1>1, <1>2, <1>3 DEF LoadLegs, Request, ReqRecord
<1>5. /\ req'.pc = req.pc /\ req'.route = req.route /\ req'.ask = req.ask /\ req'.ends = req.ends
      /\ req'.todo = todo /\ req'.net = net /\ req'.owed = req.owed /\ req'.blank = req.blank
  BY <1>4, RequestFields
<1>6. ReqRecord'
  BY <1>4, RequestFields DEF ReqRecord
<1>7. /\ net \in Seq(ToSet(net)) /\ Len(net) = Len(req.net) + 1 /\ Len(req.net) \in Nat
      /\ DOMAIN net = 1 .. Len(net) /\ DOMAIN req.net = 1 .. Len(req.net)
      /\ net[Len(net)] = x /\ \A i \in DOMAIN req.net : net[i] = req.net[i]
  <2>1. PICK q : q = req.net
    OBVIOUS
  <2>2. q \in Seq(ToSet(q)) /\ Longer(net, q, x)
    BY <1>1, <1>3, <2>1 DEF NetFits, Longer
  <2>3. /\ net \in Seq(ToSet(net)) /\ Len(q) \in Nat /\ Len(net) = Len(q) + 1
        /\ DOMAIN q = 1 .. Len(q) /\ DOMAIN net = 1 .. Len(net)
        /\ net[Len(net)] = x /\ \A i \in DOMAIN q : net[i] = q[i]
    BY <2>2, Appended
  <2> QED
    BY <2>1, <2>3
<1>8. /\ todo \in Seq(ToSet(todo)) /\ Len(todo) + 1 = Len(req.todo) /\ Len(todo) \in Nat
      /\ \A s \in ToSet(req.todo) : s = r \/ s \in ToSet(todo)
  BY <1>1, <1>2, <1>3, Rest DEF TodoFits
<1>9. NetFits'
  <2>1. ASSUME NEW i \in DOMAIN net
        PROVE  Walkable(net[i].legs) /\ LegsRead(ToSet(net[i].legs))
    <3>1. CASE i \in DOMAIN req.net
      BY <1>1, <1>7, <3>1 DEF NetFits
    <3>2. CASE i \notin DOMAIN req.net
      <4>1. net[i] = x
        BY <1>7, <3>2
      <4>2. x.legs = ListLegsForRoute(r)
        BY <1>2
      <4> QED
        BY <4>1, <4>2, ListFits
    <3> QED
      BY <3>1, <3>2
  <2> QED
    BY <1>1, <1>5, <1>7, <2>1 DEF NetFits, LegsRead, Known, tables
<1>10. TodoFits' /\ AnswerFits'
  <2>1. AnswerFits'
    BY <1>1, <1>5, SameBlank
  <2>2. req.route # NULL => Len(net) + Len(todo) = 1
    <3>1. req.route # NULL => Len(req.net) + Len(req.todo) = 1
      BY <1>1 DEF TodoFits
    <3>2. PICK a, b : a = Len(req.net) /\ b = Len(todo)
      OBVIOUS
    <3>3. a \in Nat /\ b \in Nat /\ Len(net) = a + 1 /\ Len(req.todo) = b + 1
      BY <1>7, <1>8, <3>2
    <3>4. ASSUME a + (b + 1) = 1 PROVE (a + 1) + b = 1
      BY <3>3, <3>4
    <3> QED
      BY <3>1, <3>2, <3>3, <3>4
  <2> QED
    BY <1>1, <1>5, <1>8, <2>1, <2>2 DEF TodoFits
<1>11. ASSUME req.owed # NULL PROVE RideAhead'
  <2>1. PICK c \in routes, o \in stops, d \in stops :
            RideThere(c, o, d) /\ req.ends = <<o, d>> /\ Loads(c, o, d)
    BY <1>1, <1>11 DEF OwedFits, RideAhead
  <2>2. c \in routes' /\ o \in stops' /\ d \in stops'
    BY <1>1 DEF tables
  <2>3. RideThere(c, o, d)'
    <3>1. ListLegsForRoute(c)' = ListLegsForRoute(c)
      BY <1>1 DEF ListLegsForRoute, tables
    <3> QED
      BY <1>1, <1>5, <2>1, <3>1 DEF RideThere, Offers, Named, tables
  <2>4. Loads(c, o, d)'
    <3>1. CASE c \in ToSet(todo)
      BY <1>5, <3>1 DEF Loads
    <3>2. CASE \E i \in DOMAIN req.net : Offers(req.net[i], o, d)
      <4>1. PICK i \in DOMAIN req.net : req.owed \in RideFares(req.net[i], o, d)
        BY <3>2 DEF Offers
      <4>2. i \in DOMAIN net /\ net[i] = req.net[i]
        BY <1>7
      <4> QED
        BY <1>5, <4>1, <4>2 DEF Loads, Offers
    <3>3. CASE c = r
      <4>1. PICK p, a : p = ListLegsForRoute(c) /\ a = [legs |-> p]
        OBVIOUS
      <4>2. x.legs = p /\ a.legs = p
        BY <1>2, <3>3, <4>1
      <4>3. RideFares(x, o, d) = RideFares(a, o, d)
        BY <4>2 DEF RideFares, Stretches
      <4>4. req.owed \in RideFares(net[Len(net)], o, d) /\ Len(net) \in DOMAIN net
        BY <1>7, <2>1, <4>1, <4>3 DEF RideThere, Offers
      <4> QED
        BY <1>5, <4>4 DEF Loads, Offers
    <3> QED
      BY <1>8, <2>1, <3>1, <3>2, <3>3 DEF Loads
  <2> QED
    BY <1>1, <1>5, <2>1, <2>2, <2>3, <2>4 DEF RideAhead
<1>12. OwedFits'
  BY <1>1, <1>5, <1>11 DEF OwedFits
<1> QED
  BY <1>6, <1>9, <1>10, <1>12 DEF RequestInv

(* What is loaded is a network that Search is right about.                    *)
LEMMA NetSearched ==
    ASSUME NetFits
    PROVE  Searched(req.net)
  BY DEF NetFits, Searched

(* Search, or GetRoute, shows legs that were loaded.                          *)
LEMMA FindPathKeeps ==
    ASSUME RequestInv, FindPath
    PROVE  RequestInv'
<1>1. /\ req.pc = "load" /\ req.todo = <<>> /\ UNCHANGED <<tables, made>>
      /\ ReqRecord /\ NetFits /\ TodoFits /\ AnswerFits /\ OwedFits
  BY DEF FindPath, RequestInv
<1> DEFINE shown(x) == Path(<<[route |-> x.route, legs |-> x.legs, fare |-> SumFares(x.legs)]>>)
<1>2. PICK pc, path : /\ pc = "name"
                      /\ path = IF req.route # NULL THEN shown(req.net[1])
                                ELSE Search(req.net, req.ends[1], req.ends[2])
  OBVIOUS
<1>3. req' = Request(pc, req.route, req.ask, req.ends, req.todo, req.net, req.owed, path, req.blank)
  <2>1. req' = [req EXCEPT !.pc = pc, !.path = path]
    BY <1>2 DEF FindPath
  <2> QED
    BY <1>1, <2>1 DEF Request, ReqRecord
<1>4. /\ req'.pc = pc /\ req'.route = req.route /\ req'.ends = req.ends /\ req'.path = path
      /\ req'.net = req.net /\ req'.owed = req.owed /\ req'.blank = req.blank
  BY <1>3, RequestFields
<1>5. ReqRecord'
  BY <1>3, RequestFields DEF ReqRecord
<1>6. NetFits' /\ TodoFits'
  BY <1>1, <1>2, <1>4, SameNet DEF TodoFits
<1>7. ASSUME NEW s \in ToSet(path.segments)
      PROVE  \E i \in DOMAIN req.net : ToSet(s.legs) \subseteq ToSet(req.net[i].legs)
  <2>1. CASE req.route # NULL
    <3>1. PICK x, a : x = req.net[1]
                      /\ a = [route |-> x.route, legs |-> x.legs, fare |-> SumFares(x.legs)]
      OBVIOUS
    <3>2. path.segments = <<a>>
      BY <1>2, <2>1, <3>1 DEF Path
    <3>3. s = a
      BY <3>2 DEF ToSet
    <3>4. 1 \in DOMAIN req.net
      <4>1. Len(req.net) + Len(req.todo) = 1
        BY <1>1, <2>1 DEF TodoFits
      <4>2. Len(req.net) = 1 /\ DOMAIN req.net = 1 .. Len(req.net)
        BY <1>1, <4>1 DEF NetFits
      <4> QED
        BY <4>2
    <3> QED
      BY <3>1, <3>3, <3>4
  <2>2. CASE req.route = NULL
    BY <1>1, <1>2, <2>2, NetSearched, SearchLegs
  <2> QED
    BY <2>1, <2>2
<1>8. LegsRead(Shown(path))
  <2>1. ASSUME NEW l \in Shown(path)
        PROVE  Known(l.route) /\ (l.route \in routes => l \in legs)
    <3>1. PICK s \in ToSet(path.segments) : l \in ToSet(s.legs)
      BY DEF Shown
    <3>2. PICK i \in DOMAIN req.net : ToSet(s.legs) \subseteq ToSet(req.net[i].legs)
      BY <1>7
    <3> QED
      BY <1>1, <3>1, <3>2 DEF NetFits, LegsRead
  <2> QED
    BY <2>1 DEF LegsRead
<1>9. AnswerFits'
  <2>1. LegsRead(Shown(req.path))'
    BY <1>1, <1>4, <1>8 DEF LegsRead, Known, Shown, tables
  <2>2. req'.route = NULL => req'.path = Search(req'.net, req'.ends[1], req'.ends[2])
    BY <1>2, <1>4
  <2>3. \A r \in req'.blank : Known(r)' /\ r \notin routes'
    BY <1>1, <1>4 DEF AnswerFits, Known, tables
  <2> QED
    BY <2>1, <2>2, <2>3 DEF AnswerFits
<1>10. ASSUME req.owed # NULL
       PROVE  Len(path.segments) = 1 /\ path.fare <= req.owed
  <2>1. PICK r \in routes, o \in stops, d \in stops :
            RideThere(r, o, d) /\ req.ends = <<o, d>> /\ Loads(r, o, d)
    BY <1>1, <1>10 DEF OwedFits, RideAhead
  <2>2. PICK i \in DOMAIN req.net : req.owed \in RideFares(req.net[i], o, d)
    BY <1>1, <2>1 DEF Loads, Offers, ToSet
  <2>3. path = Search(req.net, o, d) /\ o # d
    BY <1>1, <1>2, <1>10, <2>1 DEF OwedFits, RideThere
  <2> QED
    BY <1>1, <2>2, <2>3, NetSearched, DirectBest
<1>11. OwedFits'
  BY <1>1, <1>2, <1>4, <1>10 DEF OwedFits
<1> QED
  BY <1>5, <1>6, <1>9, <1>11 DEF RequestInv

(* A name is blank only on a route that is gone.                              *)
LEMMA NameStopsKeeps ==
    ASSUME CatalogueInv, RequestInv, NameStops
    PROVE  RequestInv'
<1>1. /\ req.pc = "name" /\ UNCHANGED <<tables, made>> /\ ReqRecord /\ AnswerFits /\ OwedFits
  BY DEF NameStops, RequestInv
<1>2. PICK blank : blank = {l.route : l \in {m \in Shown(req.path) : ~({m.from, m.to} \subseteq stops)}}
  OBVIOUS
<1>3. Answer(req.path, blank)
  BY <1>2 DEF NameStops, Shown
<1>4. ASSUME NEW r \in blank
      PROVE  Known(r) /\ r \notin routes
  <2>1. PICK l \in Shown(req.path) : r = l.route /\ ~({l.from, l.to} \subseteq stops)
    BY <1>2
  <2>2. Known(l.route) /\ (l.route \in routes => l \in legs)
    BY <1>1 DEF AnswerFits, LegsRead
  <2>3. l \in legs => {l.from, l.to} \subseteq stops
    BY DEF CatalogueInv, TablesFit, TypeOK
  <2> QED
    BY <2>1, <2>2, <2>3
<1>5. req.owed # NULL =>
          req.route = NULL /\ Len(req.path.segments) = 1 /\ req.path.fare <= req.owed
  BY <1>1 DEF OwedFits
<1> QED
  BY <1>1, <1>3, <1>4, <1>5, Answered

-----------------------------------------------------------------------------
(* Only a request's own steps change it.                                      *)
LEMMA OthersDoNotAsk ==
    ASSUME CatalogueInv, [Next]_vars
    PROVE  Asking \/ UNCHANGED req
<1>1. CASE UNCHANGED vars
  BY <1>1 DEF vars
<1>2. CASE Importing
  BY <1>2 DEF Importing, StartImport, LookUpRoute, GetOrCreateStop, CreateCatalogueRoute,
              CreateCatalogueRouteLeg, CreateRouteGeometry, InterruptImport
<1>3. CASE Seeding
  BY <1>3 DEF Seeding, StartSeed, SeedStop, SeedRoute, SeedLeg, InterruptSeed
<1>4. CASE Clearing
  BY <1>4 DEF Clearing, CountRoutes, CountStops, DeleteGeometries, DeleteCatalogueLegs,
              DeleteCatalogueRoutes, DeleteCatalogueStops, DeleteRoutes, DeleteStops
<1>5. CASE Cleaning
  BY <1>5 DEF Cleaning, SweepCodes, MatchJunk, DeleteCodes, DeleteJunkLegs, DeleteJunkRoutes,
              DeleteJunkStops, DeleteRoutes, DeleteStops
<1>6. CASE Serving
  BY <1>6 DEF Serving, IssueCode
<1>7. CASE \E p \in Tools : Commit(p) \/ InterruptTx(p)
  BY <1>7 DEF Commit, InterruptTx
<1> QED
  BY <1>1, <1>2, <1>3, <1>4, <1>5, <1>6, <1>7, Steps

(* Every step keeps what a request relies on.                                 *)
LEMMA RequestNext ==
    ASSUME CatalogueInv, CatalogueInv', WholeInv, WholeInv', RequestInv, [Next]_vars
    PROVE  RequestInv'
<1>1. LegsFit /\ LegsFit' /\ Moves
  BY EveryMove DEF WholeInv
<1>2. CASE UNCHANGED req
  BY <1>1, <1>2, RequestAside
<1>3. CASE Asking
  BY <1>1, <1>3, AskSearchKeeps, AskRouteKeeps, ResolveStopKeeps, GetRouteKeeps, ListRoutesKeeps,
     LoadLegsKeeps, FindPathKeeps, NameStopsKeeps DEF Asking
<1> QED
  BY <1>2, <1>3, OthersDoNotAsk

(* At first there is no request.                                              *)
LEMMA RequestInit == Init => RequestInv
<1> SUFFICES ASSUME Init PROVE RequestInv
  OBVIOUS
<1>1. PICK pc, none, void : pc = "idle" /\ none = <<>> /\ void = {}
  OBVIOUS
<1>2. req = Request(pc, NULL, NULL, none, none, none, NULL, NoPath, void)
  BY <1>1 DEF Init, Request, NoRequest
<1>3. req.pc = "idle" /\ req.net = <<>> /\ req.owed = NULL /\ req.blank = {}
  BY <1>1, <1>2, RequestFields
<1>4. ReqRecord
  BY <1>2, RequestFields DEF ReqRecord
<1>5. NetFits /\ TodoFits /\ AnswerFits /\ OwedFits
  BY <1>3 DEF NetFits, TodoFits, AnswerFits, OwedFits, ToSet
<1> QED
  BY <1>4, <1>5 DEF RequestInv

(* The request's invariant holds in every state of every behaviour.           *)
LEMMA RequestSafe == Spec => []RequestInv
<1>1. CatalogueInv /\ CatalogueInv' /\ WholeInv /\ WholeInv' /\ RequestInv /\ [Next]_vars => RequestInv'
  BY RequestNext
<1> QED
  BY <1>1, CatalogueSafe, WholeSafe, RequestInit, PTL DEF Spec

(* Search finds the best journey in whatever was loaded: half imported        *)
(* routes, truncated corridors and routes deleted before their legs were read *)
(* included.                                                                  *)
THEOREM SearchedBest == Spec => []SearchIsBest
<1>1. RequestInv => SearchIsBest
  <2> SUFFICES ASSUME RequestInv, req.pc = "name", req.route = NULL
               PROVE  BestJourney(req.net, req.ends[1], req.ends[2], req.path)
    BY DEF SearchIsBest
  <2>1. req.path = Search(req.net, req.ends[1], req.ends[2]) /\ Searched(req.net)
    BY NetSearched DEF RequestInv, AnswerFits
  <2> QED
    BY <2>1, SearchFindsBest
<1> QED
  BY <1>1, RequestSafe, PTL

(* A direct ride on a corridor that existed when the request came in is in    *)
(* the answer, or a cheaper one is, whatever the tools insert and delete      *)
(* between the queries of the request.                                        *)
THEOREM OwedIsFound == Spec => []SeededRideIsFound
<1>1. RequestInv => SeededRideIsFound
  BY DEF RequestInv, OwedFits, SeededRideIsFound
<1> QED
  BY <1>1, RequestSafe, PTL

(* A name in an answer is blank only if the whole route is gone by then       *)
(* (stopsByID after ListLegsForRoute), never on a route that can be ridden.   *)
THEOREM BlankIsDeleted == Spec => []BlankOnlyOnDeletedRoute
<1>1. RequestInv => BlankOnlyOnDeletedRoute
  BY DEF RequestInv, AnswerFits, BlankOnlyOnDeletedRoute
<1> QED
  BY <1>1, RequestSafe, PTL
=============================================================================
